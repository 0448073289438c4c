--------------------------- MODULE ExpressionProofs ---------------------------
(***************************************************************************)
(* Proof that in a program that keeps to the rule of Expression the        *)
(* emitted C computes what P4 says, for bytes of any width, any types,     *)
(* variables and literals, and expressions of any length.                  *)
(***************************************************************************)
EXTENDS Expression, WellFoundedInduction, TLAPS

-----------------------------------------------------------------------------
(* Induction and recursion over numbers                                    *)

\* The least number that is not in S is not 0 and has no predecessor in S.
LEMMA Induction ==
  ASSUME NEW S, 0 \in S, \A n \in Nat : n \in S => n + 1 \in S
  PROVE  Nat \subseteq S
<1> DEFINE T == Nat \ S
<1> SUFFICES ASSUME T # {} PROVE FALSE
  OBVIOUS
<1>1. PICK m \in T : \A k \in T : ~(k < m)
  <2>1. PICK m \in T : \A k \in T : <<k, m>> \notin OpToRel(<, Nat)
    BY WFMin, NatLessThanWellFounded
  <2>2. \A k \in T : ~(k < m)
    BY <2>1 DEF OpToRel
  <2> QED
    BY <2>2
<1>3. m # 0 /\ m - 1 \in Nat /\ m - 1 < m
  BY <1>1
<1>4. m - 1 \in S
  BY <1>1, <1>3
<1> QED
  BY <1>1, <1>3, <1>4

\* A function on 0 .. N is defined by its value at 0 and by a step.
LEMMA Recursion ==
  ASSUME NEW N \in Nat, NEW c \in Int, NEW H \in [Nat -> [Int -> Int]]
  PROVE  \E f \in [0 .. N -> Int] :
           f[0] = c /\ \A n \in 1 .. N : f[n] = H[n][f[n - 1]]
<1> DEFINE Defines(f, m) == f[0] = c /\ \A n \in 1 .. m : f[n] = H[n][f[n - 1]]
           S == {m \in Nat : \E f \in [0 .. m -> Int] : Defines(f, m)}
<1>1. 0 \in S
  <2>1. [n \in 0 .. 0 |-> c] \in [0 .. 0 -> Int] /\ Defines([n \in 0 .. 0 |-> c], 0)
    OBVIOUS
  <2> QED
    BY <2>1
<1>2. ASSUME NEW m \in Nat, m \in S PROVE m + 1 \in S
  <2>1. PICK f \in [0 .. m -> Int] : Defines(f, m)
    BY <1>2
  <2> DEFINE g == [n \in 0 .. m + 1 |-> IF n = m + 1 THEN H[m + 1][f[m]] ELSE f[n]]
  <2>2. H[m + 1][f[m]] \in Int
    OBVIOUS
  <2>3. g \in [0 .. m + 1 -> Int] /\ g[0] = c
    BY <2>1, <2>2
  <2>4. ASSUME NEW n \in 1 .. m + 1 PROVE g[n] = H[n][g[n - 1]]
    <3>1. n - 1 \in 0 .. m /\ n - 1 # m + 1
      OBVIOUS
    <3>2. g[n - 1] = f[n - 1]
      BY <3>1
    <3>3. CASE n = m + 1
      BY <3>2, <3>3
    <3>4. CASE n # m + 1
      <4>1. n \in 1 .. m /\ g[n] = f[n]
        BY <3>4
      <4> QED
        BY <2>1, <3>2, <4>1
    <3> QED
      BY <3>3, <3>4
  <2>5. Defines(g, m + 1)
    BY <2>3, <2>4
  <2>6. \E h \in [0 .. m + 1 -> Int] : Defines(h, m + 1)
    <3> HIDE DEF Defines, g
    <3> QED
      BY <2>3, <2>5
  <2> QED
    <3> HIDE DEF Defines
    <3> QED
      BY <2>6
<1>3. N \in S
  <2> HIDE DEF S
  <2> QED
    BY <1>1, <1>2, Induction
<1> QED
  BY <1>3

-----------------------------------------------------------------------------
(* Powers of two                                                           *)

LEMMA WidestNat == Widest \in Nat
BY ByteAssumption

\* The equation that defines Power, read at one number.
LEMMA PowerAt ==
  ASSUME NEW f, f = [n \in 0 .. Widest |-> IF n = 0 THEN 1 ELSE 2 * f[n - 1]]
  PROVE  \A n \in 0 .. Widest : f[n] = IF n = 0 THEN 1 ELSE 2 * f[n - 1]
BY Zenon

LEMMA PowerExists ==
  \E f : f = [n \in 0 .. Widest |-> IF n = 0 THEN 1 ELSE 2 * f[n - 1]]
<1> DEFINE H == [n \in Nat |-> [v \in Int |-> 2 * v]]
<1>1. PICK f \in [0 .. Widest -> Int] :
        f[0] = 1 /\ \A n \in 1 .. Widest : f[n] = H[n][f[n - 1]]
  <2>1. H \in [Nat -> [Int -> Int]]
    OBVIOUS
  <2>2. 1 \in Int
    OBVIOUS
  <2> HIDE DEF H
  <2> QED
    BY <2>1, <2>2, WidestNat, Recursion, Zenon
<1>2. ASSUME NEW n \in 0 .. Widest
      PROVE  f[n] = IF n = 0 THEN 1 ELSE 2 * f[n - 1]
  <2>1. CASE n = 0
    BY <1>1, <2>1
  <2>2. CASE n # 0
    <3>1. n \in 1 .. Widest /\ n \in Nat /\ n - 1 \in 0 .. Widest
      BY <2>2, WidestNat
    <3>2. f[n] = H[n][f[n - 1]] /\ f[n - 1] \in Int
      BY <1>1, <3>1
    <3> QED
      BY <2>2, <3>1, <3>2
  <2> QED
    BY <2>1, <2>2
<1>3. f = [n \in 0 .. Widest |-> f[n]]
  BY <1>1
<1>4. f = [n \in 0 .. Widest |-> IF n = 0 THEN 1 ELSE 2 * f[n - 1]]
  <2> HIDE DEF H
  <2> QED
    BY <1>2, <1>3
<1> QED
  BY <1>4, Zenon

LEMMA PowerDef ==
  /\ Power[0] = 1
  /\ \A n \in 1 .. Widest : Power[n] = 2 * Power[n - 1]
<1> DEFINE f == CHOOSE p : p = [n \in 0 .. Widest |-> IF n = 0 THEN 1 ELSE 2 * p[n - 1]]
<1>1. Power = [n \in 0 .. Widest |-> f[n]]
  BY DEF Power
<1>2. f = [n \in 0 .. Widest |-> IF n = 0 THEN 1 ELSE 2 * f[n - 1]]
  BY PowerExists, Zenon
<1> HIDE DEF f
<1>3. \A n \in 0 .. Widest : Power[n] = f[n]
  BY <1>1
<1>4. \A n \in 0 .. Widest : f[n] = IF n = 0 THEN 1 ELSE 2 * f[n - 1]
  BY <1>2, PowerAt, Zenon
<1>5. \A n \in 0 .. Widest : Power[n] = IF n = 0 THEN 1 ELSE 2 * f[n - 1]
  BY <1>3, <1>4, Zenon
<1> HIDE <1>1, <1>2
<1>6. Power[0] = 1
  BY <1>5, WidestNat
<1>7. ASSUME NEW n \in 1 .. Widest PROVE Power[n] = 2 * Power[n - 1]
  <2>1. n \in 0 .. Widest /\ n # 0 /\ n - 1 \in 0 .. Widest
    BY WidestNat
  <2> QED
    BY <1>3, <1>5, <2>1
<1> QED
  BY <1>6, <1>7

\* The widths there are.
Widths == 0 .. Widest

LEMMA PowerPos == \A n \in Widths : Power[n] \in Nat \ {0}
<1> DEFINE S == {n \in Nat : n \in Widths => Power[n] \in Nat \ {0}}
<1>1. 0 \in S
  BY PowerDef
<1>2. ASSUME NEW n \in Nat, n \in S PROVE n + 1 \in S
  <2>1. SUFFICES ASSUME n + 1 \in Widths PROVE Power[n + 1] \in Nat \ {0}
    OBVIOUS
  <2>2. n \in Widths /\ n + 1 \in 1 .. Widest /\ n + 1 - 1 = n
    BY <2>1, WidestNat DEF Widths
  <2>3. Power[n] \in Nat \ {0} /\ Power[n + 1] = 2 * Power[n]
    BY <1>2, <2>2, PowerDef
  <2> QED
    BY <2>3
<1>3. Nat \subseteq S
  <2> HIDE DEF S
  <2> QED
    BY <1>1, <1>2, Induction
<1> QED
  BY <1>3, WidestNat DEF Widths

LEMMA PowerNext ==
  ASSUME NEW n \in Nat, n + 1 \in Widths
  PROVE  n \in Widths /\ Power[n + 1] = 2 * Power[n]
<1>1. n \in Widths /\ n + 1 \in 1 .. Widest /\ n + 1 - 1 = n
  BY WidestNat DEF Widths
<1> QED
  BY <1>1, PowerDef

LEMMA PowerSum ==
  ASSUME NEW m \in Nat, NEW n \in Nat, m + n \in Widths
  PROVE  Power[m + n] = Power[m] * Power[n]
<1> DEFINE S == {k \in Nat : m + k \in Widths => Power[m + k] = Power[m] * Power[k]}
<1>1. 0 \in S
  <2>1. m \in Widths
    BY WidestNat DEF Widths
  <2>2. Power[m] \in Int /\ m + 0 = m /\ Power[0] = 1
    BY <2>1, PowerPos, PowerDef
  <2> QED
    BY <2>2
<1>2. ASSUME NEW k \in Nat, k \in S PROVE k + 1 \in S
  <2>1. SUFFICES ASSUME m + (k + 1) \in Widths
                 PROVE  Power[m + (k + 1)] = Power[m] * Power[k + 1]
    OBVIOUS
  <2>2. m + (k + 1) = m + k + 1 /\ m + k \in Nat
    OBVIOUS
  <2>3. m + k \in Widths /\ Power[m + (k + 1)] = 2 * Power[m + k]
    BY <2>1, <2>2, PowerNext
  <2>4. k + 1 \in Widths /\ m \in Widths
    BY <2>1, WidestNat DEF Widths
  <2>5. k \in Widths /\ Power[k + 1] = 2 * Power[k]
    BY <2>4, PowerNext
  <2>6. Power[m] \in Int /\ Power[k] \in Int
    BY <2>4, <2>5, PowerPos
  <2>7. Power[m + k] = Power[m] * Power[k]
    BY <1>2, <2>3
  <2>8. \A a, b \in Int : 2 * (a * b) = a * (2 * b)
    OBVIOUS
  <2> QED
    BY <2>3, <2>5, <2>6, <2>7, <2>8
<1>3. Nat \subseteq S
  <2> HIDE DEF S
  <2> QED
    BY <1>1, <1>2, Induction
<1> QED
  BY <1>3

LEMMA PowerLess ==
  ASSUME NEW m \in Nat, NEW n \in Widths, m < n
  PROVE  m \in Widths /\ 2 * Power[m] <= Power[n]
<1> DEFINE d == n - m - 1
<1>1. d \in Nat /\ m + 1 \in Nat /\ (m + 1) + d = n /\ m \in Widths
      /\ m + 1 \in Widths /\ d \in Widths
  BY WidestNat DEF Widths
<1>2. Power[n] = Power[m + 1] * Power[d] /\ Power[m + 1] = 2 * Power[m]
  <2> HIDE DEF d
  <2> QED
    BY <1>1, PowerSum, PowerNext
<1>3. Power[m] \in Nat \ {0} /\ Power[d] \in Nat \ {0}
  <2> HIDE DEF d
  <2> QED
    BY <1>1, PowerPos
<1>4. \A a, b \in Nat \ {0} : 2 * a <= 2 * a * b
  <2>1. \A a, b \in Nat \ {0} : 2 * a * b = 2 * a + 2 * a * (b - 1) /\ 2 * a * (b - 1) >= 0
    OBVIOUS
  <2> QED
    BY <2>1
<1> HIDE DEF d
<1> QED
  BY <1>1, <1>2, <1>3, <1>4

\* A power is a multiple of the smaller ones.
LEMMA PowerDivides ==
  ASSUME NEW m \in Nat, NEW n \in Widths, m <= n
  PROVE  m \in Widths /\ n - m \in Widths /\ Power[n] = Power[n - m] * Power[m]
<1>1. n - m \in Nat /\ (n - m) + m = n /\ m \in Widths /\ n - m \in Widths
  BY WidestNat DEF Widths
<1> QED
  BY <1>1, PowerSum

-----------------------------------------------------------------------------
(* Congruence                                                              *)

Congruents(a, b, m) == \E k \in Int : a = b + k * m

LEMMA CongruentsRefl ==
  ASSUME NEW a \in Int, NEW m \in Int
  PROVE  Congruents(a, a, m)
<1>1. a = a + 0 * m
  OBVIOUS
<1> QED
  BY <1>1 DEF Congruents

LEMMA CongruentsSym ==
  ASSUME NEW a \in Int, NEW b \in Int, NEW m \in Int, Congruents(a, b, m)
  PROVE  Congruents(b, a, m)
<1>1. PICK k \in Int : a = b + k * m
  BY DEF Congruents
<1>2. b = a + (-k) * m /\ -k \in Int
  BY <1>1
<1> QED
  BY <1>2 DEF Congruents

LEMMA CongruentsTrans ==
  ASSUME NEW a \in Int, NEW b \in Int, NEW c \in Int, NEW m \in Int,
         Congruents(a, b, m), Congruents(b, c, m)
  PROVE  Congruents(a, c, m)
<1>1. PICK j \in Int : a = b + j * m
  BY DEF Congruents
<1>2. PICK k \in Int : b = c + k * m
  BY DEF Congruents
<1>3. a = c + (j + k) * m /\ j + k \in Int
  BY <1>1, <1>2
<1> QED
  BY <1>3 DEF Congruents

LEMMA CongruentsAdd ==
  ASSUME NEW a \in Int, NEW b \in Int, NEW c \in Int, NEW d \in Int, NEW m \in Int,
         Congruents(a, b, m), Congruents(c, d, m)
  PROVE  Congruents(a + c, b + d, m) /\ Congruents(a - c, b - d, m)
<1>1. PICK j \in Int : a = b + j * m
  BY DEF Congruents
<1>2. PICK k \in Int : c = d + k * m
  BY DEF Congruents
<1>3. a + c = (b + d) + (j + k) * m /\ a - c = (b - d) + (j - k) * m
  BY <1>1, <1>2
<1>4. j + k \in Int /\ j - k \in Int
  OBVIOUS
<1> QED
  BY <1>3, <1>4 DEF Congruents

LEMMA CongruentsTimes ==
  ASSUME NEW a \in Int, NEW b \in Int, NEW c \in Int, NEW d \in Int, NEW m \in Int,
         Congruents(a, b, m), Congruents(c, d, m)
  PROVE  Congruents(a * c, b * d, m)
<1>1. PICK j \in Int : a = b + j * m
  BY DEF Congruents
<1>2. PICK k \in Int : c = d + k * m
  BY DEF Congruents
<1>3. a * c = b * d + (b * k + j * d + j * k * m) * m
  BY <1>1, <1>2
<1>4. b * k + j * d + j * k * m \in Int
  OBVIOUS
<1> QED
  BY <1>3, <1>4 DEF Congruents

\* What agrees up to a multiple of m agrees up to one of a divisor of m.
LEMMA CongruentsCoarser ==
  ASSUME NEW a \in Int, NEW b \in Int, NEW j \in Int, NEW m \in Int,
         Congruents(a, b, j * m)
  PROVE  Congruents(a, b, m)
<1>1. PICK k \in Int : a = b + k * (j * m)
  BY DEF Congruents
<1>2. a = b + (k * j) * m /\ k * j \in Int
  BY <1>1
<1> QED
  BY <1>2 DEF Congruents

LEMMA CongruentsNarrower ==
  ASSUME NEW a \in Int, NEW b \in Int, NEW v \in Nat, NEW w \in Widths, v <= w,
         Congruents(a, b, Power[w])
  PROVE  Congruents(a, b, Power[v])
<1>1. /\ v \in Widths /\ w - v \in Widths
      /\ Power[w] = Power[w - v] * Power[v]
  BY PowerDivides
<1>2. Power[w - v] \in Int /\ Power[v] \in Int
  BY <1>1, PowerPos
<1> QED
  BY <1>1, <1>2, CongruentsCoarser

LEMMA CongruentsMod ==
  ASSUME NEW a \in Int, NEW m \in Nat \ {0}
  PROVE  /\ a % m \in 0 .. m - 1 /\ Congruents(a % m, a, m)
         /\ a \div m \in Int /\ a = m * (a \div m) + (a % m)
<1>1. a % m \in 0 .. m - 1 /\ a \div m \in Int /\ a = m * (a \div m) + (a % m)
  OBVIOUS
<1>2. a % m = a + (-(a \div m)) * m /\ -(a \div m) \in Int
  BY <1>1
<1> QED
  BY <1>1, <1>2 DEF Congruents

\* Of m numbers in a row no two are congruent.
LEMMA CongruentsUnique ==
  ASSUME NEW a \in Int, NEW b \in Int, NEW m \in Nat \ {0}, NEW l \in Int,
         Congruents(a, b, m), a \in l .. l + m - 1, b \in l .. l + m - 1
  PROVE  a = b
<1>1. PICK k \in Int : a = b + k * m
  BY DEF Congruents
<1>2. CASE k = 0
  BY <1>1, <1>2
<1>3. CASE k >= 1
  <2>1. k * m = m + (k - 1) * m /\ (k - 1) * m >= 0
    BY <1>3
  <2>2. k * m \in Int
    OBVIOUS
  <2> QED
    BY <1>1, <2>1, <2>2
<1>4. CASE k <= -1
  <2>1. k * m = (k + 1) * m - m /\ (k + 1) * m <= 0
    BY <1>4
  <2>2. k * m \in Int
    OBVIOUS
  <2> QED
    BY <1>1, <2>1, <2>2
<1> QED
  BY <1>2, <1>3, <1>4

\* The quotient and the remainder are the only ones.
LEMMA Division ==
  ASSUME NEW a \in Int, NEW m \in Nat \ {0}, NEW q \in Int, NEW r \in 0 .. m - 1,
         a = m * q + r
  PROVE  a \div m = q /\ a % m = r
OBVIOUS

LEMMA CongruentsZero ==
  ASSUME NEW a \in Int, NEW b \in Int, NEW m \in Nat \ {0}
  PROVE  Congruents(a, b, m) <=> (a - b) % m = 0
<1>1. ASSUME Congruents(a, b, m) PROVE (a - b) % m = 0
  <2>1. PICK k \in Int : a = b + k * m
    BY <1>1 DEF Congruents
  <2>2. a - b = m * k + 0 /\ 0 \in 0 .. m - 1 /\ a - b \in Int
    BY <2>1
  <2> QED
    BY <2>2, Division
<1>2. ASSUME (a - b) % m = 0 PROVE Congruents(a, b, m)
  <2>1. a - b = m * ((a - b) \div m) + 0 /\ (a - b) \div m \in Int
    BY <1>2, CongruentsMod
  <2>2. a = b + ((a - b) \div m) * m
    BY <2>1
  <2> QED
    BY <2>1, <2>2 DEF Congruents
<1> QED
  BY <1>1, <1>2

-----------------------------------------------------------------------------
(* Types and conversions                                                   *)

\* The types that have numbers.
Types == {TypeOf(w, s) : w \in 1 .. Widest, s \in BOOLEAN}

LEMMA TypeParts ==
  ASSUME NEW t \in Types
  PROVE  /\ t = TypeOf(t.w, t.s) /\ t.w \in 1 .. Widest /\ t.s \in BOOLEAN
         /\ t.w \in Widths /\ t.w - 1 \in Widths /\ t.w \in Nat /\ t.w - 1 \in Nat
         /\ t \in [w : Nat, s : BOOLEAN]
BY WidestNat DEF Types, TypeOf, Widths

\* The values of a type are 2^w numbers in a row, 0 among them.
LEMMA Range ==
  ASSUME NEW t \in Types
  PROVE  /\ Power[t.w] \in Nat \ {0} /\ Power[t.w - 1] \in Nat \ {0}
         /\ Power[t.w] = 2 * Power[t.w - 1]
         /\ Least(t) \in Int /\ Greatest(t) \in Int
         /\ Greatest(t) = Least(t) + Power[t.w] - 1
         /\ Least(t) <= 0 /\ 0 <= Greatest(t)
         /\ Least(t) = (IF t.s THEN -Power[t.w - 1] ELSE 0)
         /\ Values(t) \subseteq Int
<1>1. Power[t.w] \in Nat \ {0} /\ Power[t.w - 1] \in Nat \ {0}
  BY TypeParts, PowerPos
<1>2. Power[t.w] = 2 * Power[t.w - 1]
  BY TypeParts, PowerDef
<1>3. CASE t.s
  BY <1>1, <1>2, <1>3 DEF Least, Greatest, Values
<1>4. CASE ~t.s
  BY <1>1, <1>2, <1>4 DEF Least, Greatest, Values
<1> QED
  BY <1>3, <1>4

LEMMA WrapInt ==
  ASSUME NEW t \in Types, NEW n \in Int
  PROVE  /\ Wrap(t, n) \in Int /\ Wrap(t, n) \in Values(t)
         /\ Congruents(Wrap(t, n), n, Power[t.w])
<1> DEFINE l == Least(t)
           m == Power[t.w]
<1>1. l \in Int /\ m \in Nat \ {0} /\ Greatest(t) = l + m - 1
  BY Range
<1>2. Wrap(t, n) = l + ((n - l) % m) /\ Values(t) = l .. Greatest(t)
  BY DEF Wrap, Values
<1> HIDE DEF l, m
<1>3. PICK d \in Int : d = n - l
  BY <1>1
<1>4. d % m \in 0 .. m - 1 /\ Congruents(d % m, d, m) /\ d % m \in Int /\ m \in Int
  BY <1>1, CongruentsMod
<1>5. Congruents(l, l, m)
  BY <1>1, CongruentsRefl
<1>7. Congruents(l + (d % m), l + d, m)
  BY <1>1, <1>4, <1>5, CongruentsAdd
<1>8. l + d = n /\ Wrap(t, n) = l + (d % m)
  BY <1>1, <1>2, <1>3
<1>9. l + (d % m) \in l .. l + m - 1
  BY <1>1, <1>4
<1> QED
  BY <1>1, <1>2, <1>7, <1>8, <1>9 DEF m

\* Values of a type that are congruent are equal.
LEMMA ValuesUnique ==
  ASSUME NEW t \in Types, NEW a \in Values(t), NEW b \in Values(t),
         Congruents(a, b, Power[t.w])
  PROVE  a = b
<1>1. Least(t) \in Int /\ Power[t.w] \in Nat \ {0} /\ a \in Int /\ b \in Int
  BY Range
<1>2. a \in Least(t) .. Least(t) + Power[t.w] - 1
      /\ b \in Least(t) .. Least(t) + Power[t.w] - 1
  BY Range DEF Values
<1> QED
  BY <1>1, <1>2, CongruentsUnique

LEMMA WrapId ==
  ASSUME NEW t \in Types, NEW n \in Values(t)
  PROVE  Wrap(t, n) = n
<1>1. n \in Int
  BY Range
<1> QED
  BY <1>1, WrapInt, ValuesUnique

\* The types C has, and the one conversion that matters.
Scalars == {TypeOf(w, s) : w \in {Byte, 2 * Byte, Word, 2 * Word}, s \in BOOLEAN}

LEMMA ScalarTypes ==
  /\ Scalars \subseteq Types
  /\ CInt \in Scalars /\ CLong \in Scalars /\ Array \notin Types /\ Bool \notin Types
<1>1. Byte \in Nat \ {0} /\ Widest \in Nat /\ 8 * Byte <= Widest
  BY ByteAssumption
<1>2. {Byte, 2 * Byte, Word, 2 * Word} \subseteq 1 .. Widest
  BY <1>1 DEF Word
<1>3. Scalars \subseteq Types
  BY <1>2 DEF Scalars, Types
<1>4. CInt \in Scalars /\ CLong \in Scalars
  <2>1. \A w \in {Byte, 2 * Byte, Word, 2 * Word}, s \in BOOLEAN : TypeOf(w, s) \in Scalars
    BY DEF Scalars
  <2>2. Word \in {Byte, 2 * Byte, Word, 2 * Word}
        /\ 2 * Word \in {Byte, 2 * Byte, Word, 2 * Word}
    OBVIOUS
  <2> QED
    BY <2>1, <2>2, Zenon DEF CInt, CLong
<1>5. Array \notin Types /\ Bool \notin Types
  BY TypeParts DEF Array, Bool, TypeOf
<1> QED
  BY <1>3, <1>4, <1>5

LEMMA ScalarParts ==
  ASSUME NEW c \in Scalars
  PROVE  /\ c = TypeOf(c.w, c.s) /\ c.w \in {Byte, 2 * Byte, Word, 2 * Word}
         /\ c.s \in BOOLEAN /\ c \in Types /\ c # Array
         /\ Byte \in Nat \ {0} /\ Word = 4 * Byte
BY ScalarTypes, ByteAssumption DEF Scalars, TypeOf, Word

\* A wider type of the same signedness has more values, and so has a wider
\* signed one.
LEMMA ValuesWider ==
  ASSUME NEW t \in Types, NEW d \in Types, t.w < d.w, t.s => d.s
  PROVE  Values(t) \subseteq Values(d)
<1>1. 2 * Power[t.w] <= Power[d.w]
  BY TypeParts, PowerLess
<1>2. /\ Least(d) = (IF d.s THEN -Power[d.w - 1] ELSE 0) /\ Greatest(d) = Least(d) + Power[d.w] - 1
      /\ Power[d.w] = 2 * Power[d.w - 1] /\ Power[d.w - 1] \in Nat
  BY Range
<1>3. /\ Least(t) = (IF t.s THEN -Power[t.w - 1] ELSE 0) /\ Greatest(t) = Least(t) + Power[t.w] - 1
      /\ Power[t.w] = 2 * Power[t.w - 1] /\ Power[t.w - 1] \in Nat
  BY Range
<1>4. t.s \in BOOLEAN /\ d.s \in BOOLEAN
  BY TypeParts
<1>5. Least(d) <= Least(t)
  <2>1. CASE t.s
    BY <1>1, <1>2, <1>3, <2>1
  <2>2. CASE ~t.s
    BY <1>2, <1>3, <2>2
  <2> QED
    BY <2>1, <2>2, <1>4
<1>6. Greatest(t) <= Greatest(d)
  <2>1. CASE t.s
    BY <1>1, <1>2, <1>3, <2>1
  <2>2. CASE ~t.s /\ d.s
    BY <1>1, <1>2, <1>3, <2>2
  <2>3. CASE ~t.s /\ ~d.s
    BY <1>1, <1>2, <1>3, <2>3
  <2> QED
    BY <2>1, <2>2, <2>3, <1>4
<1>7. Least(t) \in Int /\ Least(d) \in Int /\ Greatest(t) \in Int /\ Greatest(d) \in Int
  BY Range
<1> QED
  BY <1>5, <1>6, <1>7 DEF Values

LEMMA Promotion ==
  ASSUME NEW c \in Scalars
  PROVE  /\ Promote(c) \in Scalars /\ c.w <= Promote(c).w /\ Word <= Promote(c).w
         /\ Promote(c).w \in {Word, 2 * Word}
         /\ c.s => Promote(c).s
         /\ ~Promote(c).s => ~c.s
         /\ Values(c) \subseteq Values(Promote(c))
<1>1. CASE c.w < Word
  <2>1. Promote(c) = CInt /\ CInt.w = Word /\ CInt.s /\ CInt \in Scalars
    BY <1>1, ScalarTypes DEF Promote, CInt, TypeOf
  <2>2. Values(c) \subseteq Values(CInt)
    BY <1>1, <2>1, ScalarTypes, ValuesWider
  <2> QED
    BY <1>1, <2>1, <2>2, ScalarParts
<1>2. CASE ~(c.w < Word)
  BY <1>2, ScalarParts DEF Promote
<1> QED
  BY <1>1, <1>2

LEMMA CommonType ==
  ASSUME NEW c \in Scalars, NEW d \in Scalars
  PROVE  /\ Common(c, d) \in Scalars /\ Word <= Common(c, d).w
         /\ c.w <= Common(c, d).w /\ d.w <= Common(c, d).w
         /\ c.s /\ d.s => Common(c, d).s
<1> DEFINE p == Promote(c)
           q == Promote(d)
<1>1. /\ p \in Scalars /\ p.w \in {Word, 2 * Word} /\ c.w <= p.w /\ (c.s => p.s)
      /\ q \in Scalars /\ q.w \in {Word, 2 * Word} /\ d.w <= q.w /\ (d.s => q.s)
      /\ p.s \in BOOLEAN /\ q.s \in BOOLEAN
  BY Promotion, ScalarParts
<1>2. Common(c, d) = IF p.w = q.w THEN TypeOf(p.w, p.s /\ q.s) ELSE IF p.w > q.w THEN p ELSE q
  BY DEF Common
<1>3. Word \in Nat /\ c.w \in Nat /\ d.w \in Nat
  BY ScalarParts
<1> HIDE DEF p, q
<1>4. CASE p.w = q.w
  <2>1. TypeOf(p.w, p.s /\ q.s) \in Scalars
    BY <1>1 DEF Scalars
  <2>2. TypeOf(p.w, p.s /\ q.s).w = p.w /\ TypeOf(p.w, p.s /\ q.s).s = (p.s /\ q.s)
    BY DEF TypeOf
  <2> QED
    BY <1>1, <1>2, <1>3, <1>4, <2>1, <2>2
<1>5. CASE p.w > q.w
  BY <1>1, <1>2, <1>3, <1>5
<1>6. CASE p.w < q.w
  BY <1>1, <1>2, <1>3, <1>6
<1> QED
  BY <1>1, <1>3, <1>4, <1>5, <1>6

\* A number keeps its value in the common type unless it is negative and the
\* other type has no negative numbers.
LEMMA Converted ==
  ASSUME NEW c \in Scalars, NEW d \in Scalars, NEW x \in Values(c), x < 0 => d.s
  PROVE  x \in Values(Common(c, d)) /\ x \in Values(Common(d, c))
<1> DEFINE p == Promote(c)
           q == Promote(d)
<1>1. /\ p \in Scalars /\ p.w \in {Word, 2 * Word} /\ (c.s => p.s) /\ x \in Values(p)
      /\ q \in Scalars /\ q.w \in {Word, 2 * Word} /\ (d.s => q.s)
      /\ p.s \in BOOLEAN /\ q.s \in BOOLEAN
  BY Promotion, ScalarParts
<1>2. Common(c, d) = IF p.w = q.w THEN TypeOf(p.w, p.s /\ q.s) ELSE IF p.w > q.w THEN p ELSE q
  BY DEF Common
<1>3. Common(d, c) = IF q.w = p.w THEN TypeOf(q.w, q.s /\ p.s) ELSE IF q.w > p.w THEN q ELSE p
  BY DEF Common
<1>4. Word \in Nat \ {0} /\ x \in Int
  BY ScalarParts, ScalarTypes, Range
<1>5. x < 0 => q.s
  BY <1>1
<1> HIDE DEF p, q
<1>6. CASE p.w = q.w
  <2>1. Common(c, d) = TypeOf(p.w, p.s /\ q.s) /\ Common(d, c) = TypeOf(p.w, p.s /\ q.s)
    <3>1. (p.s /\ q.s) = (q.s /\ p.s)
      OBVIOUS
    <3> QED
      BY <1>2, <1>3, <1>6, <3>1
  <2>2. CASE ~p.s \/ q.s
    <3>1. TypeOf(p.w, p.s /\ q.s) = p
      BY <1>1, <2>2, ScalarParts DEF TypeOf
    <3> QED
      BY <1>1, <2>1, <3>1
  <2>3. CASE p.s /\ ~q.s
    <3>1. TypeOf(p.w, p.s /\ q.s) = q
      BY <1>1, <1>6, <2>3, ScalarParts DEF TypeOf
    <3>2. 0 <= x
      BY <1>4, <1>5, <2>3
    <3>3. x <= Greatest(p) /\ Greatest(p) \in Int /\ Greatest(q) \in Int /\ Least(q) = 0
      BY <1>1, <2>3, <1>4, ScalarTypes, Range DEF Values
    <3>4. Greatest(p) = Least(p) + Power[p.w] - 1
          /\ Greatest(q) = 0 + Power[q.w] - 1 /\ Least(p) <= 0
          /\ Power[p.w] \in Int /\ Least(p) \in Int
      BY <1>1, <3>3, ScalarTypes, Range
    <3>5. x \in Values(q)
      BY <1>4, <1>6, <3>2, <3>3, <3>4 DEF Values
    <3> QED
      BY <2>1, <3>1, <3>5
  <2> QED
    BY <1>1, <2>2, <2>3
<1>7. CASE p.w > q.w
  BY <1>1, <1>2, <1>3, <1>4, <1>7
<1>8. CASE p.w < q.w
  <2>1. Common(c, d) = q /\ Common(d, c) = q
    BY <1>1, <1>2, <1>3, <1>4, <1>8
  <2>2. CASE p.s => q.s
    BY <1>1, <1>8, <2>1, <2>2, ScalarTypes, ValuesWider
  <2>3. CASE p.s /\ ~q.s
    <3>1. 0 <= x
      BY <1>4, <1>5, <2>3
    <3>2. x <= Greatest(p) /\ Greatest(p) \in Int /\ Greatest(q) \in Int /\ Least(q) = 0
      BY <1>1, <2>3, <1>4, ScalarTypes, Range DEF Values
    <3>3. Greatest(p) = Least(p) + Power[p.w] - 1
          /\ Greatest(q) = 0 + Power[q.w] - 1 /\ Least(p) <= 0
          /\ Power[p.w] \in Nat /\ Power[q.w] \in Nat /\ Least(p) \in Int
      BY <1>1, <3>2, ScalarTypes, Range
    <3>4. 2 * Power[p.w] <= Power[q.w]
      BY <1>1, <1>8, ScalarTypes, TypeParts, PowerLess
    <3>5. x \in Values(q)
      BY <1>4, <3>1, <3>2, <3>3, <3>4 DEF Values
    <3> QED
      BY <2>1, <3>5
  <2> QED
    BY <2>2, <2>3
<1> QED
  BY <1>1, <1>4, <1>6, <1>7, <1>8

-----------------------------------------------------------------------------
(* Bits                                                                    *)

LEMMA BitValue ==
  ASSUME NEW x \in Int, NEW k \in Widths
  PROVE  Bit(x, k) \in {0, 1}
<1>1. x \div Power[k] \in Int
  BY PowerPos, CongruentsMod
<1>2. \A a \in Int : a % 2 \in {0, 1}
  OBVIOUS
<1> QED
  BY <1>1, <1>2 DEF Bit

\* The equation that defines the bits of both, read at one number.
LEMMA BothAt ==
  ASSUME NEW x, NEW y, NEW f,
         f = [n \in 0 .. Widest |->
                IF n = 0 THEN 0 ELSE f[n - 1] + Power[n - 1] * (Bit(x, n - 1) * Bit(y, n - 1))]
  PROVE  \A n \in 0 .. Widest :
           f[n] = IF n = 0 THEN 0 ELSE f[n - 1] + Power[n - 1] * (Bit(x, n - 1) * Bit(y, n - 1))
BY Zenon

LEMMA BothExists ==
  ASSUME NEW x \in Int, NEW y \in Int
  PROVE  \E f : f = [n \in 0 .. Widest |->
                       IF n = 0 THEN 0
                       ELSE f[n - 1] + Power[n - 1] * (Bit(x, n - 1) * Bit(y, n - 1))]
<1> DEFINE Term(n) == Power[n - 1] * (Bit(x, n - 1) * Bit(y, n - 1))
           H == [n \in Nat |-> [v \in Int |-> IF n \in 1 .. Widest THEN v + Term(n) ELSE v]]
<1>1. ASSUME NEW n \in 1 .. Widest PROVE Term(n) \in Int
  <2>1. n - 1 \in Widths
    BY WidestNat DEF Widths
  <2>2. Power[n - 1] \in Int /\ Bit(x, n - 1) \in Int /\ Bit(y, n - 1) \in Int
    BY <2>1, PowerPos, BitValue
  <2> QED
    BY <2>2
<1>2. H \in [Nat -> [Int -> Int]]
  <2> HIDE DEF Term
  <2> QED
    BY <1>1
<1>3. PICK f \in [0 .. Widest -> Int] :
        f[0] = 0 /\ \A n \in 1 .. Widest : f[n] = H[n][f[n - 1]]
  <2>1. 0 \in Int
    OBVIOUS
  <2> HIDE DEF H
  <2> QED
    BY <1>2, <2>1, WidestNat, Recursion, Zenon
<1>4. ASSUME NEW n \in 0 .. Widest
      PROVE  f[n] = IF n = 0 THEN 0 ELSE f[n - 1] + Term(n)
  <2>1. CASE n = 0
    BY <1>3, <2>1
  <2>2. CASE n # 0
    <3>1. n \in 1 .. Widest /\ n \in Nat /\ n - 1 \in 0 .. Widest
      BY <2>2, WidestNat
    <3>2. f[n] = H[n][f[n - 1]] /\ f[n - 1] \in Int
      BY <1>3, <3>1
    <3> HIDE DEF Term
    <3> QED
      BY <2>2, <3>1, <3>2
  <2> QED
    BY <2>1, <2>2
<1>5. f = [n \in 0 .. Widest |-> f[n]]
  BY <1>3
<1>6. f = [n \in 0 .. Widest |-> IF n = 0 THEN 0 ELSE f[n - 1] + Term(n)]
  <2> HIDE DEF H, Term
  <2> QED
    BY <1>4, <1>5
<1> QED
  BY <1>6, Zenon

LEMMA BothDef ==
  ASSUME NEW x \in Int, NEW y \in Int
  PROVE  /\ BitsOfBoth(0, x, y) = 0
         /\ \A n \in 1 .. Widest :
              BitsOfBoth(n, x, y) =
                BitsOfBoth(n - 1, x, y) + Power[n - 1] * (Bit(x, n - 1) * Bit(y, n - 1))
<1> DEFINE f == CHOOSE p :
                  p = [n \in 0 .. Widest |->
                         IF n = 0 THEN 0
                         ELSE p[n - 1] + Power[n - 1] * (Bit(x, n - 1) * Bit(y, n - 1))]
<1>1. \A n : BitsOfBoth(n, x, y) = f[n]
  BY DEF BitsOfBoth
<1>2. f = [n \in 0 .. Widest |->
             IF n = 0 THEN 0
             ELSE f[n - 1] + Power[n - 1] * (Bit(x, n - 1) * Bit(y, n - 1))]
  BY BothExists, Zenon
<1> HIDE DEF f
<1>4. \A n \in 0 .. Widest :
        f[n] = IF n = 0 THEN 0
               ELSE f[n - 1] + Power[n - 1] * (Bit(x, n - 1) * Bit(y, n - 1))
  BY <1>2, BothAt, Zenon
<1> HIDE <1>2
<1>6. f[0] = 0
  BY <1>4, WidestNat
<1>7. ASSUME NEW n \in 1 .. Widest
      PROVE  f[n] = f[n - 1] + Power[n - 1] * (Bit(x, n - 1) * Bit(y, n - 1))
  <2>1. n \in 0 .. Widest /\ n # 0
    BY WidestNat
  <2> QED
    BY <1>4, <2>1
<1> QED
  BY <1>1, <1>6, <1>7, Zenon

LEMMA BothNext ==
  ASSUME NEW x \in Int, NEW y \in Int, NEW n \in Nat, n + 1 \in Widths
  PROVE  BitsOfBoth(n + 1, x, y) = BitsOfBoth(n, x, y) + Power[n] * (Bit(x, n) * Bit(y, n))
<1>1. n + 1 \in 1 .. Widest /\ n + 1 - 1 = n
  BY WidestNat DEF Widths
<1> QED
  BY <1>1, BothDef

LEMMA BothInt ==
  ASSUME NEW x \in Int, NEW y \in Int, NEW w \in Widths
  PROVE  BitsOfBoth(w, x, y) \in Int
<1> DEFINE S == {n \in Nat : n \in Widths => BitsOfBoth(n, x, y) \in Int}
<1>1. 0 \in S
  BY BothDef
<1>2. ASSUME NEW n \in Nat, n \in S PROVE n + 1 \in S
  <2>1. SUFFICES ASSUME n + 1 \in Widths PROVE BitsOfBoth(n + 1, x, y) \in Int
    OBVIOUS
  <2>2. n \in Widths
    BY <2>1, PowerNext
  <2>3. BitsOfBoth(n, x, y) \in Int /\ Power[n] \in Int /\ Bit(x, n) \in Int
        /\ Bit(y, n) \in Int
    BY <1>2, <2>2, PowerPos, BitValue
  <2> QED
    BY <2>1, <2>3, BothNext
<1>3. Nat \subseteq S
  <2> HIDE DEF S
  <2> QED
    BY <1>1, <1>2, Induction
<1> QED
  BY <1>3, WidestNat DEF Widths

\* The remainder by a power of two has one bit more than that by half of it.
LEMMA ModNext ==
  ASSUME NEW x \in Int, NEW n \in Nat, n + 1 \in Widths
  PROVE  x % Power[n + 1] = (x % Power[n]) + Power[n] * Bit(x, n)
<1>1. n \in Widths /\ Power[n + 1] = 2 * Power[n] /\ Power[n] \in Nat \ {0}
  BY PowerNext, PowerPos
<1>2. PICK p \in Nat \ {0} : p = Power[n]
  BY <1>1
<1>3. PICK q \in Int, r \in 0 .. p - 1 : x = p * q + r /\ q = x \div p /\ r = x % p
  BY CongruentsMod
<1>4. PICK h \in Int, b \in {0, 1} : q = 2 * h + b /\ b = q % 2
  OBVIOUS
<1>5. Bit(x, n) = b
  BY <1>2, <1>3, <1>4 DEF Bit
<1>6. /\ x = (2 * p) * h + (r + p * b)
      /\ r + p * b \in 0 .. 2 * p - 1
  <2>1. x = p * q + r
    BY <1>3, Zenon
  <2>2. q = 2 * h + b
    BY <1>4, Zenon
  <2>3. 0 <= r /\ r <= p - 1 /\ r \in Int
    OBVIOUS
  <2>4. p * (2 * h) = (2 * p) * h /\ p * (2 * h + 1) = (2 * p) * h + p
    OBVIOUS
  <2>5. CASE b = 0
    BY <2>1, <2>2, <2>3, <2>4, <2>5
  <2>6. CASE b = 1
    BY <2>1, <2>2, <2>3, <2>4, <2>6
  <2> QED
    BY <2>5, <2>6
<1>7. 2 * p \in Nat \ {0}
  OBVIOUS
<1>8. x % (2 * p) = r + p * b
  BY <1>6, <1>7, Division
<1> QED
  BY <1>1, <1>2, <1>3, <1>5, <1>8

\* What two numbers have in common is part of each, and no more than that is
\* counted twice in their sum.
LEMMA BothRange ==
  ASSUME NEW x \in Int, NEW y \in Int, NEW w \in Widths
  PROVE  /\ 0 <= BitsOfBoth(w, x, y)
         /\ BitsOfBoth(w, x, y) <= x % Power[w]
         /\ BitsOfBoth(w, x, y) <= y % Power[w]
         /\ (x % Power[w]) + (y % Power[w]) - BitsOfBoth(w, x, y) <= Power[w] - 1
<1> DEFINE In(n) == /\ 0 <= BitsOfBoth(n, x, y)
                    /\ BitsOfBoth(n, x, y) <= x % Power[n]
                    /\ BitsOfBoth(n, x, y) <= y % Power[n]
                    /\ (x % Power[n]) + (y % Power[n]) - BitsOfBoth(n, x, y) <= Power[n] - 1
           S == {n \in Nat : n \in Widths => In(n)}
<1>1. 0 \in S
  <2>1. \A a \in Int : a % 1 = 0
    OBVIOUS
  <2> QED
    BY <2>1, BothDef, PowerDef
<1>2. ASSUME NEW n \in Nat, n \in S PROVE n + 1 \in S
  <2>1. SUFFICES ASSUME n + 1 \in Widths PROVE In(n + 1)
    OBVIOUS
  <2>2. n \in Widths /\ Power[n + 1] = 2 * Power[n]
    BY <2>1, PowerNext
  <2>3. PICK p \in Nat \ {0} : p = Power[n]
    BY <2>2, PowerPos
  <2>4. PICK b \in Int : b = BitsOfBoth(n, x, y)
    BY <2>2, BothInt
  <2>5. PICK i \in {0, 1}, j \in {0, 1} : i = Bit(x, n) /\ j = Bit(y, n)
    BY <2>2, BitValue
  <2>6. PICK r \in Int, s \in Int : r = x % Power[n] /\ s = y % Power[n]
    <3>1. x % p \in Int /\ y % p \in Int
      BY CongruentsMod
    <3> HIDE DEF In, S
    <3> QED
      BY <2>3, <3>1
  <2>7. /\ x % Power[n + 1] = r + p * i
        /\ y % Power[n + 1] = s + p * j
        /\ BitsOfBoth(n + 1, x, y) = b + p * (i * j)
    BY <2>1, <2>3, <2>4, <2>5, <2>6, ModNext, BothNext
  <2>8. 0 <= b /\ b <= r /\ b <= s /\ r + s - b <= p - 1
    BY <1>2, <2>2, <2>3, <2>4, <2>6
  <2>9. /\ 0 <= b + p * (i * j) /\ b + p * (i * j) <= r + p * i
        /\ b + p * (i * j) <= s + p * j
        /\ (r + p * i) + (s + p * j) - (b + p * (i * j)) <= 2 * p - 1
    <3>1. CASE i = 0 /\ j = 0
      BY <2>8, <3>1
    <3>2. CASE i = 0 /\ j = 1
      BY <2>8, <3>2
    <3>3. CASE i = 1 /\ j = 0
      BY <2>8, <3>3
    <3>4. CASE i = 1 /\ j = 1
      BY <2>8, <3>4
    <3> QED
      BY <3>1, <3>2, <3>3, <3>4
  <2> QED
    BY <2>2, <2>3, <2>7, <2>9
<1>3. Nat \subseteq S
  <2> HIDE DEF S
  <2> QED
    BY <1>1, <1>2, Induction
<1> QED
  BY <1>3, WidestNat DEF Widths

\* Numbers that agree on their w lowest bits agree on each of them.
LEMMA BitLocal ==
  ASSUME NEW x \in Int, NEW z \in Int, NEW w \in Widths, NEW k \in Nat, k < w,
         Congruents(z, x, Power[w])
  PROVE  Bit(z, k) = Bit(x, k)
<1>1. k + 1 \in Nat /\ k + 1 \in Widths /\ k \in Widths /\ Power[k + 1] = 2 * Power[k]
  <2>1. k + 1 \in Widths
    BY WidestNat DEF Widths
  <2> QED
    BY <2>1, PowerNext
<1>2. PICK p \in Nat \ {0} : p = Power[k]
  BY <1>1, PowerPos
<1>3. Congruents(z, x, 2 * p)
  <2>1. k + 1 <= w
    BY WidestNat DEF Widths
  <2>2. Congruents(z, x, Power[k + 1])
    BY <1>1, <2>1, CongruentsNarrower
  <2> QED
    BY <1>1, <1>2, <2>2
<1>4. PICK j \in Int : z = x + j * (2 * p)
  BY <1>3 DEF Congruents
<1>5. PICK q \in Int, r \in 0 .. p - 1 : x = p * q + r /\ q = x \div p
  BY CongruentsMod
<1>6. x = p * q + r
  BY <1>5, Zenon
<1>7. z = p * (q + 2 * j) + r /\ q + 2 * j \in Int
  <2>1. j * (2 * p) = p * (2 * j) /\ p * (q + 2 * j) = p * q + p * (2 * j)
    OBVIOUS
  <2> QED
    BY <1>4, <1>6, <2>1
<1>8. z \div p = q + 2 * j
  BY <1>7, Division
<1>9. (q + 2 * j) % 2 = q % 2
  OBVIOUS
<1> QED
  BY <1>2, <1>5, <1>8, <1>9 DEF Bit

LEMMA BothLocal ==
  ASSUME NEW x \in Int, NEW y \in Int, NEW x1 \in Int, NEW y1 \in Int, NEW w \in Widths,
         Congruents(x1, x, Power[w]), Congruents(y1, y, Power[w])
  PROVE  BitsOfBoth(w, x1, y1) = BitsOfBoth(w, x, y)
<1> DEFINE S == {n \in Nat : n <= w => BitsOfBoth(n, x1, y1) = BitsOfBoth(n, x, y)}
<1>1. 0 \in S
  BY BothDef
<1>2. ASSUME NEW n \in Nat, n \in S PROVE n + 1 \in S
  <2>1. SUFFICES ASSUME n + 1 <= w PROVE BitsOfBoth(n + 1, x1, y1) = BitsOfBoth(n + 1, x, y)
    OBVIOUS
  <2>2. n < w /\ n <= w /\ n + 1 \in Widths
    BY <2>1, WidestNat DEF Widths
  <2>3. Bit(x1, n) = Bit(x, n) /\ Bit(y1, n) = Bit(y, n)
    BY <2>2, BitLocal
  <2>4. BitsOfBoth(n, x1, y1) = BitsOfBoth(n, x, y)
    BY <1>2, <2>2
  <2>5. BitsOfBoth(n + 1, x1, y1) = BitsOfBoth(n, x1, y1) + Power[n] * (Bit(x1, n) * Bit(y1, n))
    BY <2>2, BothNext
  <2>6. BitsOfBoth(n + 1, x, y) = BitsOfBoth(n, x, y) + Power[n] * (Bit(x, n) * Bit(y, n))
    BY <2>2, BothNext
  <2> QED
    BY <2>3, <2>4, <2>5, <2>6
<1>3. Nat \subseteq S
  <2> HIDE DEF S
  <2> QED
    BY <1>1, <1>2, Induction
<1> QED
  BY <1>3, WidestNat DEF Widths

\* Further bits add multiples of 2^w.
LEMMA BothHigh ==
  ASSUME NEW x \in Int, NEW y \in Int, NEW v \in Nat, NEW w \in Widths, v <= w
  PROVE  Congruents(BitsOfBoth(w, x, y), BitsOfBoth(v, x, y), Power[v])
<1> DEFINE C(n) == Congruents(BitsOfBoth(n, x, y), BitsOfBoth(v, x, y), Power[v])
           S == {d \in Nat : v + d \in Widths => C(v + d)}
<1>1. 0 \in S
  <2>1. v \in Widths /\ v + 0 = v
    BY WidestNat DEF Widths
  <2>2. BitsOfBoth(v, x, y) \in Int /\ Power[v] \in Int
    <3>1. BitsOfBoth(v, x, y) \in Int
      BY <2>1, BothInt
    <3>2. Power[v] \in Int
      BY <2>1, PowerPos
    <3> QED
      BY <3>1, <3>2
  <2>3. C(v)
    BY <2>2, CongruentsRefl
  <2> HIDE DEF C
  <2> QED
    BY <2>1, <2>3
<1>2. ASSUME NEW d \in Nat, d \in S PROVE d + 1 \in S
  <2>1. PICK n \in Nat : n = v + d
    OBVIOUS
  <2>2. v + (d + 1) = n + 1
    BY <2>1
  <2>3. SUFFICES ASSUME n + 1 \in Widths PROVE C(n + 1)
    <3> HIDE DEF C
    <3> QED
      BY <2>2
  <2>4. n \in Widths /\ v <= n
    BY <2>1, <2>3, PowerNext
  <2>5. C(n)
    <3> HIDE DEF C
    <3> QED
      BY <1>2, <2>1, <2>4
  <2>6. /\ v \in Widths /\ n - v \in Widths
        /\ Power[n] = Power[n - v] * Power[v]
    BY <2>4, PowerDivides
  <2>7. PICK p \in Int, h \in Int, i \in Int :
          p = Power[v] /\ h = Power[n - v] /\ i = Bit(x, n) * Bit(y, n)
    <3>1. Power[v] \in Int /\ Power[n - v] \in Int
      BY <2>6, PowerPos
    <3>2. Bit(x, n) \in Int /\ Bit(y, n) \in Int
      BY <2>4, BitValue
    <3>3. Bit(x, n) * Bit(y, n) \in Int
      BY <3>2
    <3> HIDE DEF C, S
    <3> QED
      BY <3>1, <3>3
  <2>8. BitsOfBoth(n + 1, x, y) = BitsOfBoth(n, x, y) + (h * p) * i
    BY <2>3, <2>6, <2>7, BothNext
  <2>9. PICK a \in Int, b \in Int : a = BitsOfBoth(n, x, y) /\ b = BitsOfBoth(v, x, y)
    BY <2>4, <2>6, BothInt
  <2>10. PICK k \in Int : a = b + k * p
    BY <2>5, <2>7, <2>9 DEF Congruents
  <2>11. a + (h * p) * i = b + (k + h * i) * p /\ k + h * i \in Int
    BY <2>10
  <2>12. Congruents(a + (h * p) * i, b, p)
    BY <2>11 DEF Congruents
  <2> QED
    BY <2>7, <2>8, <2>9, <2>12
<1>3. Nat \subseteq S
  <2> HIDE DEF S
  <2> QED
    BY <1>1, <1>2, Induction
<1>4. w - v \in Nat /\ v + (w - v) = w
  BY WidestNat DEF Widths
<1>5. w - v \in S
  <2> HIDE DEF S
  <2> QED
    BY <1>3, <1>4
<1> HIDE DEF C
<1>6. C(w)
  BY <1>4, <1>5
<1> QED
  BY <1>6 DEF C

Negative(x) == IF x < 0 THEN 1 ELSE 0

\* The numbers of k bits and a sign.
WithSign(k) == -Power[k] .. Power[k] - 1

\* From bit k on they have but their sign.
LEMMA BitSign ==
  ASSUME NEW k \in Nat, NEW n \in Widths, k <= n, NEW x \in WithSign(k)
  PROVE  Bit(x, n) = Negative(x)
<1>1. k \in Widths /\ Power[k] <= Power[n]
  <2>1. CASE k = n
    BY <2>1, PowerPos
  <2>2. CASE k < n
    <3>1. k \in Widths /\ 2 * Power[k] <= Power[n]
      BY <2>2, PowerLess
    <3> QED
      BY <3>1, PowerPos
  <2> QED
    BY <2>1, <2>2 DEF Widths
<1>2. PICK p \in Nat \ {0} : p = Power[n]
  BY PowerPos
<1>3. x \in Int /\ -p <= x /\ x <= p - 1
  BY <1>1, <1>2, PowerPos DEF WithSign
<1>4. CASE 0 <= x
  <2>1. x = p * 0 + x /\ x \in 0 .. p - 1
    BY <1>3, <1>4
  <2>2. x \div p = 0
    BY <1>3, <2>1, Division
  <2>3. 0 % 2 = 0
    OBVIOUS
  <2> QED
    BY <1>2, <1>3, <1>4, <2>2, <2>3 DEF Bit, Negative
<1>5. CASE x < 0
  <2>1. x = p * (-1) + (x + p) /\ x + p \in 0 .. p - 1
    BY <1>3, <1>5
  <2>2. x \div p = -1
    BY <1>3, <2>1, Division
  <2>3. ASSUME NEW a \in Int, a = -1 PROVE a % 2 = 1
    <3>1. a = 2 * a + 1 /\ 2 \in Nat \ {0} /\ 1 \in 0 .. 2 - 1
      BY <2>3
    <3> QED
      BY <3>1, Division
  <2>4. -1 \in Int
    OBVIOUS
  <2> QED
    BY <1>2, <1>3, <1>5, <2>2, <2>3, <2>4 DEF Bit, Negative
<1> QED
  BY <1>3, <1>4, <1>5

LEMMA ModSign ==
  ASSUME NEW k \in Nat, NEW w \in Widths, k <= w, NEW x \in WithSign(k)
  PROVE  x \in Int /\ x % Power[w] = x + Negative(x) * Power[w]
<1>1. k \in Widths /\ Power[k] <= Power[w]
  <2>1. CASE k = w
    BY <2>1, PowerPos
  <2>2. CASE k < w
    <3>1. k \in Widths /\ 2 * Power[k] <= Power[w]
      BY <2>2, PowerLess
    <3> QED
      BY <3>1, PowerPos
  <2> QED
    BY <2>1, <2>2 DEF Widths
<1>2. PICK p \in Nat \ {0} : p = Power[w]
  BY PowerPos
<1>3. x \in Int /\ -p <= x /\ x <= p - 1
  BY <1>1, <1>2, PowerPos DEF WithSign
<1>4. CASE 0 <= x
  <2>1. x = p * 0 + x /\ x \in 0 .. p - 1
    BY <1>3, <1>4
  <2>2. x % p = x
    BY <1>3, <2>1, Division
  <2> QED
    BY <1>2, <1>3, <1>4, <2>2 DEF Negative
<1>5. CASE x < 0
  <2>1. x = p * (-1) + (x + p) /\ x + p \in 0 .. p - 1
    BY <1>3, <1>5
  <2>2. x % p = x + p
    BY <1>3, <2>1, Division
  <2> QED
    BY <1>2, <1>3, <1>5, <2>2 DEF Negative
<1> QED
  BY <1>3, <1>4, <1>5

LEMMA BothSign ==
  ASSUME NEW k \in Nat, NEW w \in Widths, k <= w, NEW x \in WithSign(k), NEW y \in WithSign(k)
  PROVE  BitsOfBoth(w, x, y) =
           BitsOfBoth(k, x, y) + (Power[w] - Power[k]) * (Negative(x) * Negative(y))
<1> DEFINE C(n) == BitsOfBoth(n, x, y) =
                     BitsOfBoth(k, x, y) + (Power[n] - Power[k]) * (Negative(x) * Negative(y))
           S == {d \in Nat : k + d \in Widths => C(k + d)}
<1>1. x \in Int /\ y \in Int /\ k \in Widths
  <2>1. k \in Widths
    BY WidestNat DEF Widths
  <2>2. Power[k] \in Int
    BY <2>1, PowerPos
  <2> QED
    BY <2>1, <2>2 DEF WithSign
<1>2. PICK i \in {0, 1} : i = Negative(x) * Negative(y)
  BY DEF Negative
<1>3. 0 \in S
  <2>1. BitsOfBoth(k, x, y) \in Int
    BY <1>1, BothInt
  <2>2. Power[k] \in Int
    BY <1>1, PowerPos
  <2> QED
    BY <1>2, <2>1, <2>2
<1>4. ASSUME NEW d \in Nat, d \in S PROVE d + 1 \in S
  <2>1. PICK n \in Nat : n = k + d
    OBVIOUS
  <2>2. k + (d + 1) = n + 1
    BY <2>1
  <2>3. SUFFICES ASSUME n + 1 \in Widths PROVE C(n + 1)
    <3> HIDE DEF C
    <3> QED
      BY <2>2
  <2>4. n \in Widths /\ k <= n /\ Power[n + 1] = 2 * Power[n]
    BY <2>1, <2>3, PowerNext
  <2>5. C(n)
    <3> HIDE DEF C
    <3> QED
      BY <1>4, <2>1, <2>4
  <2>6. Bit(x, n) * Bit(y, n) = i
    BY <1>2, <2>4, BitSign
  <2>7. BitsOfBoth(n + 1, x, y) = BitsOfBoth(n, x, y) + Power[n] * i
    BY <1>1, <2>3, <2>6, BothNext
  <2>8. BitsOfBoth(k, x, y) \in Int
    BY <1>1, BothInt
  <2>9. Power[n] \in Int /\ Power[k] \in Int
    BY <1>1, <2>4, PowerPos
  <2>10. BitsOfBoth(n, x, y) = BitsOfBoth(k, x, y) + (Power[n] - Power[k]) * i
    BY <1>2, <2>5
  <2>11. BitsOfBoth(n + 1, x, y) = BitsOfBoth(k, x, y) + (2 * Power[n] - Power[k]) * i
    <3>1. CASE i = 0
      BY <2>7, <2>8, <2>9, <2>10, <3>1
    <3>2. CASE i = 1
      BY <2>7, <2>8, <2>9, <2>10, <3>2
    <3> QED
      BY <3>1, <3>2
  <2> QED
    BY <1>2, <2>4, <2>11
<1>5. Nat \subseteq S
  <2> HIDE DEF S
  <2> QED
    BY <1>3, <1>4, Induction
<1>6. w - k \in Nat /\ k + (w - k) = w
  BY WidestNat DEF Widths
<1>7. w - k \in S
  <2> HIDE DEF S
  <2> QED
    BY <1>5, <1>6
<1> HIDE DEF C
<1>8. C(w)
  BY <1>6, <1>7
<1> QED
  BY <1>8 DEF C

LEMMA ApplyIs ==
  ASSUME NEW w, NEW x, NEW y
  PROVE  /\ Apply("+", w, x, y) = x + y
         /\ Apply("-", w, x, y) = x - y
         /\ Apply("*", w, x, y) = x * y
         /\ Apply("&", w, x, y) = BitsOfBoth(w, x, y)
         /\ Apply("|", w, x, y) = (x % Power[w]) + (y % Power[w]) - BitsOfBoth(w, x, y)
         /\ Apply("^", w, x, y) = (x % Power[w]) + (y % Power[w]) - 2 * BitsOfBoth(w, x, y)
BY Zenon DEF Apply

\* Numbers of k bits and a sign have only such numbers as results, in any
\* type that has them.
LEMMA BitsClosed ==
  ASSUME NEW c \in Types, NEW k \in Nat, k <= c.w, c.s => k < c.w,
         NEW x \in WithSign(k), NEW y \in WithSign(k), ~c.s => 0 <= x /\ 0 <= y,
         NEW op \in Bitwises
  PROVE  /\ Wrap(c, Apply(op, c.w, x, y)) \in WithSign(k)
         /\ 0 <= x /\ 0 <= y => 0 <= Wrap(c, Apply(op, c.w, x, y))
<1>1. c.w \in Widths /\ k \in Widths /\ c.w \in Nat
  BY TypeParts, WidestNat DEF Widths
<1>2. PICK i \in {0, 1}, j \in {0, 1} : i = Negative(x) /\ j = Negative(y)
  BY DEF Negative
<1>3. x \in Int /\ y \in Int /\ x % Power[c.w] = x + i * Power[c.w]
      /\ y % Power[c.w] = y + j * Power[c.w]
  BY <1>1, <1>2, ModSign
<1>4. x % Power[k] = x + i * Power[k] /\ y % Power[k] = y + j * Power[k]
  BY <1>1, <1>2, ModSign
<1>5. PICK m \in Nat \ {0} : m = Power[c.w]
  BY <1>1, PowerPos
<1>6. PICK p \in Nat \ {0} : p = Power[k]
  BY <1>1, PowerPos
<1>7. PICK b \in Int : b = BitsOfBoth(k, x, y)
  BY <1>1, <1>3, BothInt
<1>8. BitsOfBoth(c.w, x, y) = b + (m - p) * (i * j)
  BY <1>1, <1>2, <1>5, <1>6, <1>7, BothSign
<1>9. 0 <= b /\ b <= x + i * p /\ b <= y + j * p
      /\ (x + i * p) + (y + j * p) - b <= p - 1
  BY <1>1, <1>3, <1>4, <1>6, <1>7, BothRange
<1>10. /\ -p <= x /\ x <= p - 1 /\ -p <= y /\ y <= p - 1
       /\ (i = 0 <=> 0 <= x) /\ (j = 0 <=> 0 <= y)
  BY <1>2, <1>3, <1>6 DEF WithSign, Negative
<1>11. PICK a \in Int : a = Apply(op, c.w, x, y)
  <2>1. BitsOfBoth(c.w, x, y) \in Int
    BY <1>1, <1>3, BothInt
  <2>2. x % m \in Int /\ y % m \in Int
    BY <1>3, CongruentsMod
  <2> QED
    BY <1>5, <2>1, <2>2, ApplyIs DEF Bitwises
<1>12. \/ a = b + (m - p) * (i * j)
       \/ a = (x + i * m) + (y + j * m) - (b + (m - p) * (i * j))
       \/ a = (x + i * m) + (y + j * m) - 2 * (b + (m - p) * (i * j))
  <2>1. /\ x % Power[c.w] = x + i * m /\ y % Power[c.w] = y + j * m
        /\ BitsOfBoth(c.w, x, y) = b + (m - p) * (i * j)
    BY <1>3, <1>5, <1>8
  <2>2. CASE op = "&"
    BY <1>11, <2>1, <2>2, ApplyIs
  <2>3. CASE op = "|"
    BY <1>11, <2>1, <2>3, ApplyIs
  <2>4. CASE op = "^"
    BY <1>11, <2>1, <2>4, ApplyIs
  <2> QED
    BY <2>2, <2>3, <2>4 DEF Bitwises
<1> DEFINE Found(z, h) == /\ a = z + h * m /\ -p <= z /\ z <= p - 1
                          /\ i = 0 /\ j = 0 => 0 <= z
<1>13. PICK z \in Int, h \in Int : Found(z, h)
  <2>1. ASSUME NEW z \in Int, NEW h \in Int, Found(z, h)
        PROVE  \E z1 \in Int, h1 \in Int : Found(z1, h1)
    <3> HIDE DEF Found
    <3> QED
      BY <2>1
  <2>2. CASE i = 0 /\ j = 0
    <3>1. a = a + 0 * m /\ 0 <= a /\ a <= p - 1
      BY <1>3, <1>9, <1>12, <2>2
    <3>2. Found(a, 0)
      BY <3>1
    <3> HIDE DEF Found
    <3> QED
      BY <2>1, <3>2
  <2>3. CASE i = 0 /\ j = 1
    <3>1. \/ a = b + 0 * m
          \/ a = (x + y - b) + 1 * m
          \/ a = (x + y - 2 * b) + 1 * m
      BY <1>3, <1>12, <2>3
    <3>2. /\ b \in Int /\ -p <= b /\ b <= p - 1
          /\ (x + y - b) \in Int /\ -p <= (x + y - b) /\ (x + y - b) <= p - 1
          /\ (x + y - 2 * b) \in Int /\ -p <= (x + y - 2 * b)
          /\ (x + y - 2 * b) <= p - 1
      BY <1>3, <1>9, <1>10, <2>3
    <3>3. CASE a = b + 0 * m
      <4>1. Found(b, 0)
        BY <3>2, <3>3, <2>3
      <4> HIDE DEF Found
      <4> QED
        BY <2>1, <3>2, <4>1
    <3>4. CASE a = (x + y - b) + 1 * m
      <4>1. Found(x + y - b, 1)
        BY <3>2, <3>4, <2>3
      <4> HIDE DEF Found
      <4> QED
        BY <2>1, <3>2, <4>1
    <3>5. CASE a = (x + y - 2 * b) + 1 * m
      <4>1. Found(x + y - 2 * b, 1)
        BY <3>2, <3>5, <2>3
      <4> HIDE DEF Found
      <4> QED
        BY <2>1, <3>2, <4>1
    <3> HIDE DEF Found
    <3> QED
      BY <3>1, <3>3, <3>4, <3>5
  <2>4. CASE i = 1 /\ j = 0
    <3>1. \/ a = b + 0 * m
          \/ a = (x + y - b) + 1 * m
          \/ a = (x + y - 2 * b) + 1 * m
      BY <1>3, <1>12, <2>4
    <3>2. /\ b \in Int /\ -p <= b /\ b <= p - 1
          /\ (x + y - b) \in Int /\ -p <= (x + y - b) /\ (x + y - b) <= p - 1
          /\ (x + y - 2 * b) \in Int /\ -p <= (x + y - 2 * b)
          /\ (x + y - 2 * b) <= p - 1
      BY <1>3, <1>9, <1>10, <2>4
    <3>3. CASE a = b + 0 * m
      <4>1. Found(b, 0)
        BY <3>2, <3>3, <2>4
      <4> HIDE DEF Found
      <4> QED
        BY <2>1, <3>2, <4>1
    <3>4. CASE a = (x + y - b) + 1 * m
      <4>1. Found(x + y - b, 1)
        BY <3>2, <3>4, <2>4
      <4> HIDE DEF Found
      <4> QED
        BY <2>1, <3>2, <4>1
    <3>5. CASE a = (x + y - 2 * b) + 1 * m
      <4>1. Found(x + y - 2 * b, 1)
        BY <3>2, <3>5, <2>4
      <4> HIDE DEF Found
      <4> QED
        BY <2>1, <3>2, <4>1
    <3> HIDE DEF Found
    <3> QED
      BY <3>1, <3>3, <3>4, <3>5
  <2>5. CASE i = 1 /\ j = 1
    <3>1. \/ a = (b - p) + 1 * m
          \/ a = (x + y + p - b) + 1 * m
          \/ a = (x + y + 2 * p - 2 * b) + 0 * m
      BY <1>3, <1>12, <2>5
    <3>2. /\ (b - p) \in Int /\ -p <= (b - p) /\ (b - p) <= p - 1
          /\ (x + y + p - b) \in Int /\ -p <= (x + y + p - b)
          /\ (x + y + p - b) <= p - 1
          /\ (x + y + 2 * p - 2 * b) \in Int /\ -p <= (x + y + 2 * p - 2 * b)
          /\ (x + y + 2 * p - 2 * b) <= p - 1
      BY <1>3, <1>9, <1>10, <2>5
    <3>3. CASE a = (b - p) + 1 * m
      <4>1. Found(b - p, 1)
        BY <3>2, <3>3, <2>5
      <4> HIDE DEF Found
      <4> QED
        BY <2>1, <3>2, <4>1
    <3>4. CASE a = (x + y + p - b) + 1 * m
      <4>1. Found(x + y + p - b, 1)
        BY <3>2, <3>4, <2>5
      <4> HIDE DEF Found
      <4> QED
        BY <2>1, <3>2, <4>1
    <3>5. CASE a = (x + y + 2 * p - 2 * b) + 0 * m
      <4>1. Found(x + y + 2 * p - 2 * b, 0)
        BY <3>2, <3>5, <2>5
      <4> HIDE DEF Found
      <4> QED
        BY <2>1, <3>2, <4>1
    <3> HIDE DEF Found
    <3> QED
      BY <3>1, <3>3, <3>4, <3>5
  <2> HIDE DEF Found
  <2> QED
    BY <2>2, <2>3, <2>4, <2>5
<1>14. z \in Values(c)
  <2>1. CASE c.s
    <3>1. Least(c) = -Power[c.w - 1] /\ Greatest(c) = Power[c.w - 1] - 1
      BY <2>1 DEF Least, Greatest
    <3>2. p <= Power[c.w - 1] /\ Power[c.w - 1] \in Int
      <4>1. c.w - 1 \in Widths /\ k <= c.w - 1
        BY <1>1, <2>1, TypeParts
      <4>2. CASE k = c.w - 1
        BY <1>6, <4>2
      <4>3. CASE k < c.w - 1
        <5>1. 2 * Power[k] <= Power[c.w - 1]
          BY <4>1, <4>3, PowerLess
        <5> QED
          BY <1>6, <4>1, <5>1, PowerPos
      <4>4. Power[c.w - 1] \in Int
        BY <4>1, PowerPos
      <4> QED
        BY <1>1, <4>1, <4>2, <4>3, <4>4
    <3> QED
      BY <1>13, <3>1, <3>2 DEF Values
  <2>2. CASE ~c.s
    <3>1. Least(c) = 0 /\ Greatest(c) = m - 1
      BY <1>5, <2>2 DEF Least, Greatest
    <3>2. p <= m
      <4>1. CASE k = c.w
        BY <1>5, <1>6, <4>1
      <4>2. CASE k < c.w
        <5>1. 2 * Power[k] <= Power[c.w]
          BY <1>1, <4>2, PowerLess
        <5> QED
          BY <1>5, <1>6, <5>1
      <4> QED
        BY <1>1, <4>1, <4>2
    <3>3. 0 <= z
      BY <1>10, <1>13, <2>2
    <3> QED
      BY <1>13, <3>1, <3>2, <3>3 DEF Values
  <2> QED
    BY <2>1, <2>2
<1>15. Wrap(c, a) = z
  <2>1. Congruents(a, z, m)
    BY <1>13 DEF Congruents
  <2>2. Wrap(c, a) \in Int /\ Wrap(c, a) \in Values(c) /\ Congruents(Wrap(c, a), a, m)
    BY <1>5, WrapInt
  <2>3. Congruents(Wrap(c, a), z, m)
    BY <2>1, <2>2, CongruentsTrans
  <2> QED
    BY <1>5, <1>14, <2>2, <2>3, ValuesUnique
<1> QED
  BY <1>6, <1>10, <1>11, <1>13, <1>15 DEF WithSign

\* An operation on more bits agrees on the fewer, if the operands do.
LEMMA ApplyCongruent ==
  ASSUME NEW op \in Arithmetic \cup Bitwises, NEW v \in Nat, NEW w \in Widths, v <= w,
         NEW x \in Int, NEW y \in Int, NEW x1 \in Int, NEW y1 \in Int,
         Congruents(x1, x, Power[v]), Congruents(y1, y, Power[v])
  PROVE  /\ Apply(op, w, x1, y1) \in Int /\ Apply(op, v, x, y) \in Int
         /\ Congruents(Apply(op, w, x1, y1), Apply(op, v, x, y), Power[v])
<1>1. v \in Widths
  BY WidestNat DEF Widths
<1>2. PICK m \in Nat \ {0} : m = Power[v]
  BY <1>1, PowerPos
<1>3. Power[w] \in Nat \ {0}
  BY PowerPos
<1>4. CASE op = "+"
  <2>1. Apply(op, w, x1, y1) = x1 + y1 /\ Apply(op, v, x, y) = x + y
    BY <1>4, ApplyIs
  <2> QED
    BY <1>2, <2>1, CongruentsAdd
<1>5. CASE op = "-"
  <2>1. Apply(op, w, x1, y1) = x1 - y1 /\ Apply(op, v, x, y) = x - y
    BY <1>5, ApplyIs
  <2> QED
    BY <1>2, <2>1, CongruentsAdd
<1>6. CASE op = "*"
  <2>1. Apply(op, w, x1, y1) = x1 * y1 /\ Apply(op, v, x, y) = x * y
    BY <1>6, ApplyIs
  <2> QED
    BY <1>2, <2>1, CongruentsTimes
<1>7. PICK b1 \in Int, b \in Int : b1 = BitsOfBoth(w, x1, y1) /\ b = BitsOfBoth(v, x, y)
  BY <1>1, BothInt
<1>8. Congruents(b1, b, m)
  <2>1. Congruents(b1, BitsOfBoth(v, x1, y1), Power[v])
    BY <1>7, BothHigh
  <2>2. BitsOfBoth(v, x1, y1) = b
    BY <1>1, <1>7, BothLocal
  <2> QED
    BY <1>2, <2>1, <2>2
<1>9. PICK p \in Int, q \in Int, p1 \in Int, q1 \in Int :
        /\ p = x % Power[v] /\ q = y % Power[v]
        /\ p1 = x1 % Power[w] /\ q1 = y1 % Power[w]
  <2>1. x % m \in Int /\ y % m \in Int
    BY CongruentsMod
  <2>2. PICK n \in Nat \ {0} : n = Power[w]
    BY <1>3
  <2>3. x1 % n \in Int /\ y1 % n \in Int
    BY CongruentsMod
  <2> QED
    BY <1>2, <2>1, <2>2, <2>3
<1>10. ASSUME NEW z \in Int, NEW z1 \in Int, Congruents(z1, z, m)
       PROVE  Congruents(z1 % Power[w], z % m, m)
  <2>1. PICK a \in Int, b2 \in Int : a = z1 % Power[w] /\ b2 = z % m
    <3>1. z1 % Power[w] \in Int
      BY <1>3, CongruentsMod
    <3>2. z % m \in Int
      BY CongruentsMod
    <3> QED
      BY <3>1, <3>2
  <2>2. Congruents(a, z1, Power[w])
    BY <1>3, <2>1, CongruentsMod
  <2>3. Congruents(a, z1, m)
    BY <1>2, <2>2, CongruentsNarrower
  <2>4. Congruents(b2, z, m)
    BY <2>1, CongruentsMod
  <2>5. Congruents(z, b2, m)
    BY <2>4, CongruentsSym
  <2>6. Congruents(z1, b2, m)
    BY <1>10, <2>5, CongruentsTrans
  <2>7. Congruents(a, b2, m)
    BY <2>3, <2>6, CongruentsTrans
  <2> QED
    BY <2>1, <2>7
<1>11. Congruents(p1, p, m) /\ Congruents(q1, q, m)
  <2>1. Congruents(x1 % Power[w], x % m, m) /\ Congruents(y1 % Power[w], y % m, m)
    BY <1>2, <1>10
  <2> QED
    BY <1>2, <1>9, <2>1
<1>12. Congruents(p1 + q1, p + q, m)
  BY <1>11, CongruentsAdd
<1>13. PICK s \in Int, s1 \in Int : s = p + q /\ s1 = p1 + q1
  OBVIOUS
<1>14. Congruents(s1 - b1, s - b, m)
  BY <1>8, <1>12, <1>13, CongruentsAdd
<1>15. CASE op = "&"
  <2>1. Apply(op, w, x1, y1) = b1 /\ Apply(op, v, x, y) = b
    BY <1>7, <1>15, ApplyIs
  <2> QED
    BY <1>2, <1>8, <2>1
<1>16. CASE op = "|"
  <2>1. Apply(op, w, x1, y1) = s1 - b1 /\ Apply(op, v, x, y) = s - b
    BY <1>7, <1>9, <1>13, <1>16, ApplyIs
  <2> QED
    BY <1>2, <1>14, <2>1
<1>17. CASE op = "^"
  <2>1. Apply(op, w, x1, y1) = (s1 - b1) - b1 /\ Apply(op, v, x, y) = (s - b) - b
    BY <1>7, <1>9, <1>13, <1>17, ApplyIs
  <2>2. PICK d \in Int, d1 \in Int : d = s - b /\ d1 = s1 - b1
    OBVIOUS
  <2>3. Congruents(d1 - b1, d - b, m)
    BY <1>8, <1>14, <2>2, CongruentsAdd
  <2> QED
    BY <1>2, <2>1, <2>2, <2>3
<1> QED
  BY <1>4, <1>5, <1>6, <1>15, <1>16, <1>17 DEF Arithmetic, Bitwises

-----------------------------------------------------------------------------
(* Operators                                                               *)

LEMMA NotUndefined ==
  /\ Undefined \in Int
  /\ \A t \in Types : Undefined \notin Values(t)
<1>1. Power[Widest] \in Nat \ {0}
  BY WidestNat, PowerPos DEF Widths
<1>2. ASSUME NEW t \in Types PROVE Undefined \notin Values(t)
  <2>1. t.w - 1 \in Nat /\ t.w - 1 < Widest /\ Widest \in Widths
    BY TypeParts, WidestNat DEF Widths
  <2>2. 2 * Power[t.w - 1] <= Power[Widest]
    BY <2>1, PowerLess
  <2>3. Power[t.w - 1] \in Nat \ {0} /\ Least(t) = (IF t.s THEN -Power[t.w - 1] ELSE 0)
    BY Range
  <2>4. -Power[Widest] < Least(t)
    BY <1>1, <2>2, <2>3
  <2> QED
    BY <1>1, <2>3, <2>4 DEF Values, Undefined
<1> QED
  BY <1>1, <1>2 DEF Undefined

LEMMA InCValue ==
  ASSUME NEW c \in Types, NEW n \in Int
  PROVE  /\ InC(c, n) \in Int
         /\ InC(c, n) # Undefined =>
              InC(c, n) \in Values(c) /\ Congruents(InC(c, n), n, Power[c.w])
<1>1. CASE ~c.s
  BY <1>1, WrapInt DEF InC
<1>2. CASE c.s /\ Least(c) <= n /\ n <= Greatest(c)
  <2>1. n \in Values(c) /\ InC(c, n) = n
    BY <1>2, Range DEF Values, InC
  <2>2. Congruents(n, n, Power[c.w])
    BY Range, CongruentsRefl
  <2> QED
    BY <2>1, <2>2
<1>3. CASE c.s /\ ~(Least(c) <= n /\ n <= Greatest(c))
  BY <1>3, NotUndefined DEF InC
<1> QED
  BY <1>1, <1>2, <1>3

\* Whatever C computes in its type is right on the bits of the P4 type.
LEMMA BinaryCongruent ==
  ASSUME NEW op \in Arithmetic \cup Bitwises, NEW t \in Types, NEW c \in Types, t.w <= c.w,
         NEW x \in Int, NEW y \in Int, NEW m \in Int, NEW n \in Int,
         Congruents(m, x, Power[t.w]), Congruents(n, y, Power[t.w])
  PROVE  /\ P4Binary(op, t, x, y) \in Values(t) /\ CBinary(op, c, m, n) \in Int
         /\ CBinary(op, c, m, n) # Undefined =>
              /\ CBinary(op, c, m, n) \in Values(c)
              /\ Congruents(CBinary(op, c, m, n), P4Binary(op, t, x, y), Power[t.w])
<1>1. t.w \in Nat /\ t.w \in Widths /\ c.w \in Widths
  BY TypeParts
<1>2. PICK a \in Int, b \in Int :
        a = Apply(op, c.w, m, n) /\ b = Apply(op, t.w, x, y)
        /\ Congruents(a, b, Power[t.w])
  BY <1>1, ApplyCongruent
<1>3. PICK p \in Int : p = P4Binary(op, t, x, y) /\ p \in Values(t) /\ Congruents(p, b, Power[t.w])
  BY <1>2, WrapInt DEF P4Binary
<1>4. PICK d \in Int : d = CBinary(op, c, m, n) /\
        (d # Undefined => d \in Values(c) /\ Congruents(d, a, Power[c.w]))
  <2>1. CASE op \in Bitwises
    BY <1>2, <2>1, WrapInt DEF CBinary
  <2>2. CASE op \notin Bitwises
    BY <1>2, <2>2, InCValue DEF CBinary
  <2> QED
    BY <2>1, <2>2
<1>5. ASSUME d # Undefined PROVE Congruents(d, p, Power[t.w])
  <2>1. PICK k \in Int : k = Power[t.w]
    BY <1>1, PowerPos
  <2>2. Congruents(d, a, Power[t.w])
    BY <1>1, <1>4, <1>5, CongruentsNarrower
  <2>3. Congruents(d, b, k)
    BY <1>2, <2>1, <2>2, CongruentsTrans
  <2>4. Congruents(b, p, k)
    BY <1>3, <2>1, CongruentsSym
  <2> QED
    BY <2>1, <2>3, <2>4, CongruentsTrans
<1> QED
  BY <1>3, <1>4, <1>5

\* The values that bits picked from values of t, computed in c, can have.
LEMMA BitsExact ==
  ASSUME NEW op \in Bitwises, NEW t \in Types, NEW c \in Types, t.w <= c.w, t.s => c.s,
         NEW x \in Values(t), NEW y \in Values(t), x \in Values(c), y \in Values(c)
  PROVE  CBinary(op, c, x, y) \in Values(t)
<1>1. /\ t.w \in Nat /\ t.w - 1 \in Nat /\ t.w \in Widths /\ c.w \in Widths
      /\ c.w \in Nat
      /\ t.s \in BOOLEAN /\ c.s \in BOOLEAN
  BY TypeParts
<1>2. /\ x \in Int /\ y \in Int
      /\ Power[t.w] \in Nat \ {0} /\ Power[t.w - 1] \in Nat \ {0}
      /\ Power[t.w] = 2 * Power[t.w - 1]
  BY Range
<1>3. CBinary(op, c, x, y) = Wrap(c, Apply(op, c.w, x, y))
  BY DEF CBinary
<1>4. CASE t.s
  <2>1. Values(t) = WithSign(t.w - 1)
    BY <1>4 DEF Values, Least, Greatest, WithSign
  <2>2. t.w - 1 <= c.w /\ t.w - 1 < c.w /\ c.s
    BY <1>1, <1>4
  <2>3. Wrap(c, Apply(op, c.w, x, y)) \in WithSign(t.w - 1)
    BY <1>1, <2>1, <2>2, BitsClosed
  <2> QED
    BY <1>3, <2>1, <2>3
<1>5. CASE ~t.s
  <2>1. Values(t) = 0 .. Power[t.w] - 1
    BY <1>5 DEF Values, Least, Greatest
  <2>2. 0 <= x /\ 0 <= y /\ x <= Power[t.w] - 1 /\ y <= Power[t.w] - 1
    BY <2>1
  <2>3. CASE c.s /\ c.w = t.w
    <3>1. Values(c) = WithSign(t.w - 1)
      BY <2>3 DEF Values, Least, Greatest, WithSign
    <3>2. t.w - 1 <= c.w /\ t.w - 1 < c.w
      BY <1>1, <2>3
    <3>3. /\ Wrap(c, Apply(op, c.w, x, y)) \in WithSign(t.w - 1)
          /\ 0 <= Wrap(c, Apply(op, c.w, x, y))
      BY <1>1, <2>2, <2>3, <3>1, <3>2, BitsClosed
    <3> QED
      BY <1>2, <1>3, <2>1, <3>3 DEF WithSign
  <2>4. CASE ~(c.s /\ c.w = t.w)
    <3>1. x \in WithSign(t.w) /\ y \in WithSign(t.w)
      BY <1>2, <2>2 DEF WithSign
    <3>2. c.s => t.w < c.w
      BY <1>1, <2>4
    <3>3. /\ Wrap(c, Apply(op, c.w, x, y)) \in WithSign(t.w)
          /\ 0 <= Wrap(c, Apply(op, c.w, x, y))
      BY <1>1, <2>2, <3>1, <3>2, BitsClosed
    <3> QED
      BY <1>2, <1>3, <2>1, <3>3 DEF WithSign
  <2> QED
    BY <2>3, <2>4
<1> QED
  BY <1>4, <1>5

\* A non-negative value masks whatever it is combined with.
LEMMA MaskExact ==
  ASSUME NEW t \in Types, NEW c \in Types, t.w <= c.w, ~t.s,
         NEW x \in Values(t), x \in Values(c), NEW n \in Int
  PROVE  CBinary("&", c, x, n) \in Values(t) /\ CBinary("&", c, n, x) \in Values(t)
<1>1. t.w \in Nat /\ t.w \in Widths /\ c.w \in Widths
  BY TypeParts
<1>2. x \in Int /\ 0 <= x /\ x <= Power[t.w] - 1 /\ Power[t.w] \in Nat \ {0}
  BY Range DEF Values, Least, Greatest
<1>3. PICK m \in Nat \ {0} : m = Power[c.w]
  BY <1>1, PowerPos
<1>4. x % m = x
  <2>1. Power[t.w] <= m
    <3>1. CASE t.w = c.w
      BY <1>2, <1>3, <3>1
    <3>2. CASE t.w < c.w
      <4>1. 2 * Power[t.w] <= Power[c.w]
        BY <1>1, <3>2, PowerLess
      <4> QED
        BY <1>2, <1>3, <4>1
    <3> QED
      BY <1>1, <3>1, <3>2, WidestNat DEF Widths
  <2>2. x = m * 0 + x /\ x \in 0 .. m - 1
    BY <1>2, <2>1
  <2> QED
    BY <1>2, <2>2, Division
<1>5. ASSUME NEW b \in Int, 0 <= b, b <= x PROVE b \in Values(t) /\ b \in Values(c)
  BY <1>2, <1>5, Range DEF Values
<1>6. /\ BitsOfBoth(c.w, x, n) \in Int /\ 0 <= BitsOfBoth(c.w, x, n)
      /\ BitsOfBoth(c.w, x, n) <= x
      /\ BitsOfBoth(c.w, n, x) \in Int /\ 0 <= BitsOfBoth(c.w, n, x)
      /\ BitsOfBoth(c.w, n, x) <= x
  BY <1>1, <1>2, <1>3, <1>4, BothInt, BothRange
<1>7. /\ CBinary("&", c, x, n) = Wrap(c, BitsOfBoth(c.w, x, n))
      /\ CBinary("&", c, n, x) = Wrap(c, BitsOfBoth(c.w, n, x))
  BY ApplyIs DEF CBinary, Bitwises
<1> QED
  BY <1>5, <1>6, <1>7, WrapId

-----------------------------------------------------------------------------
(* Operands                                                                *)

\* The inductive invariant, of an operand.  A bool is a number in C, a narrow
\* number has a C type that is as wide as its P4 type and can be negative if
\* that one can, and of wide numbers there are only variables and literals.
Faithful(e) ==
  /\ e.t \in P4Types /\ e.v \in P4Values(e.t)
  /\ e.c \in Scalars \cup {Array} /\ e.n \in Int
  /\ e.clean \in BOOLEAN /\ e.var \in BOOLEAN
  /\ e.t.s => e.c.s
  /\ e.t = Bool => e.c # Array /\ e.n \in {0, 1}
  /\ e.t # Bool /\ e.t.w <= Word => e.c # Array /\ e.t.w <= e.c.w
  /\ e.t # Bool /\ e.t.w > Word => e.clean /\ e.n = e.v
  /\ e.n # Undefined =>
       /\ e.c # Array => e.n \in Values(e.c)
       /\ e.t # Bool => Congruents(e.n, e.v, Power[e.t.w])
       /\ e.clean => e.n = e.v

LEMMA P4Type ==
  ASSUME NEW t \in P4Types
  PROVE  /\ t = Bool \/ (t # Bool /\ t \in Types)
         /\ t \in [w : Nat, s : BOOLEAN]
         /\ t.w \in Nat /\ t.s \in BOOLEAN
         /\ t # Bool => P4Values(t) = Values(t)
         /\ P4Values(Bool) = {0, 1} /\ P4Values(t) \subseteq Int
<1>1. t = Bool \/ t \in Types
  BY DEF P4Types, Types
<1>2. Bool \in [w : Nat, s : BOOLEAN] /\ Bool.w \in Nat /\ Bool.s \in BOOLEAN
  BY DEF Bool, TypeOf
<1>3. P4Values(Bool) = {0, 1} /\ (t # Bool => P4Values(t) = Values(t))
  BY DEF P4Values
<1>4. CASE t = Bool
  BY <1>2, <1>3, <1>4
<1>5. CASE t # Bool
  BY <1>1, <1>3, <1>5, TypeParts, Range
<1> QED
  BY <1>4, <1>5

LEMMA DeclaredType ==
  ASSUME NEW t \in P4Types
  PROVE  /\ t = Bool => CType(t) \in Scalars /\ {0, 1} \subseteq Values(CType(t))
         /\ t # Bool /\ t.w > Word => CType(t) = Array
         /\ t # Bool /\ t.w <= Word =>
              /\ CType(t) \in Scalars /\ t.w <= CType(t).w /\ CType(t).s = t.s
              /\ Values(t) \subseteq Values(CType(t))
<1>1. Byte \in Nat \ {0} /\ Word = 4 * Byte
  BY ByteAssumption DEF Word
<1>2. \A w \in {Byte, 2 * Byte, Word}, s \in BOOLEAN :
        TypeOf(w, s) \in Scalars /\ TypeOf(w, s).w = w /\ TypeOf(w, s).s = s
  <2>1. \A w \in {Byte, 2 * Byte, Word}, s \in BOOLEAN : TypeOf(w, s) \in Scalars
    BY DEF Scalars
  <2>2. \A w, s : TypeOf(w, s).w = w /\ TypeOf(w, s).s = s
    BY DEF TypeOf
  <2> QED
    BY <2>1, <2>2
<1>3. CASE t = Bool
  <2>1. CType(t) = TypeOf(Byte, FALSE) /\ CType(t) \in Scalars /\ ~CType(t).s
    BY <1>2, <1>3 DEF CType
  <2>2. /\ Least(CType(t)) = 0 /\ Greatest(CType(t)) = Power[CType(t).w] - 1
        /\ Power[CType(t).w] = 2 * Power[CType(t).w - 1]
        /\ Power[CType(t).w - 1] \in Nat \ {0}
    <3>1. PICK c \in Types : c = CType(t)
      BY <2>1, ScalarTypes
    <3>2. Least(c) = 0 /\ Greatest(c) = Power[c.w] - 1
      BY <2>1, <3>1 DEF Least, Greatest
    <3> QED
      BY <3>1, <3>2, Range
  <2>3. {0, 1} \subseteq Values(CType(t))
    BY <2>2 DEF Values
  <2> QED
    BY <1>3, <2>1, <2>3
<1>4. CASE t # Bool /\ t.w > Word
  BY <1>1, <1>4, P4Type DEF CType
<1>5. CASE t # Bool /\ t.w <= Word
  <2>1. t \in Types /\ t.w \in Nat /\ t.s \in BOOLEAN
    BY <1>5, P4Type
  <2>2. PICK w \in {Byte, 2 * Byte, Word} : CType(t) = TypeOf(w, t.s) /\ t.w <= w
    BY <1>1, <1>5, <2>1 DEF CType
  <2>3. CType(t) \in Scalars /\ CType(t).w = w /\ CType(t).s = t.s
    BY <1>2, <2>1, <2>2
  <2>4. Values(t) \subseteq Values(CType(t))
    <3>1. CASE t.w = w
      <4>1. t = CType(t)
        BY <2>1, <2>2, <3>1, TypeParts
      <4> QED
        BY <4>1
    <3>2. CASE t.w < w
      BY <2>1, <2>3, <3>2, ScalarTypes, ValuesWider
    <3> QED
      BY <1>1, <2>1, <2>2, <3>1, <3>2
  <2> QED
    <3>1. t.w <= CType(t).w /\ ~(t.w > Word)
      BY <1>1, <1>5, <2>1, <2>2, <2>3
    <3> QED
      BY <1>5, <2>3, <2>4, <3>1, Zenon
<1>6. t.w \in Nat
  BY P4Type
<1> QED
  BY <1>1, <1>3, <1>4, <1>5, <1>6

\* What a faithful operand consists of, of a narrow number ...
LEMMA NarrowParts ==
  ASSUME NEW e, Faithful(e), e.n # Undefined, e.t # Bool, e.t.w <= Word
  PROVE  /\ e.t \in Types /\ e.v \in Values(e.t) /\ e.v \in Int
         /\ e.c \in Scalars /\ e.c \in Types /\ e.t.w <= e.c.w /\ (e.t.s => e.c.s)
         /\ e.n \in Values(e.c) /\ e.n \in Int
         /\ Congruents(e.n, e.v, Power[e.t.w])
         /\ e.clean \in BOOLEAN /\ (e.clean => e.n = e.v)
<1>1. e.t \in Types /\ P4Values(e.t) = Values(e.t) /\ Values(e.t) \subseteq Int
  BY P4Type DEF Faithful
<1> QED
  BY <1>1, ScalarTypes DEF Faithful

\* ... and how to make one: of a narrow number,
LEMMA Narrow ==
  ASSUME NEW t \in Types, t.w <= Word, NEW v \in Values(t),
         NEW c \in Scalars, t.w <= c.w, t.s => c.s, NEW n \in Int, NEW clean \in BOOLEAN,
         n # Undefined => /\ n \in Values(c) /\ Congruents(n, v, Power[t.w])
                          /\ clean => n = v
  PROVE  Faithful(Operand(t, v, c, n, clean))
<1>1. t \in P4Types /\ t # Bool /\ P4Values(t) = Values(t) /\ c # Array
  BY ScalarTypes DEF P4Types, Types, P4Values
<1>2. ~(t.w > Word)
  BY TypeParts, ScalarTypes, ScalarParts
<1>3. /\ Operand(t, v, c, n, clean).t = t /\ Operand(t, v, c, n, clean).v = v
      /\ Operand(t, v, c, n, clean).c = c /\ Operand(t, v, c, n, clean).n = n
      /\ Operand(t, v, c, n, clean).clean = clean
      /\ Operand(t, v, c, n, clean).var = FALSE
  BY DEF Operand
<1> QED
  BY <1>1, <1>2, <1>3, Zenon DEF Faithful

\* and of a bool.
LEMMA Boolean ==
  ASSUME NEW v \in {0, 1}, NEW c \in Scalars, NEW n \in {0, 1}, n \in Values(c),
         NEW clean \in BOOLEAN, clean => n = v
  PROVE  Faithful(Operand(Bool, v, c, n, clean))
<1>1. Bool \in P4Types /\ P4Values(Bool) = {0, 1} /\ c # Array /\ ~Bool.s /\ n \in Int
  BY ScalarTypes DEF P4Types, P4Values, Bool, TypeOf
<1>2. /\ Operand(Bool, v, c, n, clean).t = Bool /\ Operand(Bool, v, c, n, clean).v = v
      /\ Operand(Bool, v, c, n, clean).c = c /\ Operand(Bool, v, c, n, clean).n = n
      /\ Operand(Bool, v, c, n, clean).clean = clean
      /\ Operand(Bool, v, c, n, clean).var = FALSE
  BY DEF Operand
<1> QED
  BY <1>1, <1>2, Zenon DEF Faithful

LEMMA TruthInt ==
  ASSUME NEW b \in BOOLEAN
  PROVE  Truth(b) \in {0, 1} /\ Truth(b) \in Values(CInt)
<1>1. CInt \in Types /\ CInt.s /\ CInt.w - 1 \in Nat /\ CInt.w - 2 \in Nat
      /\ CInt.w - 2 + 1 = CInt.w - 1
  BY ScalarTypes, ScalarParts DEF CInt, TypeOf
<1>2. CInt.w - 1 \in Widths
  BY <1>1, TypeParts
<1>3. Power[CInt.w - 1] = 2 * Power[CInt.w - 2] /\ Power[CInt.w - 2] \in Nat \ {0}
  <2>1. CInt.w - 2 + 1 \in Widths
    BY <1>1, <1>2
  <2>2. CInt.w - 2 \in Widths /\ Power[CInt.w - 2 + 1] = 2 * Power[CInt.w - 2]
    BY <1>1, <2>1, PowerNext
  <2> QED
    BY <1>1, <2>2, PowerPos
<1>4. Least(CInt) = -Power[CInt.w - 1] /\ Greatest(CInt) = Power[CInt.w - 1] - 1
  BY <1>1 DEF Least, Greatest
<1> QED
  BY <1>3, <1>4 DEF Truth, Values

LEMMA InputFaithful ==
  ASSUME NEW i \in Inputs
  PROVE  /\ Faithful(Variable(i)) /\ Variable(i).t = i.t
         /\ Variable(i).clean /\ Variable(i).n = Variable(i).v
         /\ Variable(i).n # Undefined
<1> DEFINE e == Variable(i)
<1>1. i.t \in P4Types /\ i.v \in P4Values(i.t) /\ i.v \in Int
  BY LeafAssumption, P4Type
<1>2. /\ e.t = i.t /\ e.v = i.v /\ e.c = CType(i.t) /\ e.n = i.v /\ e.clean = TRUE
      /\ e.var = TRUE
  BY DEF Variable, Stored
<1> HIDE DEF e
<1>3. i.v # Undefined
  <2>1. CASE i.t = Bool
    <3>1. i.v \in Values(CType(i.t)) /\ CType(i.t) \in Types
      BY <1>1, <2>1, DeclaredType, P4Type, ScalarTypes
    <3> QED
      BY <3>1, NotUndefined
  <2>2. CASE i.t # Bool
    BY <1>1, <2>2, P4Type, NotUndefined
  <2> QED
    BY <2>1, <2>2
<1>4. CASE i.t = Bool
  <2>1. CType(i.t) \in Scalars /\ i.v \in {0, 1} /\ i.v \in Values(CType(i.t))
        /\ ~i.t.s /\ CType(i.t) # Array
    <3>1. ~Bool.s
      BY DEF Bool, TypeOf
    <3> QED
      BY <1>1, <1>4, <3>1, DeclaredType, P4Type, ScalarParts
  <2>2. Faithful(e)
    BY <1>1, <1>2, <1>4, <2>1 DEF Faithful
  <2> QED
    BY <1>2, <1>3, <2>2 DEF e
<1>5. CASE i.t # Bool
  <2>1. i.t \in Types /\ Congruents(i.v, i.v, Power[i.t.w]) /\ i.v \in Values(i.t)
    BY <1>1, <1>5, P4Type, Range, CongruentsRefl
  <2>2. CASE i.t.w > Word
    <3>1. CType(i.t) = Array /\ Array.s /\ ~(i.t.w <= Word)
      BY <1>1, <1>5, <2>2, DeclaredType, P4Type, ScalarTypes, ScalarParts DEF Array, TypeOf
    <3>2. Faithful(e)
      BY <1>1, <1>2, <1>5, <2>1, <3>1 DEF Faithful
    <3> QED
      BY <1>2, <1>3, <3>2 DEF e
  <2>3. CASE i.t.w <= Word
    <3>1. /\ CType(i.t) \in Scalars /\ CType(i.t) # Array /\ i.t.w <= CType(i.t).w
          /\ CType(i.t).s = i.t.s /\ i.v \in Values(CType(i.t)) /\ ~(i.t.w > Word)
      BY <1>1, <1>5, <2>1, <2>3, DeclaredType, P4Type, ScalarTypes, ScalarParts
    <3>2. Faithful(e)
      BY <1>1, <1>2, <1>5, <2>1, <3>1 DEF Faithful
    <3> QED
      BY <1>2, <1>3, <3>2 DEF e
  <2> QED
    BY <1>1, <2>2, <2>3, P4Type, ScalarTypes, ScalarParts
<1> QED
  BY <1>4, <1>5

LEMMA LiteralFaithful ==
  ASSUME NEW i \in Literals
  PROVE  /\ Faithful(Literal(i)) /\ Literal(i).t = i.t
         /\ Literal(i).clean /\ Literal(i).n = Literal(i).v /\ Literal(i).n # Undefined
<1> DEFINE e == Literal(i)
           c == IF -Greatest(CInt) <= i.v /\ i.v <= Greatest(CInt) THEN CInt ELSE CLong
<1>1. i.t \in P4Types /\ i.v \in P4Values(i.t) /\ i.v \in Int /\ i.v \in Values(CLong)
  BY LeafAssumption, P4Type
<1>2. /\ e.t = i.t /\ e.v = i.v /\ e.c = c /\ e.n = i.v /\ e.clean = TRUE
      /\ e.var = FALSE
  BY DEF Literal, Operand
<1>3. i.v \in Values(c) /\ c \in Scalars /\ c # Array /\ c.s /\ Word <= c.w
  <2>1. CInt.s /\ CLong.s /\ CInt.w = Word /\ CLong.w = 2 * Word /\ Word \in Nat
    BY ScalarTypes, ScalarParts DEF CInt, CLong, TypeOf
  <2>2. CASE -Greatest(CInt) <= i.v /\ i.v <= Greatest(CInt)
    <3>1. /\ Greatest(CInt) = Power[CInt.w - 1] - 1 /\ Least(CInt) = -Power[CInt.w - 1]
          /\ Power[CInt.w - 1] \in Int
      BY <2>1, ScalarTypes, Range DEF Least, Greatest
    <3>2. i.v \in Values(CInt)
      BY <1>1, <2>2, <3>1 DEF Values
    <3> QED
      BY <2>1, <2>2, <3>2, ScalarTypes, ScalarParts
  <2>3. CASE ~(-Greatest(CInt) <= i.v /\ i.v <= Greatest(CInt))
    BY <1>1, <2>1, <2>3, ScalarTypes, ScalarParts
  <2> QED
    BY <2>2, <2>3
<1> HIDE DEF c, e
<1>4. i.v # Undefined
  BY <1>3, NotUndefined, ScalarTypes
<1>5. i.t.w <= Word => i.t.w <= c.w
  BY <1>1, <1>3, P4Type, ScalarParts
<1>6. i.t # Bool => Congruents(i.v, i.v, Power[i.t.w])
  BY <1>1, P4Type, Range, CongruentsRefl
<1>7. i.t = Bool => i.v \in {0, 1}
  BY <1>1, P4Type
<1>8. Faithful(e)
  BY <1>1, <1>2, <1>3, <1>5, <1>6, <1>7 DEF Faithful
<1> QED
  BY <1>2, <1>4, <1>8 DEF e

LEMMA LeafFaithful ==
  ASSUME NEW l \in Leaves
  PROVE  /\ Faithful(l) /\ l.clean /\ l.n = l.v /\ l.n # Undefined
BY InputFaithful, LiteralFaithful DEF Leaves

\* A clean operand keeps its value in the type it has in common with another.
LEMMA CleanConverted ==
  ASSUME NEW l, NEW r, Faithful(l), Faithful(r), l.t = r.t,
         l.clean, l.n # Undefined, l.c # Array, r.c # Array
  PROVE  /\ l.n = l.v /\ Common(l.c, r.c) \in Scalars /\ Common(r.c, l.c) \in Scalars
         /\ l.v \in Values(Common(l.c, r.c)) /\ l.v \in Values(Common(r.c, l.c))
<1>1. l.c \in Scalars /\ r.c \in Scalars /\ l.n = l.v /\ l.v \in Values(l.c)
      /\ l.v \in Int
  BY P4Type DEF Faithful
<1>2. l.v < 0 => r.c.s
  <2>1. SUFFICES ASSUME l.v < 0 PROVE l.t.s
    BY DEF Faithful
  <2>2. l.t # Bool
    BY <1>1, <2>1, P4Type DEF Faithful
  <2>3. l.t \in Types /\ l.v \in Values(l.t)
    BY <2>2, P4Type DEF Faithful
  <2> QED
    BY <1>1, <2>1, <2>3, Range DEF Values
<1> QED
  BY <1>1, <1>2, Converted, CommonType

LEMMA BinaryFaithful ==
  ASSUME NEW op \in Arithmetic \cup Bitwises, NEW l, NEW r,
         Faithful(l), Faithful(r), l.t = r.t, l.n # Undefined, r.n # Undefined,
         l.t # Bool, l.t.w <= Word
  PROVE  Faithful(BinaryOf(op, l, r))
<1> DEFINE t == l.t
           c == Common(l.c, r.c)
           m == Wrap(c, l.n)
           n == Wrap(c, r.n)
           p == P4Binary(op, t, l.v, r.v)
           d == CBinary(op, c, m, n)
           clean == CleanBinary(op, l, r)
<1>1. /\ t \in Types /\ l.v \in Values(t) /\ l.v \in Int
      /\ l.c \in Scalars /\ t.w <= l.c.w /\ (t.s => l.c.s)
      /\ l.n \in Values(l.c) /\ l.n \in Int /\ Congruents(l.n, l.v, Power[t.w])
      /\ l.clean \in BOOLEAN /\ (l.clean => l.n = l.v)
  BY NarrowParts
<1>2. /\ r.v \in Values(t) /\ r.v \in Int
      /\ r.c \in Scalars /\ t.w <= r.c.w /\ (t.s => r.c.s)
      /\ r.n \in Values(r.c) /\ r.n \in Int /\ Congruents(r.n, r.v, Power[t.w])
      /\ r.clean \in BOOLEAN /\ (r.clean => r.n = r.v)
  BY NarrowParts
<1>3. BinaryOf(op, l, r) = Operand(t, p, c, d, clean)
  BY DEF BinaryOf
<1>4. c \in Scalars /\ c \in Types /\ l.c.w <= c.w /\ (t.s => c.s) /\ t.w <= c.w
  <2>1. c \in Scalars /\ l.c.w <= c.w /\ (l.c.s /\ r.c.s => c.s)
    BY <1>1, <1>2, CommonType
  <2> HIDE DEF c, t
  <2>2. t.w \in Nat /\ l.c.w \in Nat /\ c.w \in Nat
    BY <1>1, <2>1, ScalarTypes, TypeParts
  <2> QED
    BY <1>1, <1>2, <2>1, <2>2, ScalarTypes
<1> HIDE DEF t, c
<1>5. ASSUME NEW a \in Int, NEW b \in Int, Congruents(a, b, Power[t.w])
      PROVE  Wrap(c, a) \in Int /\ Congruents(Wrap(c, a), b, Power[t.w])
  <2>1. PICK z \in Int : z = Wrap(c, a) /\ Congruents(z, a, Power[c.w])
    BY <1>4, WrapInt
  <2>2. PICK k \in Int : k = Power[t.w]
    BY <1>1, Range
  <2>3. Congruents(z, a, Power[t.w])
    BY <1>1, <1>4, <2>1, TypeParts, CongruentsNarrower
  <2>4. Congruents(z, b, k)
    BY <1>5, <2>2, <2>3, CongruentsTrans
  <2> QED
    BY <2>1, <2>2, <2>4
<1>6. m \in Int /\ n \in Int /\ Congruents(m, l.v, Power[t.w])
      /\ Congruents(n, r.v, Power[t.w])
  BY <1>1, <1>2, <1>5
<1>7. l.clean => l.v \in Values(c) /\ m = l.v
  <2>1. l.clean => l.v \in Values(c)
    BY <1>1, <1>2, CleanConverted, ScalarParts DEF c
  <2> QED
    BY <1>1, <1>4, <2>1, WrapId
<1>8. r.clean => r.v \in Values(c) /\ n = r.v
  <2>1. r.clean => r.v \in Values(c)
    BY <1>1, <1>2, CleanConverted, ScalarParts DEF c
  <2> QED
    BY <1>2, <1>4, <2>1, WrapId
<1> HIDE DEF m, n
<1>9. /\ p \in Values(t) /\ d \in Int
      /\ d # Undefined => d \in Values(c) /\ Congruents(d, p, Power[t.w])
  BY <1>1, <1>2, <1>4, <1>6, BinaryCongruent
<1>10. ASSUME d # Undefined, clean PROVE d = p
  <2>1. SUFFICES d \in Values(t)
    BY <1>1, <1>9, <1>10, ValuesUnique
  <2>2. CASE op \in Arithmetic
    <3>1. c = t
      <4>1. ~(op = "&")
        BY <2>2 DEF Arithmetic
      <4> QED
        BY <1>10, <2>2, <4>1, Zenon DEF CleanBinary, c, t
    <3> QED
      BY <1>9, <1>10, <3>1
  <2>3. CASE op = "&" /\ ~t.s
    <3>1. l.clean \/ r.clean
      <4>1. op \notin Arithmetic
        BY <2>3 DEF Arithmetic
      <4> QED
        BY <1>10, <2>3, <4>1, Zenon DEF CleanBinary, t
    <3>2. CASE l.clean
      BY <1>1, <1>4, <1>6, <1>7, <2>3, <3>2, MaskExact
    <3>3. CASE r.clean
      BY <1>2, <1>1, <1>4, <1>6, <1>8, <2>3, <3>3, MaskExact
    <3> QED
      BY <3>1, <3>2, <3>3
  <2>4. CASE op \in Bitwises /\ ~(op = "&" /\ ~t.s)
    <3>1. l.clean /\ r.clean
      <4>1. op \notin Arithmetic
        BY <2>4 DEF Arithmetic, Bitwises
      <4> QED
        BY <1>10, <2>4, <4>1, Zenon DEF CleanBinary, t
    <3> QED
      BY <1>1, <1>2, <1>4, <1>7, <1>8, <2>4, <3>1, BitsExact
  <2> QED
    BY <2>2, <2>3, <2>4
<1>11. clean \in BOOLEAN
  <2>1. CASE op \in Arithmetic
    BY <2>1, Zenon DEF CleanBinary
  <2>2. CASE op \notin Arithmetic /\ op = "&" /\ ~t.s
    BY <1>1, <1>2, <2>2, Zenon DEF CleanBinary, t
  <2>3. CASE op \notin Arithmetic /\ ~(op = "&" /\ ~t.s)
    BY <1>1, <1>2, <2>3, Zenon DEF CleanBinary, t
  <2> QED
    BY <2>1, <2>2, <2>3
<1> HIDE DEF p, d, clean
<1>12. t.w <= Word
  BY DEF t
<1> QED
  BY <1>1, <1>3, <1>4, <1>9, <1>10, <1>11, <1>12, Narrow

-----------------------------------------------------------------------------
(* Shifts                                                                  *)

LEMMA Quotient ==
  ASSUME NEW x \in Int, NEW m \in Nat \ {0}
  PROVE  /\ x \div m \in Int
         /\ 0 <= x => 0 <= x \div m /\ x \div m <= x
         /\ x < 0 => x <= x \div m /\ x \div m <= -1
<1>1. PICK q \in Int, r \in 0 .. m - 1 : x = m * q + r /\ q = x \div m
  BY CongruentsMod
<1>2. x = m * q + r
  BY <1>1, Zenon
<1>3. 0 <= r /\ r <= m - 1 /\ r \in Int
  OBVIOUS
<1>4. CASE 0 <= q
  <2>1. m * q = q + (m - 1) * q /\ (m - 1) * q >= 0 /\ m * q >= 0
    BY <1>4
  <2>2. m * q \in Int
    OBVIOUS
  <2>3. 0 <= x /\ q <= x
    BY <1>2, <1>3, <1>4, <2>1, <2>2
  <2> QED
    BY <1>1, <1>4, <2>3
<1>5. CASE q <= -1
  <2>1. m * q = (q + 1) + (m - 1) * (q + 1) - m /\ (m - 1) * (q + 1) <= 0
    BY <1>5
  <2>2. m * q \in Int
    OBVIOUS
  <2>3. x < 0 /\ x <= q
    BY <1>2, <1>3, <1>5, <2>1, <2>2
  <2> QED
    BY <1>1, <1>5, <2>3
<1> QED
  BY <1>4, <1>5

LEMMA QuotientValue ==
  ASSUME NEW t \in Types, NEW x \in Values(t), NEW m \in Nat \ {0}
  PROVE  x \div m \in Values(t)
<1>1. /\ x \in Int /\ Least(t) <= x /\ x <= Greatest(t) /\ Least(t) <= 0
      /\ 0 <= Greatest(t)
      /\ Least(t) \in Int /\ Greatest(t) \in Int
  BY Range DEF Values
<1>2. PICK q \in Int : q = x \div m /\ (0 <= x => 0 <= q /\ q <= x) /\ (x < 0 => x <= q /\ q <= -1)
  BY <1>1, Quotient
<1>3. Least(t) <= q /\ q <= Greatest(t)
  BY <1>1, <1>2
<1> QED
  BY <1>1, <1>2, <1>3 DEF Values

\* What is shifted out entirely leaves the sign.
LEMMA QuotientSign ==
  ASSUME NEW t \in Types, NEW x \in Values(t), NEW k \in Widths, t.w <= k
  PROVE  x \div Power[k] = -Negative(x)
<1>1. /\ x \in Int /\ Least(t) <= x /\ x <= Greatest(t)
      /\ Least(t) = (IF t.s THEN -Power[t.w - 1] ELSE 0)
      /\ Greatest(t) = Least(t) + Power[t.w] - 1
      /\ Power[t.w] = 2 * Power[t.w - 1] /\ Power[t.w - 1] \in Nat \ {0}
  BY Range DEF Values
<1>2. PICK p \in Nat \ {0} : p = Power[k]
  BY PowerPos
<1>3. Power[t.w] <= p
  <2>1. CASE t.w = k
    BY <1>1, <1>2, <2>1
  <2>2. CASE t.w < k
    <3>1. 2 * Power[t.w] <= p
      BY <1>2, <2>2, TypeParts, PowerLess
    <3> QED
      BY <1>1, <3>1
  <2> QED
    BY <2>1, <2>2, TypeParts, WidestNat DEF Widths
<1>4. -p <= x /\ x <= p - 1
  <2>1. CASE t.s
    BY <1>1, <1>3, <2>1
  <2>2. CASE ~t.s
    BY <1>1, <1>3, <2>2
  <2> QED
    BY <2>1, <2>2
<1>5. x \in Int
  BY <1>1
<1>6. CASE 0 <= x
  <2>1. x = p * 0 + x /\ x \in 0 .. p - 1
    BY <1>1, <1>4, <1>6
  <2>2. x \div p = 0
    BY <1>5, <2>1, Division
  <2> QED
    BY <1>1, <1>2, <1>6, <2>2 DEF Negative
<1>7. CASE x < 0
  <2>1. x = p * (-1) + (x + p) /\ x + p \in 0 .. p - 1
    BY <1>1, <1>4, <1>7
  <2>2. x \div p = -1
    BY <1>5, <2>1, Division
  <2> QED
    BY <1>1, <1>2, <1>7, <2>2 DEF Negative
<1> QED
  BY <1>1, <1>6, <1>7

LEMMA RightShift ==
  ASSUME NEW t \in Types, NEW c \in Types, t.w <= c.w,
         NEW x \in Values(t), x \in Values(c), NEW k \in Nat
  PROVE  /\ P4Shift(">>", t, x, k) \in Values(t) /\ CShift(">>", c, x, k) \in Int
         /\ CShift(">>", c, x, k) # Undefined =>
              /\ CShift(">>", c, x, k) = P4Shift(">>", t, x, k)
              /\ CShift(">>", c, x, k) \in Values(c)
<1> DEFINE j == IF k < t.w THEN k ELSE t.w
<1>1. t.w \in Widths /\ t.w \in Nat /\ c.w \in Widths /\ c.w \in Nat
  BY TypeParts
<1>2. j \in Widths
  BY <1>1, WidestNat DEF Widths
<1>3. P4Shift(">>", t, x, k) = x \div Power[j]
  BY DEF P4Shift
<1> HIDE DEF j
<1>4. P4Shift(">>", t, x, k) \in Values(t)
  BY <1>2, <1>3, PowerPos, QuotientValue
<1>5. CASE k >= c.w
  BY <1>4, <1>5, NotUndefined DEF CShift
<1>6. CASE k < c.w
  <2>1. k \in Widths /\ ~(k >= c.w)
    BY <1>1, <1>6, WidestNat DEF Widths
  <2>2. CShift(">>", c, x, k) = x \div Power[k]
    BY <2>1, Zenon DEF CShift
  <2>3. CShift(">>", c, x, k) \in Values(c) /\ CShift(">>", c, x, k) \in Int
    BY <2>1, <2>2, PowerPos, QuotientValue, Range
  <2>4. CASE k < t.w
    BY <1>3, <1>4, <2>2, <2>3, <2>4 DEF j
  <2>5. CASE t.w <= k
    <3>1. j = t.w
      BY <1>1, <2>5 DEF j
    <3>2. x \div Power[k] = -Negative(x) /\ x \div Power[t.w] = -Negative(x)
      BY <1>1, <2>1, <2>5, QuotientSign
    <3> QED
      BY <1>3, <1>4, <2>2, <2>3, <3>1, <3>2
  <2> QED
    BY <1>1, <2>4, <2>5
<1> QED
  BY <1>1, <1>5, <1>6

LEMMA LeftShift ==
  ASSUME NEW t \in Types, NEW c \in Types, t.w <= c.w, NEW v \in Int, NEW n \in Int,
         Congruents(n, v, Power[t.w]), NEW k \in Nat
  PROVE  /\ P4Shift("<<", t, v, k) \in Values(t) /\ CShift("<<", c, n, k) \in Int
         /\ CShift("<<", c, n, k) # Undefined =>
              /\ CShift("<<", c, n, k) \in Values(c)
              /\ Congruents(CShift("<<", c, n, k), P4Shift("<<", t, v, k), Power[t.w])
<1>1. t.w \in Widths /\ t.w \in Nat /\ c.w \in Widths /\ c.w \in Nat
  BY TypeParts
<1>2. P4Shift("<<", t, v, k) = IF k < t.w THEN Wrap(t, v * Power[k]) ELSE 0
  BY DEF P4Shift
<1>3. 0 \in Values(t)
  BY Range DEF Values
<1>4. k < t.w => v * Power[k] \in Int
  <2>1. SUFFICES ASSUME k < t.w PROVE v * Power[k] \in Int
    OBVIOUS
  <2>2. Power[k] \in Int
    BY <1>1, <2>1, PowerPos, WidestNat DEF Widths
  <2> QED
    BY <2>2
<1>5. P4Shift("<<", t, v, k) \in Values(t)
  BY <1>2, <1>3, <1>4, WrapInt
<1>6. CASE k >= c.w \/ (c.s /\ (n < 0 \/ n > Greatest(c) \div Power[k]))
  <2>1. CShift("<<", c, n, k) = Undefined
    BY <1>6, Zenon DEF CShift
  <2> QED
    BY <1>5, <2>1, NotUndefined
<1>7. CASE ~(k >= c.w \/ (c.s /\ (n < 0 \/ n > Greatest(c) \div Power[k])))
  <2>1. CShift("<<", c, n, k) = Wrap(c, n * Power[k])
    BY <1>7, Zenon DEF CShift
  <2>2. k < c.w /\ k \in Widths
    BY <1>1, <1>7, WidestNat DEF Widths
  <2>3. PICK p \in Int : p = Power[k]
    BY <2>2, PowerPos
  <2>4. PICK m \in Nat \ {0} : m = Power[t.w]
    BY <1>1, PowerPos
  <2>5. PICK d \in Int : d = CShift("<<", c, n, k) /\ d \in Values(c) /\ Congruents(d, n * p, Power[c.w])
    BY <2>1, <2>3, WrapInt
  <2>6. Congruents(d, n * p, m) /\ n * p \in Int /\ v * p \in Int
    <3>1. n * p \in Int /\ v * p \in Int
      OBVIOUS
    <3> QED
      BY <1>1, <2>4, <2>5, <3>1, CongruentsNarrower
  <2>7. Congruents(n * p, v * p, m)
    <3>1. Congruents(n, v, m) /\ Congruents(p, p, m)
      BY <2>4, CongruentsRefl
    <3> QED
      BY <3>1, CongruentsTimes
  <2>8. Congruents(d, v * p, m)
    BY <2>6, <2>7, CongruentsTrans
  <2>9. CASE k < t.w
    <3>1. PICK z \in Int : z = P4Shift("<<", t, v, k) /\ Congruents(z, v * p, m)
      BY <1>2, <2>3, <2>4, <2>6, <2>9, WrapInt
    <3>2. Congruents(v * p, z, m)
      BY <2>6, <3>1, CongruentsSym
    <3>3. Congruents(d, z, m)
      BY <2>6, <2>8, <3>2, CongruentsTrans
    <3> QED
      BY <1>5, <2>4, <2>5, <3>1, <3>3
  <2>10. CASE t.w <= k
    <3>1. PICK h \in Int : p = h * m
      <4>1. k - t.w \in Widths /\ Power[k] = Power[k - t.w] * Power[t.w]
        BY <1>1, <2>2, <2>10, PowerDivides
      <4> QED
        BY <2>3, <2>4, <4>1, PowerPos
    <3>2. v * p = 0 + (v * h) * m /\ v * h \in Int
      BY <3>1
    <3>3. Congruents(v * p, 0, m)
      BY <3>2 DEF Congruents
    <3>4. Congruents(d, 0, m)
      BY <2>6, <2>8, <3>3, CongruentsTrans
    <3>5. P4Shift("<<", t, v, k) = 0
      BY <1>1, <1>2, <2>10
    <3> QED
      BY <1>5, <2>4, <2>5, <3>4, <3>5
  <2> QED
    BY <1>1, <2>9, <2>10
<1> QED
  BY <1>6, <1>7

-----------------------------------------------------------------------------
(* Operations on operands                                                  *)

LEMMA PromotedParts ==
  ASSUME NEW e, Faithful(e), e.n # Undefined, e.t # Bool, e.t.w <= Word
  PROVE  /\ Promote(e.c) \in Scalars /\ Promote(e.c) \in Types
         /\ e.t.w <= Promote(e.c).w /\ (e.t.s => Promote(e.c).s)
         /\ e.n \in Values(Promote(e.c))
<1>1. e.t \in Types /\ e.c \in Scalars /\ e.t.w <= e.c.w /\ (e.t.s => e.c.s) /\ e.n \in Values(e.c)
  BY NarrowParts
<1>2. PICK p \in Scalars : /\ p = Promote(e.c) /\ e.c.w <= p.w /\ (e.c.s => p.s)
                           /\ Values(e.c) \subseteq Values(p)
  BY <1>1, Promotion
<1>3. e.t.w \in Nat /\ e.c.w \in Nat /\ p.w \in Nat
  BY <1>1, <1>2, ScalarTypes, TypeParts
<1> QED
  BY <1>1, <1>2, <1>3, ScalarTypes

LEMMA ShiftFaithful ==
  ASSUME NEW op \in {"<<", ">>"}, NEW e, NEW k \in Nat,
         Faithful(e), e.n # Undefined, e.t # Bool, e.t.w <= Word, op = ">>" => e.clean
  PROVE  Faithful(Operand(e.t, P4Shift(op, e.t, e.v, k), Promote(e.c),
                    CShift(op, Promote(e.c), e.n, k),
                    IF op = ">>" THEN e.clean ELSE Promote(e.c) = e.t))
<1> DEFINE t == e.t
           c == Promote(e.c)
           p == P4Shift(op, t, e.v, k)
           d == CShift(op, c, e.n, k)
           clean == IF op = ">>" THEN e.clean ELSE c = t
<1>1. /\ t \in Types /\ e.v \in Values(t) /\ e.v \in Int
      /\ e.n \in Int /\ Congruents(e.n, e.v, Power[t.w])
      /\ e.clean \in BOOLEAN /\ (e.clean => e.n = e.v)
  BY NarrowParts
<1>2. c \in Scalars /\ c \in Types /\ t.w <= c.w /\ (t.s => c.s) /\ e.n \in Values(c)
  BY PromotedParts
<1>3. t.w <= Word
  OBVIOUS
<1> HIDE DEF t, c
<1>4. /\ p \in Values(t) /\ d \in Int
      /\ d # Undefined => d \in Values(c) /\ Congruents(d, p, Power[t.w]) /\ (clean => d = p)
  <2>1. CASE op = ">>"
    <3>1. e.n = e.v
      BY <1>1, <2>1
    <3>2. /\ p \in Values(t) /\ d \in Int
          /\ d # Undefined => d = p /\ d \in Values(c)
      BY <1>1, <1>2, <2>1, <3>1, RightShift
    <3>3. Congruents(p, p, Power[t.w])
      BY <1>1, <3>2, Range, CongruentsRefl
    <3> HIDE DEF p, d
    <3> QED
      BY <3>2, <3>3
  <2>2. CASE op = "<<"
    <3>1. /\ p \in Values(t) /\ d \in Int
          /\ d # Undefined => d \in Values(c) /\ Congruents(d, p, Power[t.w])
      BY <1>1, <1>2, <2>2, LeftShift
    <3>2. clean => c = t
      BY <2>2
    <3> HIDE DEF p, d, clean
    <3> QED
      BY <1>1, <3>1, <3>2, ValuesUnique
  <2> QED
    BY <2>1, <2>2
<1>5. clean \in BOOLEAN
  BY <1>1
<1> HIDE DEF p, d, clean
<1>6. Faithful(Operand(t, p, c, d, clean))
  BY <1>1, <1>2, <1>3, <1>4, <1>5, Narrow
<1> QED
  BY <1>6 DEF t, c, p, d, clean

LEMMA UnaryFaithful ==
  ASSUME NEW e, Faithful(e), e.n # Undefined, e.t # Bool, e.t.w <= Word,
         NEW x \in Int, NEW y \in Int, Congruents(y, x, Power[e.t.w])
  PROVE  Faithful(Operand(e.t, Wrap(e.t, x), Promote(e.c), InC(Promote(e.c), y),
                          Promote(e.c) = e.t))
<1> DEFINE t == e.t
           c == Promote(e.c)
           p == Wrap(t, x)
           d == InC(c, y)
<1>1. t \in Types /\ t.w <= Word /\ Congruents(y, x, Power[t.w])
  BY NarrowParts
<1>2. c \in Scalars /\ c \in Types /\ t.w <= c.w /\ (t.s => c.s)
  BY PromotedParts
<1> HIDE DEF t, c
<1>3. p \in Int /\ p \in Values(t) /\ Congruents(p, x, Power[t.w])
  BY <1>1, WrapInt
<1>4. d \in Int /\ (d # Undefined => d \in Values(c) /\ Congruents(d, y, Power[c.w]))
  BY <1>2, InCValue
<1> HIDE DEF p, d
<1>5. d # Undefined => Congruents(d, p, Power[t.w])
  <2>1. SUFFICES ASSUME d # Undefined PROVE Congruents(d, p, Power[t.w])
    OBVIOUS
  <2>2. PICK k \in Int : k = Power[t.w]
    BY <1>1, Range
  <2>3. Congruents(d, y, k)
    BY <1>1, <1>2, <1>4, <2>1, <2>2, TypeParts, CongruentsNarrower
  <2>4. Congruents(d, x, k)
    BY <1>1, <1>4, <2>2, <2>3, CongruentsTrans
  <2>5. Congruents(x, p, k)
    BY <1>3, <2>2, CongruentsSym
  <2>6. Congruents(d, p, k)
    BY <1>3, <1>4, <2>4, <2>5, CongruentsTrans
  <2> QED
    BY <2>2, <2>6
<1>6. d # Undefined /\ c = t => d = p
  BY <1>1, <1>3, <1>4, <1>5, ValuesUnique
<1>7. Faithful(Operand(t, p, c, d, c = t))
  BY <1>1, <1>2, <1>3, <1>4, <1>5, <1>6, Narrow
<1> QED
  BY <1>7 DEF t, c, p, d

LEMMA CastFaithful ==
  ASSUME NEW e, Faithful(e), e.n # Undefined, e.t # Bool, e.c # Array,
         NEW d \in Types, d.w <= Word, d.w = e.t.w \/ d.s = e.t.s, d.w > e.t.w => e.clean
  PROVE  Faithful(Operand(d, Wrap(d, e.v), CType(d), Wrap(CType(d), e.n), CleanCast(e, d)))
<1> DEFINE c == CType(d)
           p == Wrap(d, e.v)
           n == Wrap(c, e.n)
           clean == CleanCast(e, d)
<1>1. /\ e.t \in Types /\ e.v \in Values(e.t) /\ e.v \in Int /\ e.n \in Int
      /\ Congruents(e.n, e.v, Power[e.t.w]) /\ (e.clean => e.n = e.v) /\ e.clean \in BOOLEAN
  BY P4Type DEF Faithful
<1>2. c \in Scalars /\ c \in Types /\ d.w <= c.w /\ c.s = d.s
      /\ Values(d) \subseteq Values(c)
  <2>1. d \in P4Types /\ d # Bool
    BY ScalarTypes DEF P4Types, Types
  <2> QED
    BY <2>1, DeclaredType, ScalarTypes
<1> HIDE DEF c
<1>3. p \in Int /\ p \in Values(d) /\ Congruents(p, e.v, Power[d.w])
  BY <1>1, WrapInt
<1>4. n \in Int /\ n \in Values(c) /\ Congruents(n, e.n, Power[c.w])
  BY <1>1, <1>2, WrapInt
<1>5. e.t.w \in Nat /\ e.t.w \in Widths /\ d.w \in Nat /\ d.w \in Widths
      /\ c.w \in Widths
  BY <1>1, <1>2, TypeParts
<1>6. PICK k \in Int : k = Power[d.w]
  BY <1>5, PowerPos
<1>7. Congruents(e.n, e.v, k)
  <2>1. CASE d.w <= e.t.w
    BY <1>1, <1>5, <1>6, <2>1, CongruentsNarrower
  <2>2. CASE d.w > e.t.w
    BY <1>1, <1>6, <2>2, CongruentsRefl
  <2> QED
    BY <1>5, <2>1, <2>2
<1>8. Congruents(n, p, k)
  <2>1. Congruents(n, e.n, k)
    <3> HIDE DEF n
    <3> QED
      BY <1>1, <1>2, <1>4, <1>5, <1>6, CongruentsNarrower
  <2> HIDE DEF n, p
  <2>2. Congruents(n, e.v, k)
    BY <1>1, <1>4, <1>7, <2>1, CongruentsTrans
  <2>3. Congruents(e.v, p, k)
    BY <1>1, <1>3, <1>6, CongruentsSym
  <2> QED
    BY <1>1, <1>3, <1>4, <2>2, <2>3, CongruentsTrans
<1>9. ASSUME clean PROVE n = p
  <2>1. CASE d = c
    <3> HIDE DEF n, p, clean
    <3> QED
      BY <1>3, <1>4, <1>6, <1>8, <2>1, ValuesUnique
  <2>2. CASE e.clean /\ (d = e.t \/ d.w > e.t.w)
    <3>1. e.n = e.v
      BY <1>1, <2>2
    <3>2. e.v \in Values(d)
      <4>1. CASE d = e.t
        BY <1>1, <4>1
      <4>2. CASE d.w > e.t.w
        <5>1. e.t.w < d.w /\ d.s = e.t.s
          BY <1>5, <4>2
        <5> QED
          BY <1>1, <5>1, ValuesWider
      <4> QED
        BY <2>2, <4>1, <4>2
    <3>3. e.v \in Values(c)
      BY <1>2, <3>2
    <3> QED
      BY <1>2, <3>1, <3>2, <3>3, WrapId
  <2>3. d = c \/ (e.clean /\ (d = e.t \/ d.w > e.t.w))
    BY <1>9 DEF CleanCast, c
  <2> QED
    BY <2>1, <2>2, <2>3
<1>10. clean \in BOOLEAN
  BY <1>1 DEF CleanCast
<1> HIDE DEF p, n, clean
<1>11. Faithful(Operand(d, p, c, n, clean))
  BY <1>2, <1>3, <1>4, <1>6, <1>8, <1>9, <1>10, Narrow
<1> QED
  BY <1>11 DEF c, p, n, clean

LEMMA ComparedFaithful ==
  ASSUME NEW op, NEW l, NEW r, Faithful(l), Faithful(r), l.t = r.t,
         l.n # Undefined, r.n # Undefined, l.clean, r.clean, l.c # Array, r.c # Array,
         NEW e \in Compared(op, l, r), \A x, y \in Int : Holds(op, x, y) \in BOOLEAN
  PROVE  Faithful(e)
<1> DEFINE c == Common(l.c, r.c)
<1>1. l.n = l.v /\ r.n = r.v /\ c \in Types /\ l.v \in Values(c) /\ r.v \in Values(c)
  BY CleanConverted, ScalarTypes
<1>2. Wrap(c, l.n) = l.v /\ Wrap(c, r.n) = r.v
  BY <1>1, WrapId
<1>3. e = Operand(Bool, Truth(Holds(op, l.v, r.v)), CInt, Truth(Holds(op, l.v, r.v)), TRUE)
  <2>1. Numbers(l) = {l.n} /\ Numbers(r) = {r.n}
    BY DEF Numbers
  <2> DEFINE Result(m, n) ==
               Operand(Bool, Truth(Holds(op, l.v, r.v)), CInt,
                       Truth(Holds(op, Wrap(c, m), Wrap(c, n))), TRUE)
  <2>2. PICK m \in Numbers(l), n \in Numbers(r) : e = Result(m, n)
    <3>1. Compared(op, l, r) = {Result(m, n) : m \in Numbers(l), n \in Numbers(r)}
      BY DEF Compared
    <3> HIDE DEF Result
    <3> QED
      BY <3>1
  <2>3. Wrap(c, m) = l.v /\ Wrap(c, n) = r.v
    BY <1>2, <2>1, <2>2
  <2> QED
    BY <2>2, <2>3, Zenon
<1>4. /\ Truth(Holds(op, l.v, r.v)) \in {0, 1}
      /\ Truth(Holds(op, l.v, r.v)) \in Values(CInt)
  <2>1. l.v \in Int /\ r.v \in Int
    BY P4Type DEF Faithful
  <2>2. Holds(op, l.v, r.v) \in BOOLEAN
    BY <2>1
  <2> QED
    BY <2>2, TruthInt
<1> QED
  BY <1>3, <1>4, ScalarTypes, Boolean

LEMMA ChoiceFaithful ==
  ASSUME NEW b, NEW l, NEW r, Faithful(l), Faithful(r), l.t = r.t,
         l.n # Undefined, r.n # Undefined, b.n = b.v,
         l.t = Bool \/ l.t.w <= Word
  PROVE  Faithful(Choice(b, l, r))
<1> DEFINE t == l.t
           c == Common(l.c, r.c)
           clean == l.clean /\ r.clean
<1>1. PICK e \in {l, r} : Choice(b, l, r) = Operand(t, e.v, c, Wrap(c, e.n), clean)
  <2>1. CASE b.v # 0
    BY <2>1 DEF Choice
  <2>2. CASE b.v = 0
    BY <2>2 DEF Choice
  <2> QED
    BY <2>1, <2>2
<1>2. Faithful(e) /\ e.t = t /\ e.n # Undefined /\ e.n \in Int
  BY DEF Faithful
<1>3. clean \in BOOLEAN /\ (clean => e.clean)
  BY DEF Faithful
<1>4. CASE t = Bool
  <2>1. /\ l.c \in Scalars /\ r.c \in Scalars /\ l.n \in Values(l.c)
        /\ r.n \in Values(r.c)
        /\ l.n \in {0, 1} /\ r.n \in {0, 1}
        /\ e.v \in {0, 1}
    BY <1>2, <1>4, P4Type DEF Faithful
  <2>2. c \in Scalars /\ c \in Types
    BY <2>1, CommonType, ScalarTypes
  <2>3. l.n \in Values(c) /\ r.n \in Values(c)
    BY <2>1, Converted
  <2>4. e.n \in Values(c) /\ e.n \in {0, 1} /\ Wrap(c, e.n) = e.n
    BY <2>1, <2>2, <2>3, WrapId
  <2>5. clean => e.n = e.v
    BY <1>2, <1>3 DEF Faithful
  <2> HIDE DEF c, clean
  <2>6. Faithful(Operand(Bool, e.v, c, Wrap(c, e.n), clean))
    BY <1>3, <2>1, <2>2, <2>4, <2>5, Boolean
  <2> QED
    BY <1>1, <1>4, <2>6
<1>5. CASE t # Bool
  <2>1. t.w <= Word
    BY <1>5
  <2>2. /\ t \in Types /\ l.c \in Scalars /\ t.w <= l.c.w /\ (t.s => l.c.s)
        /\ r.c \in Scalars /\ (t.s => r.c.s)
    BY <1>5, <2>1, NarrowParts
  <2>3. c \in Scalars /\ c \in Types /\ l.c.w <= c.w /\ (t.s => c.s)
    BY <2>2, CommonType, ScalarTypes
  <2>4. e.v \in Values(t) /\ e.v \in Int /\ Congruents(e.n, e.v, Power[t.w])
    BY <1>2, <1>5, <2>1, NarrowParts
  <2>5. clean => e.n = e.v /\ e.n \in Values(c)
    <3>1. SUFFICES ASSUME clean PROVE e.n = e.v /\ e.n \in Values(c)
      OBVIOUS
    <3>2. /\ l.n = l.v /\ l.v \in Values(c)
          /\ r.n = r.v /\ r.v \in Values(c)
      BY <2>2, <3>1, CleanConverted, ScalarTypes
    <3> QED
      BY <3>2
  <2> HIDE DEF c, clean, t
  <2>6. t.w <= c.w /\ t.w \in Nat /\ t.w \in Widths /\ c.w \in Widths
    BY <2>2, <2>3, ScalarTypes, TypeParts
  <2>7. PICK n \in Int : /\ n = Wrap(c, e.n) /\ n \in Values(c) /\ Congruents(n, e.n, Power[c.w])
                         /\ (clean => n = e.v)
    BY <1>2, <2>3, <2>5, WrapInt, WrapId
  <2>8. Congruents(n, e.v, Power[t.w])
    <3>1. PICK k \in Int : k = Power[t.w]
      BY <2>6, PowerPos
    <3>2. Congruents(n, e.n, k)
      BY <1>2, <2>6, <2>7, <3>1, CongruentsNarrower
    <3> QED
      BY <1>2, <2>4, <3>1, <3>2, CongruentsTrans
  <2>9. Faithful(Operand(t, e.v, c, n, clean))
    BY <1>3, <2>1, <2>2, <2>3, <2>4, <2>6, <2>7, <2>8, Narrow
  <2> QED
    BY <1>1, <2>7, <2>9
<1> QED
  BY <1>4, <1>5

LEMMA AssignmentFaithful ==
  ASSUME NEW e, Faithful(e), e.n # Undefined
  PROVE  LET c == CType(e.t)
         IN  Faithful(Stored(e.t, e.v, IF c = Array THEN e.n ELSE Wrap(c, e.n),
                             e.clean \/ c = e.t))
<1> DEFINE t == e.t
           c == CType(t)
           n == IF c = Array THEN e.n ELSE Wrap(c, e.n)
           clean == e.clean \/ c = t
           f == Stored(t, e.v, n, clean)
<1>1. /\ f.t = t /\ f.v = e.v /\ f.c = c /\ f.n = n /\ f.clean = clean /\ f.var = TRUE
  <2> HIDE DEF t, n, clean
  <2> QED
    BY DEF Stored
<1> HIDE DEF f
<1>2. /\ t \in P4Types /\ e.v \in P4Values(t) /\ e.n \in Int /\ e.v \in Int
      /\ e.clean \in BOOLEAN /\ clean \in BOOLEAN
  BY P4Type DEF Faithful
<1>3. CASE t = Bool
  <2>1. c \in Scalars /\ c \in Types /\ {0, 1} \subseteq Values(c) /\ c # Array /\ c # t
    BY <1>2, <1>3, DeclaredType, ScalarTypes, ScalarParts
  <2>2. e.n \in {0, 1} /\ (e.clean => e.n = e.v) /\ ~t.s
    BY <1>3 DEF Faithful, Bool, TypeOf
  <2>3. n = e.n /\ n \in Values(c)
    BY <2>1, <2>2, WrapId
  <2>4. clean => n = e.v
    BY <2>1, <2>2, <2>3
  <2> HIDE DEF t, c, n, clean
  <2>5. Faithful(f)
    BY <1>1, <1>2, <1>3, <2>1, <2>2, <2>3, <2>4, Zenon DEF Faithful
  <2> QED
    BY <2>5 DEF f, t, c, n, clean
<1>4. CASE t # Bool /\ t.w > Word
  <2>1. c = Array /\ c.s /\ ~(t.w <= Word)
    <3> HIDE DEF t
    <3> QED
      BY <1>2, <1>4, DeclaredType, P4Type, ScalarTypes, ScalarParts DEF Array, TypeOf
  <2>2. n = e.n /\ n = e.v /\ clean = TRUE /\ Congruents(n, e.v, Power[t.w])
    BY <1>4, <2>1 DEF Faithful
  <2> HIDE DEF t, c, n, clean
  <2>3. Faithful(f)
    BY <1>1, <1>2, <1>4, <2>1, <2>2, Zenon DEF Faithful
  <2> QED
    BY <2>3 DEF f, t, c, n, clean
<1>5. CASE t # Bool /\ t.w <= Word
  <2>1. /\ t \in Types /\ e.v \in Values(t) /\ Congruents(e.n, e.v, Power[t.w])
        /\ (e.clean => e.n = e.v)
    BY <1>5, NarrowParts
  <2>2. /\ c \in Scalars /\ c \in Types /\ c # Array /\ t.w <= c.w /\ (t.s => c.s)
        /\ Values(t) \subseteq Values(c)
    BY <1>2, <1>5, DeclaredType, ScalarParts
  <2>3. n = Wrap(c, e.n)
    BY <2>2
  <2>4. n \in Int /\ n \in Values(c) /\ Congruents(n, e.n, Power[c.w])
    BY <1>2, <2>2, <2>3, WrapInt
  <2>5. e.clean => n = e.v
    BY <2>1, <2>2, <2>3, WrapId
  <2>6. Congruents(n, e.v, Power[t.w])
    <3> HIDE DEF t, c, n
    <3>1. PICK k \in Int : k = Power[t.w]
      BY <2>1, Range
    <3>2. Congruents(n, e.n, k)
      BY <1>2, <2>1, <2>2, <2>4, <3>1, TypeParts, CongruentsNarrower
    <3> QED
      BY <1>2, <2>1, <2>4, <3>1, <3>2, CongruentsTrans
  <2>7. c = t => n = e.v
    <3> HIDE DEF t, c, n
    <3> QED
      BY <2>1, <2>4, <2>6, ValuesUnique
  <2>8. clean => n = e.v
    BY <2>5, <2>7
  <2>9. ~(t.w > Word)
    BY <1>5, <2>1, TypeParts, ScalarTypes, ScalarParts
  <2> HIDE DEF t, c, n, clean
  <2>10. Faithful(f)
    BY <1>1, <1>2, <1>5, <2>2, <2>4, <2>6, <2>8, <2>9, Zenon DEF Faithful
  <2> QED
    BY <2>10 DEF f, t, c, n, clean
<1>6. t.w \in Nat /\ Word \in Nat
  BY <1>2, P4Type, ScalarTypes, ScalarParts
<1> QED
  BY <1>3, <1>4, <1>5, <1>6

-----------------------------------------------------------------------------
(* Steps                                                                   *)

\* The inductive invariant: the expression is faithful, and what was used was
\* clean.
Inv ==
  /\ status \in {"growing", "used", "rejected"}
  /\ Faithful(expr)
  /\ RejectsOrExact

LEMMA HoldsBoolean ==
  ASSUME NEW op \in Equalities \cup Orders \cup Connectives, NEW x \in Int, NEW y \in Int
  PROVE  Holds(op, x, y) \in BOOLEAN
<1>1. CASE op = "=="
  BY <1>1, Zenon DEF Holds
<1>2. CASE op = "!="
  BY <1>2, Zenon DEF Holds
<1>3. CASE op = "<"
  <2>1. Holds(op, x, y) = (x < y)
    BY <1>3, Zenon DEF Holds
  <2> QED
    BY <2>1
<1>4. CASE op = "<="
  <2>1. Holds(op, x, y) = (x <= y)
    BY <1>4, Zenon DEF Holds
  <2> QED
    BY <2>1
<1>5. CASE op = ">"
  <2>1. Holds(op, x, y) = (x > y)
    BY <1>5, Zenon DEF Holds
  <2> QED
    BY <2>1
<1>6. CASE op = ">="
  <2>1. Holds(op, x, y) = (x >= y)
    BY <1>6, Zenon DEF Holds
  <2> QED
    BY <2>1
<1>7. CASE op = "&&"
  BY <1>7, Zenon DEF Holds
<1>8. CASE op = "||"
  BY <1>8, Zenon DEF Holds
<1> QED
  BY <1>1, <1>2, <1>3, <1>4, <1>5, <1>6, <1>7, <1>8 DEF Equalities, Orders, Connectives

\* What is emitted is a bool or no wider than a word.
LEMMA Emitted ==
  ASSUME Inv, Growing, NEW t \in P4Types, NEW e, Emit(t, e),
         t = Bool \/ t.w <= Word => Faithful(e)
  PROVE  Inv'
<1>1. status = "growing"
  BY DEF Growing
<1>2. CASE WidthCheck(t)
  <2>1. expr' = e /\ status' = status
    BY <1>2 DEF Emit
  <2>2. Faithful(e)
    BY <1>2 DEF WidthCheck
  <2> QED
    BY <1>1, <2>1, <2>2 DEF Inv, RejectsOrExact
<1>3. CASE ~WidthCheck(t)
  BY <1>1, <1>3 DEF Emit, Inv, RejectsOrExact
<1> QED
  BY <1>2, <1>3

LEMMA LeafOf ==
  ASSUME NEW t, NEW l \in LeavesOf(t)
  PROVE  /\ Faithful(l) /\ l.t = t /\ l.clean /\ l.n = l.v /\ l.n # Undefined
BY LeafFaithful DEF LeavesOf

LEMMA CleanObserved ==
  ASSUME Careful, NEW e, Observed(e)
  PROVE  e.clean /\ e.c # Array
BY DEF Observed

LEMMA BinaryStep ==
  ASSUME Inv, Binary
  PROVE  Inv'
<1>1. Growing /\ expr.t # Bool /\ expr.n # Undefined /\ Faithful(expr)
      /\ expr.t \in P4Types
  BY DEF Binary, Growing, Inv, Faithful
<1>2. PICK op \in Arithmetic \cup Bitwises, r \in LeavesOf(expr.t) :
        \E e \in {BinaryOf(op, expr, r), BinaryOf(op, r, expr)} : Emit(expr.t, e)
  BY DEF Binary
<1>3. PICK e \in {BinaryOf(op, expr, r), BinaryOf(op, r, expr)} : Emit(expr.t, e)
  BY <1>2
<1>4. expr.t.w <= Word => Faithful(e)
  BY <1>1, LeafOf, BinaryFaithful
<1> QED
  BY <1>1, <1>3, <1>4, Emitted

LEMMA ShiftStep ==
  ASSUME Careful, Inv, Shift
  PROVE  Inv'
<1>1. Growing /\ expr.t # Bool /\ expr.n # Undefined /\ Faithful(expr)
      /\ expr.t \in P4Types
  BY DEF Shift, Growing, Inv, Faithful
<1>2. PICK op \in {"<<", ">>"}, k \in Leaves :
        /\ k.t # Bool /\ ~k.t.s /\ k.c # Array
        /\ op = ">>" => Observed(expr)
        /\ Emit(expr.t, Operand(expr.t, P4Shift(op, expr.t, expr.v, k.v), Promote(expr.c),
                          CShift(op, Promote(expr.c), expr.n, k.n),
                          IF op = ">>" THEN expr.clean ELSE Promote(expr.c) = expr.t))
  BY DEF Shift
<1>3. k.n = k.v /\ k.v \in Nat
  <2>1. k.t \in Types /\ k.v \in Values(k.t) /\ k.n = k.v
    BY <1>2, LeafFaithful, P4Type DEF Faithful
  <2> QED
    BY <1>2, <2>1, Range DEF Values
<1>4. expr.t.w <= Word =>
        Faithful(Operand(expr.t, P4Shift(op, expr.t, expr.v, k.v), Promote(expr.c),
                   CShift(op, Promote(expr.c), expr.n, k.n),
                   IF op = ">>" THEN expr.clean ELSE Promote(expr.c) = expr.t))
  <2>1. op = ">>" => expr.clean
    BY <1>2, CleanObserved
  <2> QED
    BY <1>1, <1>3, <2>1, ShiftFaithful
<1> QED
  BY <1>1, <1>2, <1>4, Emitted

LEMMA ConnectiveStep ==
  ASSUME Careful, Inv, Connective
  PROVE  Inv'
<1>1. /\ Growing /\ expr.t = Bool /\ Faithful(expr) /\ expr.clean
      /\ expr.n # Undefined /\ expr.n = expr.v /\ Bool \in P4Types
  BY CleanObserved DEF Connective, Growing, Inv, Faithful
<1>2. PICK op \in Connectives, r \in LeavesOf(Bool) :
        Emit(Bool, Operand(Bool, Truth(Holds(op, expr.v, r.v)), CInt,
                     Truth(Holds(op, expr.n, r.n)), expr.clean))
  BY DEF Connective
<1>3. Faithful(Operand(Bool, Truth(Holds(op, expr.v, r.v)), CInt,
                 Truth(Holds(op, expr.n, r.n)), expr.clean))
  <2>1. Holds(op, expr.v, r.v) \in BOOLEAN /\ r.n = r.v
    <3>1. expr.v \in Int /\ r.v \in Int /\ r.n = r.v
      BY <1>1, LeafOf DEF Faithful
    <3> QED
      BY <3>1, HoldsBoolean
  <2>2. Truth(Holds(op, expr.v, r.v)) \in {0, 1}
        /\ Truth(Holds(op, expr.v, r.v)) \in Values(CInt)
    BY <2>1, TruthInt
  <2>3. expr.clean \in BOOLEAN
    BY <1>1 DEF Faithful
  <2> QED
    BY <1>1, <2>1, <2>2, <2>3, ScalarTypes, Boolean
<1> QED
  BY <1>1, <1>2, <1>3, Emitted

LEMMA UnaryStep ==
  ASSUME Careful, Inv, Unary
  PROVE  Inv'
<1>1. Growing /\ expr.n # Undefined /\ Faithful(expr) /\ expr.t \in P4Types
  BY DEF Unary, Growing, Inv, Faithful
<1>2. ASSUME expr.t # Bool, NEW op \in {"~", "-"},
             LET P4(x) == IF op = "~" THEN -1 - x ELSE -x
             IN  Emit(expr.t, Operand(expr.t, Wrap(expr.t, P4(expr.v)), Promote(expr.c),
                   InC(Promote(expr.c), P4(expr.n)), Promote(expr.c) = expr.t))
      PROVE  Inv'
  <2> DEFINE P4(x) == IF op = "~" THEN -1 - x ELSE -x
             e == Operand(expr.t, Wrap(expr.t, P4(expr.v)), Promote(expr.c),
                    InC(Promote(expr.c), P4(expr.n)), Promote(expr.c) = expr.t)
  <2>1. ASSUME expr.t.w <= Word PROVE Faithful(e)
    <3>1. PICK v \in Int, n \in Int, m \in Int :
            v = expr.v /\ n = expr.n /\ m = Power[expr.t.w] /\ Congruents(n, v, m)
      BY <1>1, <1>2, <2>1, NarrowParts, Range
    <3>2. ASSUME NEW a \in Int PROVE Congruents(a - n, a - v, m)
      BY <3>1, CongruentsRefl, CongruentsAdd
    <3>3. /\ Congruents(-1 - n, -1 - v, m) /\ Congruents(0 - n, 0 - v, m)
          /\ 0 - n = -n /\ 0 - v = -v
      <4>1. -1 \in Int /\ 0 \in Int
        OBVIOUS
      <4>2. Congruents(-1 - n, -1 - v, m)
        BY <3>2, <4>1, Zenon
      <4>3. Congruents(0 - n, 0 - v, m)
        BY <3>2, <4>1, Zenon
      <4> QED
        BY <4>2, <4>3
    <3>4. P4(expr.v) \in Int /\ P4(expr.n) \in Int
          /\ Congruents(P4(expr.n), P4(expr.v), Power[expr.t.w])
      BY <3>1, <3>3
    <3> HIDE DEF P4
    <3> QED
      BY <1>1, <1>2, <2>1, <3>4, UnaryFaithful
  <2>2. Emit(expr.t, e)
    BY <1>2
  <2> HIDE DEF e
  <2> QED
    BY <1>1, <1>2, <2>1, <2>2, Emitted
<1>3. ASSUME expr.t = Bool, Observed(expr),
             Emit(Bool, Operand(Bool, Truth(expr.v = 0), CInt, Truth(expr.n = 0), expr.clean))
      PROVE  Inv'
  <2>1. expr.n = expr.v /\ expr.clean \in BOOLEAN
    BY <1>1, <1>3, CleanObserved DEF Faithful
  <2>2. Truth(expr.v = 0) \in {0, 1} /\ Truth(expr.v = 0) \in Values(CInt)
    BY TruthInt
  <2>3. Faithful(Operand(Bool, Truth(expr.v = 0), CInt, Truth(expr.n = 0), expr.clean))
    BY <2>1, <2>2, ScalarTypes, Boolean
  <2> QED
    BY <1>1, <1>3, <2>3, Emitted
<1> QED
  BY <1>2, <1>3 DEF Unary

LEMMA CastStep ==
  ASSUME Careful, Inv, Cast
  PROVE  Inv'
<1>1. Growing /\ expr.t # Bool /\ expr.n # Undefined /\ Faithful(expr)
  BY DEF Cast, Growing, Inv
<1>2. PICK d \in {l.t : l \in Leaves} \ {Bool} :
        /\ d.w = expr.t.w \/ d.s = expr.t.s
        /\ d.w > expr.t.w \/ expr.c = Array => Observed(expr)
        /\ \E n \in Numbers(expr) :
             Emit(d, Operand(d, Wrap(d, expr.v), CType(d), Wrap(CType(d), n), CleanCast(expr, d)))
  BY DEF Cast
<1>3. expr.c # Array /\ Numbers(expr) = {expr.n} /\ (d.w > expr.t.w => expr.clean)
  BY <1>2, CleanObserved DEF Numbers
<1>4. d \in P4Types /\ d \in Types
  <2>1. PICK l \in Leaves : d = l.t
    OBVIOUS
  <2>2. d \in P4Types
    BY <2>1, LeafFaithful DEF Faithful
  <2> QED
    BY <2>2, P4Type
<1>5. Emit(d, Operand(d, Wrap(d, expr.v), CType(d), Wrap(CType(d), expr.n), CleanCast(expr, d)))
  BY <1>2, <1>3
<1>6. d = Bool \/ d.w <= Word =>
        Faithful(Operand(d, Wrap(d, expr.v), CType(d), Wrap(CType(d), expr.n), CleanCast(expr, d)))
  BY <1>1, <1>2, <1>3, <1>4, CastFaithful
<1> QED
  BY <1>1, <1>4, <1>5, <1>6, Emitted

\* For both kinds of comparison by an operator of C.
LEMMA ComparisonStep ==
  ASSUME Careful, Inv, Growing, Observed(expr),
         NEW op \in Equalities \cup Orders, NEW r \in LeavesOf(expr.t), r.c # Array,
         NEW e \in Compared(op, expr, r), Emit(Bool, e)
  PROVE  Inv'
<1>1. Faithful(expr) /\ expr.n # Undefined /\ expr.clean /\ expr.c # Array
  BY CleanObserved DEF Growing, Inv
<1>2. \A x, y \in Int : Holds(op, x, y) \in BOOLEAN
  BY HoldsBoolean
<1>3. Faithful(r) /\ r.t = expr.t /\ r.n # Undefined /\ r.clean
  BY LeafOf
<1>4. Faithful(e)
  BY <1>1, <1>2, <1>3, ComparedFaithful
<1>5. Bool \in P4Types
  BY DEF P4Types
<1> QED
  BY <1>4, <1>5, Emitted

LEMMA OrderStep ==
  ASSUME Careful, Inv, Order
  PROVE  Inv'
<1>1. PICK op \in Orders, r \in LeavesOf(expr.t) :
        Observed(r) /\ \E e \in Compared(op, expr, r) : Emit(Bool, e)
  BY DEF Order
<1>2. Growing /\ Observed(expr) /\ r.c # Array
  BY <1>1, CleanObserved DEF Order
<1> QED
  BY <1>1, <1>2, ComparisonStep

LEMMA EqualityStep ==
  ASSUME Careful, Inv, Equality
  PROVE  Inv'
<1>1. PICK op \in Equalities, r \in LeavesOf(expr.t) :
        \E e \in Compared(op, expr, r) : Emit(Bool, e)
  BY DEF Equality
<1>2. r.c # Array
  BY LeafOf DEF Equality, Scalar, Faithful
<1>3. Growing /\ Observed(expr)
  BY DEF Equality
<1> QED
  BY <1>1, <1>2, <1>3, ComparisonStep

LEMMA MemCompareStep ==
  ASSUME Inv, MemCompare
  PROVE  Inv'
<1>1. PICK op \in Equalities, r \in LeavesOf(expr.t) :
        Emit(Bool, Operand(Bool, Truth(Holds(op, expr.v, r.v)), CInt,
                     Truth(expr.v # r.v), FALSE))
  BY DEF MemCompare
<1>2. /\ Truth(Holds(op, expr.v, r.v)) \in {0, 1}
      /\ Truth(expr.v # r.v) \in {0, 1} /\ Truth(expr.v # r.v) \in Values(CInt)
  <2>1. Holds(op, expr.v, r.v) \in BOOLEAN
    <3>1. expr.v \in Int /\ r.v \in Int
      BY LeafOf, P4Type DEF Inv, Faithful
    <3> QED
      BY <3>1, HoldsBoolean
  <2>2. (expr.v # r.v) \in BOOLEAN
    OBVIOUS
  <2> QED
    BY <2>1, <2>2, TruthInt
<1>3. Faithful(Operand(Bool, Truth(Holds(op, expr.v, r.v)), CInt, Truth(expr.v # r.v), FALSE))
  BY <1>2, ScalarTypes, Boolean
<1>4. Growing /\ Bool \in P4Types
  BY DEF MemCompare, P4Types
<1> QED
  BY <1>1, <1>3, <1>4, Emitted

LEMMA MuxConditionStep ==
  ASSUME Careful, Inv, MuxCondition
  PROVE  Inv'
<1>1. /\ Growing /\ Faithful(expr) /\ expr.clean /\ expr.n # Undefined
      /\ expr.n = expr.v
  BY CleanObserved DEF MuxCondition, Growing, Inv, Faithful
<1>2. PICK l \in Leaves : \E r \in LeavesOf(l.t) : Emit(l.t, Choice(expr, l, r))
  BY DEF MuxCondition
<1>3. PICK r \in LeavesOf(l.t) : Emit(l.t, Choice(expr, l, r))
  BY <1>2
<1>4. Faithful(l) /\ l.n # Undefined /\ Faithful(r) /\ r.t = l.t /\ r.n # Undefined
      /\ l.t \in P4Types
  BY LeafFaithful, LeafOf DEF Faithful
<1>5. l.t = Bool \/ l.t.w <= Word => Faithful(Choice(expr, l, r))
  BY <1>1, <1>4, ChoiceFaithful
<1> QED
  BY <1>1, <1>3, <1>4, <1>5, Emitted

LEMMA MuxBranchStep ==
  ASSUME Inv, MuxBranch
  PROVE  Inv'
<1>1. Growing /\ Faithful(expr) /\ expr.n # Undefined /\ expr.t \in P4Types
  BY DEF MuxBranch, Growing, Inv, Faithful
<1>2. PICK c \in LeavesOf(Bool), r \in LeavesOf(expr.t) : Emit(expr.t, Choice(c, expr, r))
  BY DEF MuxBranch
<1>3. c.n = c.v /\ Faithful(r) /\ r.t = expr.t /\ r.n # Undefined
  BY LeafOf
<1>4. expr.t = Bool \/ expr.t.w <= Word => Faithful(Choice(c, expr, r))
  BY <1>1, <1>3, ChoiceFaithful
<1> QED
  BY <1>1, <1>2, <1>4, Emitted

LEMMA AssignmentStep ==
  ASSUME Inv, Assignment
  PROVE  Inv'
<1>1. Faithful(expr) /\ expr.n # Undefined /\ status = "growing"
  BY DEF Assignment, Growing, Inv
<1>2. /\ expr' = LET c == CType(expr.t)
                 IN  Stored(expr.t, expr.v, IF c = Array THEN expr.n ELSE Wrap(c, expr.n),
                            expr.clean \/ c = expr.t)
      /\ status' = status
  BY DEF Assignment
<1>3. Faithful(expr')
  BY <1>1, <1>2, AssignmentFaithful
<1> QED
  BY <1>1, <1>2, <1>3 DEF Inv, RejectsOrExact

LEMMA UseStep ==
  ASSUME Careful, Inv, Use
  PROVE  Inv'
<1>1. expr.clean /\ expr.n # Undefined /\ Faithful(expr)
  BY CleanObserved DEF Use, Growing, Inv
<1>2. expr.n = expr.v
  BY <1>1 DEF Faithful
<1> QED
  BY <1>1, <1>2 DEF Use, Inv, RejectsOrExact

-----------------------------------------------------------------------------
(* Theorems                                                                *)

LEMMA Invariance ==
  ASSUME Careful
  PROVE  Spec => []Inv
<1>1. Init => Inv
  BY LeafFaithful DEF Init, Inv, RejectsOrExact
<1>2. Inv /\ [Next]_vars => Inv'
  <2>1. SUFFICES ASSUME Inv, Next PROVE Inv'
    BY DEF Inv, vars, RejectsOrExact
  <2> QED
    BY <2>1, BinaryStep, ShiftStep, ConnectiveStep, UnaryStep, CastStep, OrderStep,
       EqualityStep, MemCompareStep, MuxConditionStep, MuxBranchStep, AssignmentStep,
       UseStep DEF Next
<1> QED
  BY <1>1, <1>2, PTL DEF Spec

\* Whatever CodeGenInspector emits for a careful program, the value P4 gives it
\* is one of its P4 type and what C computes is one of its C type.
THEOREM TypeCorrect ==
  ASSUME Careful
  PROVE  Spec => []TypeOK
<1>1. Inv => TypeOK
  <2>1. SUFFICES ASSUME Inv PROVE TypeOK
    OBVIOUS
  <2>2. Faithful(expr) /\ expr.t \in P4Types
    BY <2>1 DEF Inv, Faithful
  <2>3. expr.t \in [w : Nat, s : BOOLEAN]
    BY <2>2, P4Type
  <2>4. expr.c \in [w : Nat, s : BOOLEAN]
    <3>1. Array \in [w : Nat, s : BOOLEAN]
      BY DEF Array, TypeOf
    <3> QED
      BY <2>2, <3>1, ScalarTypes, TypeParts DEF Faithful
  <2>5. ASSUME expr.t # Bool, expr.c # Array
        PROVE  /\ Wrap(expr.t, expr.v) = expr.v
               /\ expr.n = Undefined \/ Wrap(expr.c, expr.n) = expr.n
    <3>1. expr.t \in Types /\ expr.v \in Values(expr.t)
      BY <2>2, <2>5, P4Type DEF Faithful
    <3>2. expr.c \in Types /\ (expr.n # Undefined => expr.n \in Values(expr.c))
      BY <2>2, <2>5, ScalarTypes DEF Faithful
    <3> QED
      BY <3>1, <3>2, WrapId
  <2>6. expr.clean \in BOOLEAN /\ expr.var \in BOOLEAN
    BY <2>2 DEF Faithful
  <2> QED
    BY <2>1, <2>3, <2>4, <2>5, <2>6 DEF Inv, TypeOK
<1> QED
  BY <1>1, Invariance, PTL

\* In a program that keeps to the rule a clean expression has in C the value
\* it has in P4, whatever the chain of operations that led to it.
THEOREM CleanIsExact ==
  ASSUME Careful
  PROVE  Spec => []CleanExact
<1>1. Inv => CleanExact
  BY DEF Inv, Faithful, CleanExact
<1> QED
  BY <1>1, Invariance, PTL

\* And every other expression that is accepted differs from its P4 value by a
\* multiple of 2^w.
THEOREM AcceptedIsCongruent ==
  ASSUME Careful
  PROVE  Spec => []Congruent
<1>1. Inv => Congruent
  <2>1. SUFFICES ASSUME Inv, expr.t # Bool, expr.n # Undefined
                 PROVE  (expr.n - expr.v) % Power[expr.t.w] = 0
    BY DEF Congruent
  <2>2. /\ expr.t \in Types /\ expr.v \in Int /\ expr.n \in Int
        /\ Congruents(expr.n, expr.v, Power[expr.t.w])
    BY <2>1, P4Type DEF Inv, Faithful
  <2> QED
    BY <2>2, Range, CongruentsZero
<1> QED
  BY <1>1, Invariance, PTL

\* So a key, an amount to advance by and a condition have in C the value they
\* have in P4.
THEOREM UsedIsExact ==
  ASSUME Careful
  PROVE  Spec => []RejectsOrExact
<1>1. Inv => RejectsOrExact
  BY DEF Inv
<1> QED
  BY <1>1, Invariance, PTL
=============================================================================
