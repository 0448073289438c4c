--------------------------- MODULE FieldLoadProofs ---------------------------
(***************************************************************************)
(* Proofs about the loads the backend emits, for headers of any layout and *)
(* hosts of either byte order: exactly which fields and lookaheads have    *)
(* the value P4 gives them, which bytes a field that fits its load is read *)
(* from, and that the members declared hold what is stored.                *)
(***************************************************************************)
EXTENDS FieldLoad, TLAPS

-----------------------------------------------------------------------------
(* One load                                                                *)

\* Loading n bits and swapping them to the host's order, whichever it is,
\* puts the packet's bits in the order of their weight.
LEMMA HostOrder ==
  ASSUME endian \in {"little", "big"}, NEW b \in Nat, NEW n \in {8, 16, 32},
         NEW k \in Bits
  PROVE  ToHost(Load(b, n), n)[k] = IF k < n THEN 8 * b + n - 1 - k ELSE Zero
<1>1. k \in Nat /\ k < 32
  BY DEF Bits
<1>2. Load(b, n)[k] =
        IF k >= n THEN Zero
        ELSE 8 * (b + (IF endian = "little" THEN k \div 8 ELSE (n - 1 - k) \div 8))
             + (7 - (k % 8))
  BY DEF Load
<1>3. CASE k >= n
  BY <1>1, <1>2, <1>3 DEF ToHost, Low
<1>4. CASE k < n /\ (endian = "big" \/ n = 8)
  <2>1. ToHost(Load(b, n), n)[k] = Load(b, n)[k]
    BY <1>4 DEF ToHost, Low
  <2>2. n = 8 => k \div 8 = 0 /\ (n - 1 - k) \div 8 = 0 /\ k % 8 = k
    BY <1>1, <1>4
  <2>3. 8 * ((n - 1 - k) \div 8) + (7 - (k % 8)) = n - 1 - k
    BY <1>1, <1>4
  <2> QED
    BY <1>1, <1>2, <1>4, <2>1, <2>2, <2>3
<1>5. CASE k < n /\ endian = "little" /\ n # 8
  <2>1. PICK j \in Bits : j = 8 * ((n - 1 - k) \div 8) + (k % 8)
    BY <1>1, <1>5 DEF Bits
  <2>2. j \in Nat /\ j < n /\ j \div 8 = (n - 1 - k) \div 8 /\ j % 8 = k % 8
    BY <1>1, <1>5, <2>1
  <2>3. ToHost(Load(b, n), n)[k] = Load(b, n)[j]
    BY <1>5, <2>1 DEF ToHost
  <2>4. Load(b, n)[j] = 8 * (b + j \div 8) + (7 - (j % 8))
    BY <1>5, <2>1, <2>2 DEF Load
  <2>5. Load(b, n)[j] = 8 * b + (j + (7 - 2 * (j % 8)))
    BY <2>2, <2>4
  <2>6. j + (7 - 2 * (j % 8)) = n - 1 - k
    BY <1>1, <1>5, <2>1, <2>2
  <2> QED
    BY <1>1, <1>5, <2>3, <2>5, <2>6
<1> QED
  BY <1>1, <1>3, <1>4, <1>5

\* A load has no bit of a weight it has not loaded.
LEMMA LowLoad ==
  ASSUME NEW b \in Nat, NEW n \in {8, 16, 32}
  PROVE  Low(Load(b, n), n) = Load(b, n)
<1>1. ASSUME NEW k \in Bits PROVE Low(Load(b, n), n)[k] = Load(b, n)[k]
  <2>1. k \in Nat
    BY DEF Bits
  <2>2. CASE k < n
    BY <2>2 DEF Low
  <2>3. CASE k >= n
    BY <2>1, <2>3 DEF Low, Load
  <2> QED
    BY <2>1, <2>2, <2>3
<1>2. Low(Load(b, n), n) = [k \in Bits |-> Low(Load(b, n), n)[k]]
  BY DEF Low
<1>3. Load(b, n) = [k \in Bits |-> Load(b, n)[k]]
  BY DEF Load
<1> QED
  BY <1>1, <1>2, <1>3

\* The load chosen for a field that does not cross its boundary is as wide as
\* the type the field is stored in.
LEMMA StraightLoad ==
  ASSUME NEW a \in 0 .. 7, NEW w \in 1 .. 32, Straight(a, w)
  PROVE  /\ LoadSize(a, w) \in {8, 16, 32} /\ TypeWidth(w) = LoadSize(a, w)
         /\ a + w <= LoadSize(a, w) /\ w <= LoadSize(a, w)
  BY DEF Straight, LoadSize, TypeWidth

\* Such a field of at most 32 bits gets the value P4 gives it.
LEMMA ScalarExact ==
  ASSUME endian \in {"little", "big"}, NEW a \in 0 .. 7, NEW w \in 1 .. 32,
         NEW b \in Nat, Straight(a, w)
  PROVE  Scalar(a, w, b) = Reference(8 * b + a, w)
<1>1. PICK n \in {8, 16, 32} :
        n = LoadSize(a, w) /\ TypeWidth(w) = n /\ a + w <= n
  BY StraightLoad
<1>2. PICK shift \in 0 .. 31 : shift = n - a - w /\ ~(shift < 0)
  BY <1>1
<1> DEFINE whole == ToHost(Low(Load(b, n), n), n)
<1>3. Low(Load(b, n), n) = Load(b, n)
  BY LowLoad
<1>4. \A k \in Bits : whole[k] = IF k < n THEN 8 * b + n - 1 - k ELSE Zero
  BY <1>3, HostOrder
<1> HIDE DEF whole
<1>5. ASSUME NEW k \in Bits
      PROVE  ShiftRight(whole, shift)[k] =
               IF k < n - shift THEN 8 * b + n - 1 - shift - k ELSE Zero
  <2>1. CASE k + shift \in Bits
    <3>1. ShiftRight(whole, shift)[k] = whole[k + shift]
      BY <2>1 DEF ShiftRight
    <3>2. k \in Nat /\ shift \in Nat /\ n \in Nat
      BY DEF Bits
    <3>3. whole[k + shift] =
            IF k + shift < n THEN 8 * b + n - 1 - (k + shift) ELSE Zero
      BY <1>4, <2>1
    <3> QED
      BY <3>1, <3>2, <3>3
  <2>2. CASE k + shift \notin Bits
    BY <1>1, <1>2, <2>2 DEF ShiftRight, Bits
  <2> QED
    BY <2>1, <2>2
<1>6. Scalar(a, w, b) =
        IF w = n THEN Low(ShiftRight(whole, shift), n)
        ELSE Low(ShiftRight(whole, shift), w)
  BY <1>1, <1>2 DEF Scalar, whole
<1>7. Scalar(a, w, b) = Low(ShiftRight(whole, shift), w)
  BY <1>6
<1>8. \A k \in Bits :
        Low(ShiftRight(whole, shift), w)[k] = Reference(8 * b + a, w)[k]
  <2> TAKE k \in Bits
  <2>1. k \in Nat
    BY DEF Bits
  <2>2. n \in Nat
    BY <1>1
  <2>3. shift \in Nat
    BY <1>2
  <2>4. n = shift + a + w
    BY <1>1, <1>2
  <2> QED
    BY <1>5, <2>1, <2>2, <2>3, <2>4 DEF Low, Reference
<1> QED
  BY <1>7, <1>8 DEF Low, Reference

\* A lookahead masks before it swaps, which is the same for a load it fills
\* and for one that is not swapped.
LEMMA LookaheadExact ==
  ASSUME endian \in {"little", "big"}, NEW w \in 1 .. 8 \cup {16, 32},
         NEW b \in Nat
  PROVE  LookaheadValue(w, b) = Reference(8 * b, w)
<1>1. CASE w \in {16, 32}
  <2>1. LoadSize(0, w) = w /\ TypeWidth(w) = w
    BY <1>1 DEF LoadSize, TypeWidth
  <2>2. Low(ShiftRight(Load(b, w), w - 0 - w), w) = Load(b, w)
    BY <1>1 DEF Low, ShiftRight, Load, Bits
  <2>3. LookaheadValue(w, b) = Low(ToHost(Load(b, w), w), w)
    BY <1>1, <2>1, <2>2 DEF LookaheadValue, MaskFirst
  <2>4. \A k \in Bits :
          Low(ToHost(Load(b, w), w), w)[k] = Reference(8 * b, w)[k]
    BY <1>1, HostOrder DEF Low, Reference, Bits
  <2> QED
    BY <2>3, <2>4 DEF Low, Reference
<1>2. CASE w \in 1 .. 8
  <2>1. LoadSize(0, w) = 8 /\ TypeWidth(w) = 8
    BY <1>2 DEF LoadSize, TypeWidth
  <2>2. PICK shift \in 0 .. 7 : shift = 8 - 0 - w /\ ~(shift < 0)
    BY <1>2
  <2> DEFINE whole == Low(ShiftRight(Load(b, 8), shift), w)
  <2>3. LookaheadValue(w, b) = Low(Low(whole, 8), 8)
    BY <2>1, <2>2 DEF LookaheadValue, MaskFirst, ToHost
  <2>4. \A k \in Bits : ToHost(Load(b, 8), 8)[k] = Load(b, 8)[k]
    BY LowLoad DEF ToHost
  <2>5. \A k \in Bits :
          Load(b, 8)[k] = IF k < 8 THEN 8 * b + 8 - 1 - k ELSE Zero
    BY <2>4, HostOrder
  <2>6. \A k \in Bits : whole[k] = Reference(8 * b, w)[k]
    BY <1>2, <2>2, <2>5 DEF Low, ShiftRight, Reference, Bits
  <2> HIDE DEF whole
  <2>7. \A k \in Bits : Low(Low(whole, 8), 8)[k] = Reference(8 * b, w)[k]
    BY <1>2, <2>6 DEF Low, Reference, Bits
  <2> QED
    BY <2>3, <2>7 DEF Low, Reference
<1> QED
  BY <1>1, <1>2

\* On a big endian host there is nothing to swap.
LEMMA LookaheadBigExact ==
  ASSUME endian = "big", NEW w \in 1 .. 32, NEW b \in Nat
  PROVE  LookaheadValue(w, b) = Reference(8 * b, w)
<1>1. Straight(0, w)
  BY DEF Straight
<1>2. PICK n \in {8, 16, 32} : n = LoadSize(0, w) /\ TypeWidth(w) = n /\ w <= n
  BY <1>1, StraightLoad
<1>3. PICK shift \in 0 .. 31 : shift = n - 0 - w /\ ~(shift < 0)
  BY <1>2
<1> DEFINE whole == Low(ShiftRight(Load(b, n), shift), w)
<1>4. LookaheadValue(w, b) = Low(Low(whole, n), n)
  BY <1>2, <1>3 DEF LookaheadValue, MaskFirst, ToHost
<1>5. \A k \in Bits : Load(b, n)[k] = IF k < n THEN 8 * b + n - 1 - k ELSE Zero
  <2>1. ToHost(Load(b, n), n) = Load(b, n)
    BY LowLoad DEF ToHost
  <2> QED
    BY <2>1, HostOrder
<1>6. ASSUME NEW k \in Bits, k < w PROVE whole[k] = 8 * b + w - 1 - k
  <2>1. k \in Nat /\ shift \in Nat
    BY <1>3 DEF Bits
  <2>2. n \in Nat /\ n <= 32
    BY <1>2
  <2>3. n = shift + w
    BY <1>2, <1>3
  <2>4. k + shift \in Bits /\ k + shift < n
    BY <1>6, <2>1, <2>2, <2>3 DEF Bits
  <2>5. whole[k] = Load(b, n)[k + shift]
    BY <1>6, <2>4 DEF Low, ShiftRight
  <2> QED
    BY <1>5, <2>1, <2>2, <2>3, <2>4, <2>5
<1>7. \A k \in Bits : ~(k < w) => whole[k] = Zero
  BY DEF Low
<1> HIDE DEF whole
<1>8. \A k \in Bits : Low(Low(whole, n), n)[k] = Reference(8 * b, w)[k]
  <2> TAKE k \in Bits
  <2>1. k \in Nat
    BY DEF Bits
  <2>2. CASE k < w
    BY <1>2, <1>6, <2>1, <2>2 DEF Low, Reference
  <2>3. CASE ~(k < w)
    BY <1>7, <2>3 DEF Low, Reference
  <2> QED
    BY <2>2, <2>3
<1> QED
  BY <1>4, <1>8 DEF Low, Reference

\* A wider field of whole bytes gets them one by one, when it is aligned.
LEMMA ArrayExact ==
  ASSUME endian \in {"little", "big"}, NEW w \in Nat, w > 32, w % 8 = 0,
         NEW b \in Nat
  PROVE  Array(0, w, b) = ReferenceArray(8 * b, w)
<1>1. (w + 7) \div 8 = w \div 8 /\ w \div 8 \in Nat
  OBVIOUS
<1>2. ASSUME NEW i \in 0 .. w \div 8 - 1
      PROVE  ArrayByte(0, w, b, i) = Reference(8 * b + 8 * i, 8)
  <2>1. b + i \in Nat
    OBVIOUS
  <2>2. ArrayByte(0, w, b, i) = Low(Load(b + i, 8), 8)
    BY DEF ArrayByte
  <2>3. \A k \in Bits :
          ToHost(Load(b + i, 8), 8)[k] = Low(Load(b + i, 8), 8)[k]
    BY DEF ToHost
  <2>4. \A k \in Bits :
          Low(Load(b + i, 8), 8)[k] =
            IF k < 8 THEN 8 * (b + i) + 8 - 1 - k ELSE Zero
    BY <2>1, <2>3, HostOrder
  <2>5. \A k \in Bits :
          Low(Load(b + i, 8), 8)[k] = Reference(8 * b + 8 * i, 8)[k]
    BY <2>4 DEF Reference, Bits
  <2> QED
    BY <2>2, <2>5 DEF Low, Reference
<1> QED
  BY <1>1, <1>2 DEF Array, ReferenceArray

\* On a big endian host, whose halves need no swap, also when it is not.
LEMMA ArrayBigExact ==
  ASSUME endian = "big", NEW a \in 1 .. 7, NEW w \in Nat, w > 32, w % 8 = 0,
         NEW b \in Nat
  PROVE  Array(a, w, b) = ReferenceArray(8 * b + a, w)
<1>1. (w + 7) \div 8 = w \div 8 /\ w \div 8 \in Nat
  OBVIOUS
<1>2. ASSUME NEW i \in 0 .. w \div 8 - 1
      PROVE  ArrayByte(a, w, b, i) = Reference(8 * b + a + 8 * i, 8)
  <2>1. b + i \in Nat
    OBVIOUS
  <2>2. PICK shift \in 1 .. 7 : shift = 8 - a
    OBVIOUS
  <2> DEFINE byte == ShiftRight(Load(b + i, 16), shift)
  <2>3. ArrayByte(a, w, b, i) = Low(byte, 8)
    BY <2>2 DEF ArrayByte
  <2>4. \A k \in Bits : Load(b + i, 16)[k] = ToHost(Load(b + i, 16), 16)[k]
    BY <2>1, LowLoad DEF ToHost
  <2>5. \A k \in Bits :
          Load(b + i, 16)[k] = IF k < 16 THEN 8 * (b + i) + 16 - 1 - k ELSE Zero
    BY <2>1, <2>4, HostOrder
  <2>6. ASSUME NEW k \in Bits, k < 8
        PROVE  byte[k] = 8 * (b + i) + 15 - (k + shift)
    <3>1. k + shift \in Bits /\ k + shift < 16 /\ k \in Nat
      BY <2>6 DEF Bits
    <3>2. byte[k] = Load(b + i, 16)[k + shift]
      BY <3>1 DEF ShiftRight
    <3> QED
      BY <2>1, <2>5, <3>1, <3>2
  <2> HIDE DEF byte
  <2>7. \A k \in Bits : Low(byte, 8)[k] = Reference(8 * b + a + 8 * i, 8)[k]
    <3> TAKE k \in Bits
    <3>1. k \in Nat
      BY DEF Bits
    <3>2. CASE k < 8
      BY <2>2, <2>6, <3>1, <3>2 DEF Low, Reference
    <3>3. CASE k >= 8
      BY <3>1, <3>3 DEF Low, Reference
    <3> QED
      BY <3>1, <3>2, <3>3
  <2> QED
    BY <2>3, <2>7 DEF Low, Reference
<1> QED
  BY <1>1, <1>2 DEF Array, ReferenceArray

-----------------------------------------------------------------------------
(* What the loads lose                                                     *)

\* A field of at most 32 bits that crosses the boundary of its load lacks at
\* least one of its bits.
LEMMA ScalarLoses ==
  ASSUME endian \in {"little", "big"}, NEW a \in 0 .. 7, NEW w \in 1 .. 32,
         NEW b \in Nat, ~Straight(a, w)
  PROVE  Scalar(a, w, b) # Reference(8 * b + a, w)
<1>1. CASE w > 8
  <2>1. LoadSize(a, w) - a - w < 0
    BY <1>1 DEF Straight, LoadSize
  <2>2. Scalar(a, w, b) = Undefined
    BY <2>1 DEF Scalar
  <2>3. 0 \in Bits /\ Undefined[0] = -2
    BY DEF Undefined, Bits
  <2>4. Reference(8 * b + a, w)[0] = 8 * b + a + w - 1
    BY <1>1, <2>3 DEF Reference, Zero
  <2>5. 8 * b + a + w - 1 >= 0
    OBVIOUS
  <2> QED
    BY <2>2, <2>3, <2>4, <2>5
<1>2. CASE w <= 8
  <2>1. /\ a + w > 8 /\ LoadSize(a, w) = 16 /\ TypeWidth(w) = 8 /\ w # 16
    BY <1>2 DEF Straight, LoadSize, TypeWidth
  <2>2. PICK shift \in 1 .. 7 : shift = 16 - a - w /\ ~(shift < 0)
    BY <1>2, <2>1
  <2> DEFINE whole == ToHost(Low(Load(b, 16), 8), 16)
  <2>3. Scalar(a, w, b) = Low(ShiftRight(whole, shift), w)
    BY <2>1, <2>2 DEF Scalar
  <2>4. ASSUME NEW k \in Bits, k < w, k + shift < 16, whole[k + shift] = Zero
        PROVE  Scalar(a, w, b) # Reference(8 * b + a, w)
    <3>1. k \in Nat /\ k + shift \in Bits
      BY <2>4 DEF Bits
    <3>2. Scalar(a, w, b)[k] = Zero
      BY <2>3, <2>4, <3>1 DEF Low, ShiftRight
    <3>3. Reference(8 * b + a, w)[k] = 8 * b + a + w - 1 - k
      BY <2>4 DEF Reference
    <3>4. 8 * b + a + w - 1 - k >= 0
      BY <2>4, <3>1
    <3> QED
      BY <3>2, <3>3, <3>4 DEF Zero
  <2>5. CASE endian = "little"
    <3>1. 0 \in Bits /\ shift \in Bits /\ 8 + shift \in Bits /\ shift < 16
      BY DEF Bits
    <3>2. 8 * ((16 - 1 - shift) \div 8) + (shift % 8) = 8 + shift
      OBVIOUS
    <3>3. whole[shift] = Low(Load(b, 16), 8)[8 + shift]
      BY <2>5, <3>1, <3>2 DEF ToHost
    <3>4. whole[0 + shift] = Zero
      BY <3>1, <3>3 DEF Low
    <3> QED
      BY <2>4, <3>1, <3>4
  <2>6. CASE endian = "big"
    <3>1. PICK k \in 0 .. 7 : k = w - 1
      BY <1>2
    <3>2. k \in Bits /\ k + shift \in Bits /\ k + shift = 15 - a
      BY <2>2, <3>1 DEF Bits
    <3>3. whole[k + shift] = Low(Load(b, 16), 8)[k + shift]
      BY <2>6, <3>2 DEF ToHost, Low
    <3>4. whole[k + shift] = Zero
      BY <3>2, <3>3 DEF Low
    <3> QED
      BY <2>4, <3>1, <3>2, <3>4
  <2> QED
    BY <2>5, <2>6
<1> QED
  BY <1>1, <1>2

\* Between a byte and a word, the bits a lookahead has masked are swapped to
\* where its value has some.
LEMMA LookaheadLoses ==
  ASSUME endian = "little", NEW w \in 1 .. 32, w \notin 1 .. 8 \cup {16, 32},
         NEW b \in Nat
  PROVE  LookaheadValue(w, b) # Reference(8 * b, w)
<1>1. PICK n \in {16, 32} :
        n = LoadSize(0, w) /\ TypeWidth(w) = n /\ w < n /\ 8 < w /\ n - 16 < w
  BY DEF LoadSize, TypeWidth
<1>2. PICK shift \in 1 .. 15 : shift = n - 0 - w /\ ~(shift < 0)
  BY <1>1
<1> DEFINE whole == Low(ShiftRight(Load(b, n), shift), w)
<1>3. LookaheadValue(w, b) = Low(ToHost(whole, n), n)
  BY <1>1, <1>2 DEF LookaheadValue, MaskFirst
<1>4. 7 \in Bits /\ n - 1 \in Bits /\ n - 1 >= w
  BY <1>1 DEF Bits
<1>5. 8 * ((n - 1 - 7) \div 8) + (7 % 8) = n - 1
  OBVIOUS
<1>6. ToHost(whole, n)[7] = whole[n - 1]
  BY <1>1, <1>4, <1>5 DEF ToHost
<1>7. whole[n - 1] = Zero
  BY <1>4 DEF Low
<1>8. LookaheadValue(w, b)[7] = Zero
  BY <1>1, <1>3, <1>4, <1>6, <1>7 DEF Low
<1>9. Reference(8 * b, w)[7] = 8 * b + w - 1 - 7
  BY <1>1, <1>4 DEF Reference, Zero
<1>10. 8 * b + w - 1 - 7 >= 0
  BY <1>1
<1> QED
  BY <1>8, <1>9, <1>10 DEF Zero

\* An array whose last byte is not full has a byte more than it should, and
\* one that is not aligned has its halves the wrong way round.
LEMMA ArrayLoses ==
  ASSUME endian \in {"little", "big"}, NEW a \in 0 .. 7, NEW w \in Nat, w > 32,
         NEW b \in Nat, ~Straight(a, w)
  PROVE  Array(a, w, b) # ReferenceArray(8 * b + a, w)
<1>1. CASE w % 8 # 0
  <2>1. (w + 7) \div 8 = w \div 8 + 1 /\ w \div 8 \in Nat
    BY <1>1
  <2>2. w \div 8 \in DOMAIN Array(a, w, b)
        /\ w \div 8 \notin DOMAIN ReferenceArray(8 * b + a, w)
    BY <2>1 DEF Array, ReferenceArray
  <2> QED
    BY <2>2
<1>2. CASE w % 8 = 0
  <2>1. a # 0 /\ endian = "little"
    BY <1>2 DEF Straight
  <2>2. PICK shift \in 1 .. 7 : shift = 8 - a
    BY <2>1
  <2>3. (w + 7) \div 8 = w \div 8 /\ 0 \in 0 .. w \div 8 - 1
    BY <1>2
  <2>4. /\ Array(a, w, b)[0] = ArrayByte(a, w, b, 0)
        /\ ReferenceArray(8 * b + a, w)[0] = Reference(8 * b + a + 8 * 0, 8)
    BY <2>3 DEF Array, ReferenceArray
  <2>5. ArrayByte(a, w, b, 0) = Low(ShiftRight(Load(b + 0, 16), shift), 8)
    BY <1>2, <2>1, <2>2 DEF ArrayByte
  <2>6. 0 \in Bits /\ shift \in Bits /\ shift \div 8 = 0 /\ shift % 8 = shift
    BY DEF Bits
  <2>7. ArrayByte(a, w, b, 0)[0] = Load(b + 0, 16)[shift]
    BY <2>5, <2>6 DEF Low, ShiftRight
  <2>8. Load(b + 0, 16)[shift] = 8 * (b + 0 + 0) + (7 - shift)
    BY <2>1, <2>6 DEF Load
  <2>9. Reference(8 * b + a + 8 * 0, 8)[0] = 8 * b + a + 7
    BY <2>6 DEF Reference
  <2> QED
    BY <2>2, <2>4, <2>7, <2>8, <2>9
<1> QED
  BY <1>1, <1>2

-----------------------------------------------------------------------------
(* The bytes read                                                          *)

\* The bytes ReadsItsBytes names.
Touched(s, w) ==
  LET first == s \div 8
      last == (s + w - 1) \div 8
  IN  first .. (IF last = first + 2 /\ w <= 32 THEN last + 1 ELSE last)

LEMMA ReadsTouched ==
  ASSUME NEW a \in 0 .. 7, NEW w \in Nat \ {0}, NEW b \in Nat, Straight(a, w)
  PROVE  BytesRead(a, w, b) = Touched(8 * b + a, w)
<1>1. (8 * b + a) \div 8 = b
  OBVIOUS
<1>2. CASE w <= 8
  <2>1. (8 * b + a + w - 1) \div 8 = b
    BY <1>2 DEF Straight
  <2> QED
    BY <1>1, <1>2, <2>1 DEF Straight, BytesRead, LoadSize, Touched
<1>3. CASE w \in 9 .. 16
  <2>1. (8 * b + a + w - 1) \div 8 = b + 1
    BY <1>3 DEF Straight
  <2> QED
    BY <1>1, <1>3, <2>1 DEF Straight, BytesRead, LoadSize, Touched
<1>4. CASE w \in 17 .. 32
  <2>1. (8 * b + a + w - 1) \div 8 \in {b + 2, b + 3}
    BY <1>4 DEF Straight
  <2> QED
    BY <1>1, <1>4, <2>1 DEF Straight, BytesRead, LoadSize, Touched
<1>5. CASE w > 32
  <2>1. w % 8 = 0 /\ (w + 7) \div 8 = w \div 8
    BY <1>5 DEF Straight
  <2>2. (8 * b + a + w - 1) \div 8 = b + w \div 8 - (IF a = 0 THEN 1 ELSE 0)
    BY <1>5, <2>1
  <2> QED
    BY <1>1, <1>5, <2>1, <2>2 DEF BytesRead, Touched
<1> QED
  BY <1>2, <1>3, <1>4, <1>5

-----------------------------------------------------------------------------
(* The member a field is stored in                                         *)

\* No bit but those of the member's type is set, whatever the field lacks.
LEMMA ScalarHeld ==
  ASSUME NEW a \in 0 .. 7, NEW w \in 1 .. 32, NEW b \in Nat, NEW k \in Bits,
         Scalar(a, w, b) # Undefined, Scalar(a, w, b)[k] # Zero
  PROVE  k < 8 * Declared(w)
<1>1. w <= TypeWidth(w) /\ TypeWidth(w) \in {8, 16, 32}
      /\ 8 * Declared(w) = TypeWidth(w)
  BY DEF TypeWidth, Declared
<1>2. PICK m \in {w, TypeWidth(w)} :
        \E v : Scalar(a, w, b) = Low(v, m)
  BY DEF Scalar
<1>3. k < m
  BY <1>2 DEF Low
<1>4. k \in Nat
  BY DEF Bits
<1> QED
  BY <1>1, <1>2, <1>3, <1>4

LEMMA ArrayHeld ==
  ASSUME NEW a \in 0 .. 7, NEW w \in Nat, w > 32, NEW b \in Nat
  PROVE  DOMAIN Array(a, w, b) = 0 .. Declared(w) - 1
  BY DEF Array, Declared

-----------------------------------------------------------------------------
(* The header's loads one after the other                                  *)

\* The alignment the compiler carries from field to field is the offset's.
Placed ==
  /\ endian \in {"little", "big"}
  /\ layout \in Seq(Nat \ {0})
  /\ field \in 0 .. Len(layout)
  /\ offset \in Nat /\ start \in Nat /\ width \in Nat
  /\ alignment = offset % 8

LoadInv ==
  /\ Placed
  /\ StraightFieldsExact /\ LookaheadsExact
  /\ ReadsItsBytes /\ MembersHold

LEMMA LoadInit == Init => LoadInv
  BY LayoutAssumption DEF Init, LoadInv, Placed, StraightFieldsExact,
     LookaheadsExact, ReadsItsBytes, MembersHold, FieldLoaded, LookedAhead

\* One field, of any width at any alignment.
LEMMA FieldStep ==
  ASSUME LoadInv, ExtractField
  PROVE  LoadInv'
<1> DEFINE w == NextWidth
           a == alignment
           b == AtByte
<1>1. /\ w \in Nat \ {0} /\ a \in 0 .. 7 /\ b \in Nat
      /\ offset = 8 * b + a /\ offset \in Nat
  BY DEF ExtractField, StoreField, NextWidth, AtByte, LoadInv, Placed
<1>2. /\ width' = w /\ start' = offset /\ offset' = offset + w
      /\ alignment' = (a + w) % 8 /\ field' = field + 1
      /\ UNCHANGED <<endian, layout>>
      /\ value' = IF w <= 32 THEN Scalar(a, w, b) ELSE Array(a, w, b)
      /\ bytes' = BytesRead(a, w, b) /\ field < Len(layout)
  BY DEF ExtractField, StoreField
<1> HIDE DEF w, a, b
<1>3. (a + w) % 8 = (offset + w) % 8 /\ offset % 8 = a
  BY <1>1
<1>4. Placed'
  BY <1>1, <1>2, <1>3 DEF LoadInv, Placed
<1>5. endian \in {"little", "big"}
  BY DEF LoadInv, Placed
<1>6. Exact' <=> Straight(a, w)
  <2>1. CASE w <= 32
    <3>1. w \in 1 .. 32
      BY <1>1, <2>1
    <3>2. Exact' <=> Scalar(a, w, b) = Reference(8 * b + a, w)
      BY <1>1, <1>2, <2>1 DEF Exact
    <3> QED
      BY <1>1, <1>5, <3>1, <3>2, ScalarExact, ScalarLoses
  <2>2. CASE w > 32
    <3>1. Exact' <=> Array(a, w, b) = ReferenceArray(8 * b + a, w)
      BY <1>1, <1>2, <2>2 DEF Exact
    <3>2. ASSUME Straight(a, w)
          PROVE  Array(a, w, b) = ReferenceArray(8 * b + a, w)
      <4>1. w % 8 = 0 /\ (a = 0 \/ endian = "big")
        BY <1>1, <2>2, <3>2 DEF Straight
      <4>2. CASE a = 0
        BY <1>1, <1>5, <2>2, <4>1, <4>2, ArrayExact
      <4>3. CASE a # 0
        <5>1. a \in 1 .. 7 /\ w \in Nat /\ endian = "big"
          BY <1>1, <4>1, <4>3
        <5> QED
          BY <1>1, <2>2, <4>1, <5>1, ArrayBigExact
      <4> QED
        BY <4>2, <4>3
    <3> QED
      BY <1>1, <1>5, <2>2, <3>1, <3>2, ArrayLoses
  <2> QED
    BY <1>1, <2>1, <2>2
<1>7. FieldLoaded' /\ ~LookedAhead'
  BY <1>1, <1>2 DEF FieldLoaded, LookedAhead
<1>8. StraightFieldsExact' /\ LookaheadsExact'
  <2>1. (Straight(start % 8, width))' <=> Straight(a, w)
    BY <1>2, <1>3 DEF Straight
  <2> QED
    BY <1>6, <1>7, <2>1 DEF StraightFieldsExact, LookaheadsExact
<1>9. ReadsItsBytes'
  <2>1. (Straight(start % 8, width))' => Straight(a, w)
    BY <1>2, <1>3 DEF Straight
  <2>2. Straight(a, w) => BytesRead(a, w, b) = Touched(offset, w)
    BY <1>1, ReadsTouched
  <2> QED
    BY <1>2, <2>1, <2>2 DEF ReadsItsBytes, Touched
<1>10. MembersHold'
  <2>1. CASE w <= 32
    <3>1. w \in 1 .. 32
      BY <1>1, <2>1
    <3> QED
      BY <1>1, <1>2, <2>1, <3>1, ScalarHeld DEF MembersHold
  <2>2. CASE w > 32
    BY <1>1, <1>2, <2>2, ArrayHeld DEF MembersHold
  <2> QED
    BY <1>1, <2>1, <2>2
<1> QED
  BY <1>4, <1>8, <1>9, <1>10 DEF LoadInv

\* A lookahead, which leaves the offset where it is.
LEMMA LookaheadStep ==
  ASSUME LoadInv, NEW w \in Lookaheads, Lookahead(w)
  PROVE  LoadInv'
<1> DEFINE b == offset \div 8
<1>1. /\ w \in 1 .. 32 /\ b \in Nat /\ offset = 8 * b /\ offset \in Nat
  BY LayoutAssumption DEF Lookahead, LoadInv, Placed
<1>2. /\ width' = w /\ start' = offset /\ value' = LookaheadValue(w, b)
      /\ bytes' = b .. b + LoadSize(0, w) \div 8 - 1
      /\ UNCHANGED <<endian, layout, field, alignment, offset>>
  BY DEF Lookahead
<1> HIDE DEF b
<1>3. Placed' /\ ~FieldLoaded' /\ endian \in {"little", "big"}
  BY <1>1, <1>2 DEF LoadInv, Placed, FieldLoaded
<1>4. Exact' <=> endian = "big" \/ w \in 1 .. 8 \cup {16, 32}
  <2>1. Exact' <=> LookaheadValue(w, b) = Reference(8 * b, w)
    BY <1>1, <1>2 DEF Exact
  <2>2. CASE w \in 1 .. 8 \cup {16, 32}
    BY <1>1, <1>3, <2>1, <2>2, LookaheadExact
  <2>3. CASE w \notin 1 .. 8 \cup {16, 32} /\ endian = "little"
    BY <1>1, <2>1, <2>3, LookaheadLoses
  <2>4. CASE endian = "big"
    BY <1>1, <2>1, <2>4, LookaheadBigExact
  <2> QED
    BY <1>3, <2>2, <2>3, <2>4
<1>5. ReadsItsBytes'
  <2>1. Straight(0, w)
    BY <1>1 DEF Straight
  <2>2. bytes' = BytesRead(0, w, b)
    BY <1>1, <1>2 DEF BytesRead
  <2>3. BytesRead(0, w, b) = Touched(8 * b + 0, w)
    BY <1>1, <2>1, ReadsTouched
  <2> QED
    BY <1>1, <1>2, <2>2, <2>3 DEF ReadsItsBytes, Touched
<1> QED
  BY <1>2, <1>3, <1>4, <1>5
  DEF LoadInv, StraightFieldsExact, LookaheadsExact, MembersHold

LEMMA LoadStep == LoadInv /\ [Next]_vars => LoadInv'
<1> SUFFICES ASSUME LoadInv, [Next]_vars PROVE LoadInv'
  OBVIOUS
<1>1. CASE ExtractField
  BY <1>1, FieldStep
<1>2. CASE \E w \in Lookaheads : Lookahead(w)
  BY <1>2, LookaheadStep
<1>3. CASE UNCHANGED vars
  BY <1>3 DEF vars, LoadInv, Placed, StraightFieldsExact, LookaheadsExact,
     ReadsItsBytes, MembersHold, FieldLoaded, LookedAhead, Exact, Straight
<1> QED
  BY <1>1, <1>2, <1>3 DEF Next

LEMMA LoadInvariant == Spec => []LoadInv
  BY LoadInit, LoadStep, PTL DEF Spec

\* Whatever the header, and on a host of either byte order, exactly the fields
\* that fit the load chosen for them have the value P4 gives them.
THEOREM FieldsCorrect == Spec => []StraightFieldsExact
<1>1. LoadInv => StraightFieldsExact
  BY DEF LoadInv
<1> QED
  BY LoadInvariant, <1>1, PTL

\* Exactly the lookaheads of those widths have the value P4 gives them.
THEOREM LookaheadsCorrect == Spec => []LookaheadsExact
<1>1. LoadInv => LookaheadsExact
  BY DEF LoadInv
<1> QED
  BY LoadInvariant, <1>1, PTL

\* No store of a field, fitting or not, goes past the member it is made for.
THEOREM MembersCorrect == Spec => []MembersHold
<1>1. LoadInv => MembersHold
  BY DEF LoadInv
<1> QED
  BY LoadInvariant, <1>1, PTL

\* No load of a field that fits it reads a byte the field does not touch, but
\* for the fourth of a load that needs three.
THEOREM BytesCorrect == Spec => []ReadsItsBytes
<1>1. LoadInv => ReadsItsBytes
  BY DEF LoadInv
<1> QED
  BY LoadInvariant, <1>1, PTL
=============================================================================
