------------------------------ MODULE FieldLoad ------------------------------
(***************************************************************************)
(* How the emitted C loads the fields of a header and looks ahead.  The    *)
(* code generator picks a load, a cast, a byte swap, a shift and a mask    *)
(* from the width of a field and its alignment; here the choice is made    *)
(* and the C expression evaluated in one step per field.                   *)
(*                                                                         *)
(* A value is described by where its bits come from: v[k] is the index of  *)
(* the packet bit (counted from the byte the header starts at, in the      *)
(* order of transmission) that bit k of v, of weight 2^k, is a copy of.    *)
(* Every operation the backend emits moves or drops bits, so one           *)
(* description stands for every packet.                                    *)
(***************************************************************************)
EXTENDS Integers, Sequences

CONSTANTS
  Layouts,    \* the headers: sequences of field widths in bits
  Lookaheads, \* widths of the type argument of lookahead
  Hosts       \* the byte orders considered

ASSUME LayoutAssumption ==
  /\ \A l \in Layouts : l \in Seq(Nat \ {0})
  /\ Lookaheads \subseteq 1 .. 32
  /\ Hosts \subseteq {"little", "big"}

VARIABLES
  endian,     \* byte order of the host
  layout,     \* the header being extracted
  field,      \* how many of its fields have been loaded
  alignment,  \* compileExtract's alignment
  offset,     \* fpp_packetOffsetInBits, from the start of the header
  width,      \* width of the last load
  start,      \* packet bit the last load should have started at
  value,      \* what it stored
  bytes       \* the packet bytes it read

vars == <<endian, layout, field, alignment, offset, width, start, value, bytes>>

Zero == -1                 \* a bit that is not from the packet
Bits == 0 .. 31

\* What a shift by a negative amount yields: no copy of any packet bit.
Undefined == [k \in Bits |-> -2]

-----------------------------------------------------------------------------
(* The C operations                                                        *)

\* (uintN_t) v, and v & FPP_MASK(t, n).
Low(v, n) == [k \in Bits |-> IF k < n THEN v[k] ELSE Zero]

ShiftRight(v, s) == [k \in Bits |-> IF k + s \in Bits THEN v[k + s] ELSE Zero]

\* load_byte, load_half and load_word, by their width n: byte b of the packet
\* and those after it, as the host orders them.
Load(b, n) ==
  [k \in Bits |->
     IF k >= n THEN Zero
     ELSE LET nth == IF endian = "little" THEN k \div 8 ELSE (n - 1 - k) \div 8
          IN  8 * (b + nth) + (7 - (k % 8))]

\* Variant of ToHost that swaps on every host.
Swap(v, n) ==
  [k \in Bits |->
     IF k < n THEN v[8 * ((n - 1 - k) \div 8) + (k % 8)] ELSE Zero]

\* ntohs and ntohl, by the width n of their argument; a byte is not swapped.
ToHost(v, n) ==
  IF endian = "big" \/ n = 8 THEN Low(v, n)
  ELSE [k \in Bits |->
          IF k < n THEN v[8 * ((n - 1 - k) \div 8) + (k % 8)] ELSE Zero]

\* The C type of a scalar of width w.
TypeWidth(w) == IF w <= 8 THEN 8 ELSE IF w <= 16 THEN 16 ELSE 32

\* Bytes of the member the backend declares for a field.
Declared(w) == IF w <= 32 THEN TypeWidth(w) \div 8 ELSE (w + 7) \div 8

-----------------------------------------------------------------------------
(* The loads the backend emits                                             *)

\* Variant of LoadSize that takes two bytes for a field ending with its byte.
LoadSizeEager(a, w) == IF a + w < 8 THEN 8 ELSE IF w <= 16 THEN 16 ELSE 32

\* Bits the load of a field of at most 32 bits reads.
LoadSize(a, w) == IF a + w <= 8 THEN 8 ELSE IF w <= 16 THEN 16 ELSE 32

\* Shift, mask and only then the swap: the order in which a lookahead is
\* emitted, and in which example/parser.c loads its fields.
MaskFirst(a, w, b) ==
  LET size == LoadSize(a, w)
      shift == size - a - w
      whole == Low(ShiftRight(Load(b, size), shift), w)
  IN  IF shift < 0 THEN Undefined ELSE Low(ToHost(whole, size), TypeWidth(w))

\* A field of w <= 32 bits at alignment a, the offset being in byte b: cast,
\* swap, shift, mask.
Scalar(a, w, b) ==
  LET size == LoadSize(a, w)
      shift == size - a - w
      whole == ToHost(Low(Load(b, size), TypeWidth(w)), size)
  IN  IF shift < 0 THEN Undefined
      ELSE IF w = size THEN Low(ShiftRight(whole, shift), TypeWidth(w))
      ELSE Low(ShiftRight(whole, shift), w)

\* Element i of the byte array a wider field is stored in.
ArrayByte(a, w, b, i) ==
  LET count == (w + 7) \div 8
      byte == IF a = 0 THEN Load(b + i, 8)
              ELSE ShiftRight(Load(b + i, 16), 8 - a)
  IN  IF i = count - 1 /\ w % 8 # 0 THEN Low(Low(byte, 8), w % 8)
      ELSE Low(byte, 8)

\* Variant of Array that counts a byte too many when w is a multiple of 8.
ArrayOneMore(a, w, b) ==
  [i \in 0 .. w \div 8 |-> ArrayByte(a, w, b, i)]

Array(a, w, b) ==
  [i \in 0 .. (w + 7) \div 8 - 1 |-> ArrayByte(a, w, b, i)]

\* The bytes those loads read.
BytesRead(a, w, b) ==
  IF w <= 32 THEN b .. b + LoadSize(a, w) \div 8 - 1
  ELSE b .. b + (w + 7) \div 8 - (IF a = 0 THEN 1 ELSE 0)

\* lookahead<bit<w>>, which takes the offset to be at a byte boundary.
LookaheadValue(w, b) == MaskFirst(0, w, b)

-----------------------------------------------------------------------------

Init ==
  /\ endian \in Hosts
  /\ layout \in Layouts
  /\ field = 0 /\ alignment = 0 /\ offset = 0
  /\ width = 0 /\ start = 0 /\ bytes = {}
  /\ value = [k \in Bits |-> Zero]

\* Variant of ExtractField that forgets the alignment it had.
ExtractFieldAnew ==
  /\ field < Len(layout)
  /\ LET w == layout[field + 1]
         b == offset \div 8
     IN  /\ width' = w
         /\ value' = IF w <= 32 THEN Scalar(alignment, w, b)
                     ELSE Array(alignment, w, b)
         /\ bytes' = BytesRead(alignment, w, b)
         /\ offset' = offset + w
         /\ alignment' = w % 8
  /\ start' = offset
  /\ field' = field + 1
  /\ UNCHANGED <<endian, layout>>

\* Width of the next field, and the byte the offset is in.
NextWidth == layout[field + 1]
AtByte == offset \div 8

\* compileExtractField for the next field, a narrow one getting the value
\* given, and the loop step around it.
StoreField(narrow) ==
  /\ field < Len(layout)
  /\ width' = NextWidth
  /\ value' = IF NextWidth <= 32 THEN narrow
              ELSE Array(alignment, NextWidth, AtByte)
  /\ bytes' = BytesRead(alignment, NextWidth, AtByte)
  /\ offset' = offset + NextWidth
  /\ alignment' = (alignment + NextWidth) % 8
  /\ start' = offset
  /\ field' = field + 1
  /\ UNCHANGED <<endian, layout>>

ExtractField == StoreField(Scalar(alignment, NextWidth, AtByte))

\* compileLookahead before or after the extract, at a byte boundary.
Lookahead(w) ==
  /\ field \in {0, Len(layout)} /\ offset % 8 = 0
  /\ width' = w
  /\ start' = offset
  /\ value' = LookaheadValue(w, offset \div 8)
  /\ bytes' = offset \div 8 .. offset \div 8 + LoadSize(0, w) \div 8 - 1
  /\ UNCHANGED <<endian, layout, field, alignment, offset>>

Next ==
  \/ ExtractField
  \/ \E w \in Lookaheads : Lookahead(w)

Spec == Init /\ [][Next]_vars

-----------------------------------------------------------------------------
(* Properties                                                              *)

\* The w bits of the packet from bit s on, the first of them most significant.
Reference(s, w) == [k \in Bits |-> IF k < w THEN s + w - 1 - k ELSE Zero]

\* The same for a field stored as bytes, when it fills them.
ReferenceArray(s, w) ==
  [i \in 0 .. w \div 8 - 1 |-> Reference(s + 8 * i, 8)]

Exact ==
  value = IF width <= 32 THEN Reference(start, width)
          ELSE ReferenceArray(start, width)

\* A field that fits the load chosen for it.
Straight(a, w) ==
  \/ w <= 8 /\ a + w <= 8
  \/ w \in 9 .. 16 /\ a + w <= 16
  \/ w \in 17 .. 32 /\ a + w <= 32
  \/ w > 32 /\ w % 8 = 0 /\ (a = 0 \/ endian = "big")

FieldLoaded == start < offset
LookedAhead == start = offset /\ width > 0

\* A field is stored with the value P4 gives it just if it does not cross the
\* boundary of the load chosen for it, whatever came before it in the header
\* and on a host of either byte order; a byte array that is not aligned also
\* comes out right on a big endian one.
StraightFieldsExact == FieldLoaded => (Exact <=> Straight(start % 8, width))

\* A lookahead masks before it swaps: on a little endian host it has the value
\* P4 gives it just if it fills its load or needs no swap.
LookaheadsExact ==
  LookedAhead => (Exact <=> endian = "big" \/ width \in 1 .. 8 \cup {16, 32})

\* What is stored fits the member declared for the field: no bit is lost in
\* the assignment and no element is written past the end of an array.
MembersHold ==
  FieldLoaded /\ value # Undefined =>
    IF width <= 32 THEN \A k \in Bits : value[k] # Zero => k < 8 * Declared(width)
    ELSE DOMAIN value = 0 .. Declared(width) - 1

\* Every field of a header and every lookahead has the value P4 gives it.
AllExact == width > 0 => Exact

\* A load reads exactly the bytes its field touches, except that three bytes
\* are read with a load of four.
ReadsItsBytes ==
  width > 0 /\ Straight(start % 8, width) =>
    LET first == start \div 8
        last == (start + width - 1) \div 8
    IN  bytes = first .. (IF last = first + 2 /\ width <= 32 THEN last + 1 ELSE last)
=============================================================================
