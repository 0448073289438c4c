----------------------------- MODULE Expression -----------------------------
(***************************************************************************)
(* What the C emitted for a P4 expression computes.  An expression is      *)
(* grown one operation at a time, and of the part grown so far only what   *)
(* matters for the next operation is kept: its P4 type and value, and the  *)
(* type and value C gives it.  The states that can be reached are then     *)
(* those of chains of operations of any length.                            *)
(*                                                                         *)
(* Widths are counted in bits of a byte of Byte bits.  C has integers of   *)
(* one, two, four (int) and eight (long) bytes.                            *)
(***************************************************************************)
EXTENDS Integers

CONSTANTS
  Byte,      \* bits in a byte
  Widest,    \* bound on the width of a type
  Inputs,    \* values variables may have: records [t: P4 type, v: value]
  Literals,  \* constants of the program, likewise
  Careful    \* whether the program keeps to the rule given at Clean below

ASSUME ByteAssumption ==
  /\ Byte \in Nat \ {0} /\ Widest \in Nat /\ 8 * Byte <= Widest
  /\ Careful \in BOOLEAN

VARIABLES
  expr,      \* the expression so far
  status     \* "growing", "used" by a statement, or "rejected"

vars == <<expr, status>>

-----------------------------------------------------------------------------
(* Types and conversions                                                   *)

\* A type, of P4 or of C, is a width and whether it is signed.
TypeOf(width, signed) == [w |-> width, s |-> signed]

Word == 4 * Byte
Bool == TypeOf(0, FALSE)              \* of P4 only
Array == TypeOf(0, TRUE)              \* of C only: bytes, not a scalar
CInt == TypeOf(Word, TRUE)
CLong == TypeOf(2 * Word, TRUE)

\* 2 to the n.
Power ==
  LET p[n \in 0 .. Widest] == IF n = 0 THEN 1 ELSE 2 * p[n - 1]
  IN  [n \in 0 .. Widest |-> p[n]]

Least(t) == IF t.s THEN -Power[t.w - 1] ELSE 0
Greatest(t) == IF t.s THEN Power[t.w - 1] - 1 ELSE Power[t.w] - 1
Values(t) == Least(t) .. Greatest(t)

\* The value of type t that n is congruent to.
Wrap(t, n) == Least(t) + ((n - Least(t)) % Power[t.w])

\* The value of an operation C leaves undefined: one no type has.
Undefined == -Power[Widest]

\* A type of P4 has values, and a literal is one that C can express.
P4Types == {Bool} \cup {TypeOf(w, s) : w \in 1 .. Widest, s \in BOOLEAN}
P4Values(t) == IF t = Bool THEN {0, 1} ELSE Values(t)

ASSUME LeafAssumption ==
  /\ \A i \in Inputs \cup Literals : i.t \in P4Types /\ i.v \in P4Values(i.t)
  /\ \A i \in Literals : i.v \in Values(CLong)

\* Variant of CType that gives two bytes to whatever is over one.
CTypeTwoBytes(t) ==
  IF t = Bool THEN TypeOf(Byte, FALSE)
  ELSE IF t.w > Word THEN Array
  ELSE TypeOf(IF t.w <= Byte THEN Byte ELSE 2 * Byte, t.s)

\* The C type a P4 type is declared with.
CType(t) ==
  IF t = Bool THEN TypeOf(Byte, FALSE)
  ELSE IF t.w > Word THEN Array
  ELSE TypeOf(IF t.w <= Byte THEN Byte
              ELSE IF t.w <= 2 * Byte THEN 2 * Byte ELSE Word, t.s)

\* The integer promotions and the usual arithmetic conversions.
Promote(c) == IF c.w < Word THEN CInt ELSE c
Common(c, d) ==
  LET p == Promote(c)
      q == Promote(d)
  IN  IF p.w = q.w THEN TypeOf(p.w, p.s /\ q.s)
      ELSE IF p.w > q.w THEN p ELSE q

\* An operation of C type c whose exact result is n.
InC(c, n) ==
  IF ~c.s THEN Wrap(c, n)
  ELSE IF Least(c) <= n /\ n <= Greatest(c) THEN n ELSE Undefined

-----------------------------------------------------------------------------
(* Operators                                                               *)

Arithmetic == {"+", "-", "*"}
Bitwises == {"&", "|", "^"}
Equalities == {"==", "!="}
Orders == {"<", "<=", ">", ">="}
Connectives == {"&&", "||"}

Truth(b) == IF b THEN 1 ELSE 0

\* The bits that are set in x and in y, of the w lowest in two's complement.
Bit(x, k) == (x \div Power[k]) % 2
BitsOfBoth(w, x, y) ==
  LET both[k \in 0 .. Widest] ==
        IF k = 0 THEN 0
        ELSE both[k - 1] + Power[k - 1] * (Bit(x, k - 1) * Bit(y, k - 1))
  IN  both[w]

\* The exact result, of operands taken as w bits where bits matter.
Apply(op, w, x, y) ==
  LET p == x % Power[w]
      q == y % Power[w]
      both == BitsOfBoth(w, x, y)
  IN  CASE op = "+" -> x + y
        [] op = "-" -> x - y
        [] op = "*" -> x * y
        [] op = "&" -> both
        [] op = "|" -> p + q - both
        [] op = "^" -> p + q - 2 * both

Holds(op, x, y) ==
  CASE op = "==" -> x = y
    [] op = "!=" -> x # y
    [] op = "<" -> x < y
    [] op = "<=" -> x <= y
    [] op = ">" -> x > y
    [] op = ">=" -> x >= y
    [] op = "&&" -> x # 0 /\ y # 0
    [] op = "||" -> x # 0 \/ y # 0

\* Arithmetic in type t, where bits are reinterpreted and the rest wraps (P4)
\* or overflows as C says.
P4Binary(op, t, x, y) == Wrap(t, Apply(op, t.w, x, y))
CBinary(op, c, x, y) ==
  LET n == Apply(op, c.w, x, y)
  IN  IF op \in Bitwises THEN Wrap(c, n) ELSE InC(c, n)

P4Shift(op, t, x, k) ==
  IF op = ">>" THEN x \div Power[IF k < t.w THEN k ELSE t.w]
  ELSE IF k < t.w THEN Wrap(t, x * Power[k]) ELSE 0

\* C has no shift by the width or more, and no left shift that loses bits of
\* a signed value.
CShift(op, c, x, k) ==
  IF k >= c.w THEN Undefined
  ELSE IF op = ">>" THEN x \div Power[k]
  ELSE IF c.s /\ (x < 0 \/ x > Greatest(c) \div Power[k]) THEN Undefined
  ELSE Wrap(c, x * Power[k])

-----------------------------------------------------------------------------
(* Operands                                                                *)

\* An operand: P4 type t and value v, C type c and value n; whether it is a
\* variable, which has an address; whether it is clean.
Operand(t, v, c, n, clean) ==
  [t |-> t, v |-> v, c |-> c, n |-> n, clean |-> clean, var |-> FALSE]

\* What a variable of type t holds.
Stored(t, v, n, clean) ==
  [t |-> t, v |-> v, c |-> CType(t), n |-> n, clean |-> clean, var |-> TRUE]

Variable(i) == Stored(i.t, i.v, i.v, TRUE)

\* A decimal literal is an int if it can be, a long if not.
Literal(i) ==
  Operand(i.t, i.v, IF -Greatest(CInt) <= i.v /\ i.v <= Greatest(CInt) THEN CInt ELSE CLong,
          i.v, TRUE)

Leaves == {Variable(i) : i \in Inputs} \cup {Literal(i) : i \in Literals}
LeavesOf(t) == {l \in Leaves : l.t = t}

\* What C finds where a number is needed: an array gives its address, which
\* may be anything.
Numbers(e) ==
  IF e.c = Array THEN {Least(CLong), Greatest(CLong)} ELSE {e.n}

\* The rule.  An operand is clean if nothing but its type is needed to see
\* that C computes the P4 value.  A result is clean if it is computed in the
\* very type it has in P4; bits picked from clean operands are clean, and a
\* clean non-negative mask cleans; what memcmp says is not clean.  Other
\* results may differ from the P4 value by a multiple of 2^w, and a careful
\* program only computes on with them or stores them; it tests, shifts
\* right, widens or uses for their value clean operands only.
CleanBinary(op, l, r) ==
  CASE op \in Arithmetic -> Common(l.c, r.c) = l.t
    [] op = "&" /\ ~l.t.s -> l.clean \/ r.clean
    [] OTHER -> l.clean /\ r.clean

CleanCast(e, d) ==
  \/ d = CType(d) /\ d.w <= e.t.w
  \/ e.clean /\ (d = e.t \/ d.w > e.t.w)

Observed(e) == Careful => e.clean /\ e.c # Array

-----------------------------------------------------------------------------
(* The code generator                                                      *)

Init == expr \in Leaves /\ status = "growing"

Growing == status = "growing" /\ expr.n # Undefined

\* Arithmetic is emitted if the width of its type is that of a machine
\* scalar, or so it is meant; the type of a comparison is not looked at.
WidthCheck(t) == t = Bool \/ (t.w % Byte = 0 /\ t.w <= Word)

Emit(t, e) ==
  IF WidthCheck(t) THEN expr' = e /\ UNCHANGED status
  ELSE status' = "rejected" /\ UNCHANGED expr

\* l op r, with the operands in this order.
BinaryOf(op, l, r) ==
  LET c == Common(l.c, r.c)
  IN  Operand(l.t, P4Binary(op, l.t, l.v, r.v),
              c, CBinary(op, c, Wrap(c, l.n), Wrap(c, r.n)), CleanBinary(op, l, r))

Binary ==
  /\ Growing /\ expr.t # Bool
  /\ \E op \in Arithmetic \cup Bitwises, r \in LeavesOf(expr.t) :
       \E e \in {BinaryOf(op, expr, r), BinaryOf(op, r, expr)} : Emit(expr.t, e)

Shift ==
  /\ Growing /\ expr.t # Bool
  /\ \E op \in {"<<", ">>"}, k \in Leaves :
       /\ k.t # Bool /\ ~k.t.s /\ k.c # Array
       /\ op = ">>" => Observed(expr)
       /\ LET c == Promote(expr.c)
          IN  Emit(expr.t, Operand(expr.t, P4Shift(op, expr.t, expr.v, k.v),
                           c, CShift(op, c, expr.n, k.n),
                           IF op = ">>" THEN expr.clean ELSE c = expr.t))

Connective ==
  /\ Growing /\ expr.t = Bool /\ Observed(expr)
  /\ \E op \in Connectives, r \in LeavesOf(Bool) :
       Emit(Bool, Operand(Bool, Truth(Holds(op, expr.v, r.v)),
                    CInt, Truth(Holds(op, expr.n, r.n)), expr.clean))

Unary ==
  /\ Growing
  /\ \/ /\ expr.t # Bool
        /\ \E op \in {"~", "-"} :
             LET c == Promote(expr.c)
                 P4(x) == IF op = "~" THEN -1 - x ELSE -x
             IN  Emit(expr.t, Operand(expr.t, Wrap(expr.t, P4(expr.v)),
                              c, InC(c, P4(expr.n)), c = expr.t))
     \/ /\ expr.t = Bool /\ Observed(expr)
        /\ Emit(Bool, Operand(Bool, Truth(expr.v = 0), CInt, Truth(expr.n = 0), expr.clean))

\* Variant of Cast that leaves the C cast out.
CastInP4Only ==
  /\ Growing /\ expr.t # Bool
  /\ \E d \in {l.t : l \in Leaves} \ {Bool} :
       /\ d.w = expr.t.w \/ d.s = expr.t.s
       /\ d.w > expr.t.w \/ expr.c = Array => Observed(expr)
       /\ \E n \in Numbers(expr) :
            Emit(d, Operand(d, Wrap(d, expr.v), expr.c, n, CleanCast(expr, d)))

\* P4 casts to another width or to the other signedness.
Cast ==
  /\ Growing /\ expr.t # Bool
  /\ \E d \in {l.t : l \in Leaves} \ {Bool} :
       /\ d.w = expr.t.w \/ d.s = expr.t.s
       /\ d.w > expr.t.w \/ expr.c = Array => Observed(expr)
       /\ \E n \in Numbers(expr) :
            Emit(d, Operand(d, Wrap(d, expr.v), CType(d), Wrap(CType(d), n),
                         CleanCast(expr, d)))

\* l op r as a C comparison, of numbers converted to their common type.
Compared(op, l, r) ==
  LET c == Common(l.c, r.c)
  IN  {Operand(Bool, Truth(Holds(op, l.v, r.v)),
               CInt, Truth(Holds(op, Wrap(c, m), Wrap(c, n))), TRUE) :
         m \in Numbers(l), n \in Numbers(r)}

\* An order is emitted as it is, for operands of any type.
Order ==
  /\ Growing /\ expr.t # Bool /\ Observed(expr)
  /\ \E op \in Orders, r \in LeavesOf(expr.t) :
       /\ Observed(r)
       /\ \E e \in Compared(op, expr, r) : Emit(Bool, e)

\* Only numbers of at most a word are compared by an operator.
Scalar(t) == t # Bool /\ t.w <= Word

Equality ==
  /\ Growing /\ Scalar(expr.t) /\ Observed(expr)
  /\ \E op \in Equalities, r \in LeavesOf(expr.t) :
       \E e \in Compared(op, expr, r) : Emit(Bool, e)

\* Whatever else is compared byte by byte, and the result of memcmp is the
\* result, for either operator.  (C accepts this for variables only.)
MemCompare ==
  /\ Growing /\ ~Scalar(expr.t) /\ expr.var
  /\ \E op \in Equalities, r \in LeavesOf(expr.t) :
       /\ r.var
       /\ Emit(Bool, Operand(Bool, Truth(Holds(op, expr.v, r.v)),
                       CInt, Truth(expr.v # r.v), FALSE))

\* c ? l : r
Choice(c, l, r) ==
  LET d == Common(l.c, r.c)
  IN  Operand(l.t, IF c.v # 0 THEN l.v ELSE r.v,
              d, Wrap(d, IF c.n # 0 THEN l.n ELSE r.n), l.clean /\ r.clean)

MuxCondition ==
  /\ Growing /\ expr.t = Bool /\ Observed(expr)
  /\ \E l \in Leaves : \E r \in LeavesOf(l.t) : Emit(l.t, Choice(expr, l, r))

MuxBranch ==
  /\ Growing
  /\ \E c \in LeavesOf(Bool), r \in LeavesOf(expr.t) : Emit(expr.t, Choice(c, expr, r))

\* Variant of Assignment that keeps the value as it is.
AssignUnconverted ==
  /\ Growing
  /\ expr' = Stored(expr.t, expr.v, expr.n, expr.clean \/ CType(expr.t) = expr.t)
  /\ UNCHANGED status

\* expr is assigned to a variable of its type, which the program goes on with.
Assignment ==
  /\ Growing
  /\ LET c == CType(expr.t)
     IN  expr' = Stored(expr.t, expr.v, IF c = Array THEN expr.n ELSE Wrap(c, expr.n),
                        expr.clean \/ c = expr.t)
  /\ UNCHANGED status

\* expr is the key of a switch, an amount to advance by or a condition.
Use ==
  /\ Growing /\ (Scalar(expr.t) \/ expr.t = Bool)
  /\ Observed(expr)
  /\ status' = "used"
  /\ UNCHANGED expr

Next ==
  \/ Binary \/ Shift \/ Connective \/ Unary \/ Cast
  \/ Order \/ Equality \/ MemCompare
  \/ MuxCondition \/ MuxBranch
  \/ Assignment \/ Use

Spec == Init /\ [][Next]_vars

-----------------------------------------------------------------------------
(* Properties                                                              *)

TypeOK ==
  /\ status \in {"growing", "used", "rejected"}
  /\ expr.t \in [w : Nat, s : BOOLEAN] /\ expr.c \in [w : Nat, s : BOOLEAN]
  /\ expr.clean \in BOOLEAN /\ expr.var \in BOOLEAN
  /\ expr.t # Bool /\ expr.c # Array =>
       /\ Wrap(expr.t, expr.v) = expr.v
       /\ expr.n = Undefined \/ Wrap(expr.c, expr.n) = expr.n

\* In a program that keeps to the rule, C computes a clean expression to the
\* value it has in P4, however long the chain of operations that led to it,
\* unless C leaves one of them undefined.
CleanExact == expr.clean /\ expr.n # Undefined => expr.n = expr.v

\* And whatever the code generator accepts is right modulo 2^w: assignments
\* to variables of one, two or four bytes lose nothing but the excess.
Congruent ==
  expr.t # Bool /\ expr.n # Undefined => (expr.n - expr.v) % Power[expr.t.w] = 0

\* The code generator rejects an expression or the emitted program uses it
\* with the value P4 gives it.
RejectsOrExact == status = "used" => expr.n = expr.v
=============================================================================
