----------------------------- MODULE MCExpression -----------------------------
(* Instances of Expression: bytes of two bits, values at the boundaries.   *)
EXTENDS Expression

\* Values at and next to the ends of a range, and in its middle.
Boundary(t) == {Wrap(t, n) : n \in {0, 1, -1, 5, Power[t.w - 1]}}

InputsOf(types) == UNION {[t : {t}, v : Boundary(t)] : t \in types}
Truths == [t : {Bool}, v : {0, 1}]

Unsigned(widths) == {TypeOf(w, FALSE) : w \in widths}
Signed(widths) == {TypeOf(w, TRUE) : w \in widths}

\* Half a byte, one, one and a half, two, three and four bytes; five are wide.
AllWidths ==
  InputsOf(Unsigned({1, 2, 3, 4, 6, 8, 10}) \cup Signed({2, 4, 8})) \cup Truths
Narrow == InputsOf(Unsigned({2}))
Wide == InputsOf(Unsigned({10}))

\* Not checked in a run of their own: three bytes, which are accepted as well,
\* and words, to be combined with a literal that is a long.
ThreeBytes == InputsOf(Unsigned({6}))
Words == InputsOf(Unsigned({8}))

None == {}
\* 2^w - 5, what the front end makes of x - 5, is a long in C.
MinusFive == {[t |-> TypeOf(8, FALSE), v |-> 251]}
IntsAndLong ==
  {[t |-> TypeOf(8, FALSE), v |-> 3], [t |-> TypeOf(4, FALSE), v |-> 1],
   [t |-> TypeOf(8, TRUE), v |-> -5], [t |-> TypeOf(10, FALSE), v |-> 3]} \cup MinusFive
=============================================================================
