----------------------------- MODULE MCFieldLoad -----------------------------
(* All fields there can be, and the headers of the example.                *)
EXTENDS ExampleHeaders

\* A field of every width up to 72 bits at every alignment.
EveryLayout ==
  {<<w>> : w \in 1 .. 72} \cup {<<a, w>> : a \in 1 .. 7, w \in 1 .. 72}

LayoutsAndHeaders == EveryLayout \cup AllHeaders

\* Every lookahead the backend accepts.
EveryLookahead == 1 .. 32
=============================================================================
