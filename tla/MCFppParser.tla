----------------------------- MODULE MCFppParser -----------------------------
(***************************************************************************)
(* A P4 parser small enough for TLC that has every construct the backend   *)
(* translates: a loop over tags held in a local header, a tunnel that      *)
(* extracts the same listed header again, a lookahead, an advance by a     *)
(* loaded length, selects with and without a default, and a transition to  *)
(* each of accept and reject.                                              *)
(***************************************************************************)
EXTENDS FppParser

MCHeaders == {"eth", "tag", "ip"}
MCListed == {"eth", "ip"}
MCWidth == [eth |-> 16, tag |-> 8, ip |-> 12]
MCVars == {"tmp"}
MCStates == {"start", "l2", "tags", "l3"}

Extract(h) == [op |-> "extract", hdr |-> h]

MCBody ==
  [start |-> <<>>,
   l2 |-> <<Extract("eth")>>,
   tags |-> <<[op |-> "lookahead", var |-> "tmp"], Extract("tag")>>,
   l3 |-> <<Extract("ip"),
            [op |-> "assign", var |-> "tmp", reads |-> {"ip"}],
            [op |-> "advance", amounts |-> {0, 12}, reads |-> {"ip"}]>>]

MCTargets ==
  [start |-> {"l2"},
   l2 |-> {"tags", "l3", "reject"},
   tags |-> {"tags", "l3", "reject"},
   l3 |-> {"l2", "accept", "reject"}]

MCSelectReads ==
  [start |-> {}, l2 |-> {"eth"}, tags |-> {"tag", "tmp"}, l3 |-> {"tmp"}]

\* malloc returns any free address.
AnyFree == [a \in SUBSET Blocks |-> Blocks \ a]
=============================================================================
