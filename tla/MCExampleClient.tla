--------------------------- MODULE MCExampleClient ---------------------------
(***************************************************************************)
(* The client with a parser of three states: a header the caller receives, *)
(* any number of tags it does not, and a second header in a tunnel loop,   *)
(* behind which an advance may take the offset back, so that a header is   *)
(* read again, begins in front of the packet or ends there.                *)
(***************************************************************************)
EXTENDS ExampleClient

Extract(h) == [op |-> "extract", hdr |-> h]

MCHeaders == {"eth", "tag", "ip"}
MCListed == {"eth", "ip"}
MCWidth == [eth |-> 8, tag |-> 8, ip |-> 8]
MCStates == {"start", "tags", "l3"}
MCBody ==
  [start |-> <<Extract("eth")>>, tags |-> <<Extract("tag")>>,
   l3 |-> <<Extract("ip"),
            [op |-> "advance", amounts |-> {-24, 0}, reads |-> {"ip"}]>>]
MCTargets ==
  [start |-> {"tags", "l3", "reject"}, tags |-> {"tags", "l3", "reject"},
   l3 |-> {"start", "accept"}]
MCSelectReads == [start |-> {"eth"}, tags |-> {"tag"}, l3 |-> {"ip"}]

\* malloc returns any free address.
AnyFree == [a \in SUBSET Blocks |-> Blocks \ a]
=============================================================================
