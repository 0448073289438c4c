---------------------------- MODULE MCExampleFlow ----------------------------
(***************************************************************************)
(* The example's parser, of which it is checked that the tables MCExample  *)
(* gives for its states are right.                                         *)
(***************************************************************************)
EXTENDS MCExample

\* The conditions under which FppFlow's properties hold of all runs.
ASSUME ExampleFlows == ReadsFlow /\ StackFlow /\ AlignFlow
=============================================================================
