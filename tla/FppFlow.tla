------------------------------- MODULE FppFlow -------------------------------
(***************************************************************************)
(* What can be read off a P4 parser about every run of the function        *)
(* emitted for it.  For each state of the parser a table says what holds   *)
(* whenever the state is entered; ReadsFlow, StackFlow and AlignFlow are   *)
(* conditions on single states and their transitions which say that the    *)
(* tables are right; and the properties below follow for all runs.         *)
(***************************************************************************)
EXTENDS FppParser

CONSTANTS
  Before,  \* Before[s]: names assigned on every path to state s
  Above,   \* Above[s]: header types that may be the last listed at s
  Under,   \* Under[h]: header types h may directly follow on the list
  Final,   \* header types that may be the last one of an accepted packet
  Odd      \* locals behind which the offset may be inside a byte

\* In Above, Under and Final, NULL stands for no header at all.
Types == Listed \cup {NULL}

ASSUME TablesAssumption ==
  /\ Before \in [States -> SUBSET Names]
  /\ Above \in [States -> SUBSET Types]
  /\ Under \in [Listed -> SUBSET Types]
  /\ Final \subseteq Types /\ Odd \subseteq Names
  /\ NULL \notin Listed

-----------------------------------------------------------------------------
(* Inside one state                                                        *)

\* The statement at p extracts a header the caller receives.
Lists(s, p) == Body[s][p].op = "extract" /\ Body[s][p].hdr \in Listed

\* What the statement at p assigns.
Sets(s, p) ==
  CASE Body[s][p].op = "extract" -> {Body[s][p].hdr} \ Listed
    [] Body[s][p].op \in {"lookahead", "assign"} -> {Body[s][p].var}
    [] OTHER -> {}

\* Before statement p of state s: what has been assigned, and which header
\* the block's variable headers points to.
AssignedAt(s, p) == Before[s] \cup UNION {Sets(s, i) : i \in 1 .. p - 1}
IsLast(s, i, p) == Lists(s, i) /\ \A j \in i + 1 .. p - 1 : ~Lists(s, j)
InScope(s, p) == {Body[s][i].hdr : i \in {j \in 1 .. p - 1 : IsLast(s, j, p)}}
Known(s, p) == AssignedAt(s, p) \cup InScope(s, p)

\* The header types that may be the last on the list there.
LastAt(s, p) ==
  IF \E i \in 1 .. p - 1 : Lists(s, i) THEN InScope(s, p) ELSE Above[s]

AtEnd(s) == Len(Body[s]) + 1

-----------------------------------------------------------------------------
(* The conditions                                                          *)

\* Every state finds assigned what it reads.
ReadsFlow ==
  /\ Before[Start] = {}
  /\ \A s \in States :
       /\ \A t \in Targets[s] \cap States : Before[t] \subseteq AssignedAt(s, AtEnd(s))
       /\ \A p \in DOMAIN Body[s] :
            Body[s][p].op \in {"assign", "advance"} => Body[s][p].reads \subseteq Known(s, p)
       /\ SelectReads[s] \subseteq Known(s, AtEnd(s))

\* Every state lists a header that can follow the last one, and accepts
\* behind a header that can be final.
StackFlow ==
  /\ NULL \in Above[Start]
  /\ \A s \in States :
       /\ \A t \in Targets[s] \cap States : LastAt(s, AtEnd(s)) \subseteq Above[t]
       /\ \A p \in DOMAIN Body[s] :
            Lists(s, p) => LastAt(s, p) \subseteq Under[Body[s][p].hdr]
       /\ "accept" \in Targets[s] => LastAt(s, AtEnd(s)) \subseteq Final

\* Headers are whole bytes, and an advance that is not comes behind an odd one.
AlignFlow ==
  /\ ReadsFlow
  /\ \A h \in Headers : Width[h] % 8 = 0
  /\ \A s \in States : \A p \in DOMAIN Body[s] :
       Body[s][p].op = "advance" =>
         \/ \A n \in Body[s][p].amounts : n % 8 = 0
         \/ AssignedAt(s, p) \cap Odd # {}

-----------------------------------------------------------------------------
(* Properties                                                              *)

\* The type of the i-th header on the list.
TypeAt(i) == IF i = 0 THEN NULL ELSE node[chain[i]].type

\* The list a caller walks is a protocol stack: each header follows one that
\* can carry it, whatever the states between two listed extracts, which the
\* caller does not see, have skipped.
Layered == \A i \in 1 .. Len(chain) : TypeAt(i - 1) \in Under[TypeAt(i)]

\* A packet that is accepted has been parsed down to one of the headers a
\* packet may end with.
AcceptedDeepEnough ==
  pc = "returned" /\ ret = "NoError" => TypeAt(Len(chain)) \in Final

\* The loads of a header take it to start at a byte boundary.  The offset is
\* at one as long as no odd local has been extracted.
OnlyOddMisaligns == offset % 8 # 0 => assigned \cap Odd # {}
=============================================================================
