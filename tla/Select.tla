------------------------------- MODULE Select -------------------------------
(***************************************************************************)
(* The transition of a parser state as StateTranslationVisitor emits it:   *)
(* the cases of its select are gone over one by one and become the arms of *)
(* a switch, behind which the code of the next state follows.              *)
(***************************************************************************)
EXTENDS Naturals, SequencesExt

CONSTANTS
  Keys,       \* values of the expression selected on
  States,     \* names of states a transition goes to
  MaxCases    \* bound on the cases of a select

Default == "default"
Reject == "reject"

ASSUME SelectAssumption ==
  Default \notin Keys /\ Reject \in States /\ MaxCases \in Nat

VARIABLES pc, hasDefault, cases, arms

vars == <<pc, hasDefault, cases, arms>>

\* A case of a select, or an arm of a switch.
Case(key, state) == [key |-> key, to |-> state]

Init ==
  /\ pc = "state" /\ hasDefault = FALSE
  /\ cases = <<Case(Default, Reject)>> /\ arms = cases

\* The next state has a visitor of its own; if it has no transition it rejects.
NextState ==
  /\ pc = "emitted"
  /\ pc' = "state" /\ hasDefault' = FALSE
  /\ cases' = <<Case(Default, Reject)>> /\ arms' = cases'

\* A transition without a select is a goto.
Goto ==
  /\ pc = "state"
  /\ \E s \in States : cases' = <<Case(Default, s)>> /\ arms' = <<Case(Default, s)>>
  /\ pc' = "emitted"
  /\ UNCHANGED hasDefault

BeginSelect ==
  /\ pc = "state"
  /\ pc' = "select" /\ hasDefault' = FALSE /\ cases' = <<>> /\ arms' = <<>>

\* The mid end has dropped the cases behind a default.
SimplifySelectCases == \A i \in DOMAIN cases : cases[i].key # Default

SelectCase ==
  /\ pc = "select" /\ Len(cases) < MaxCases /\ SimplifySelectCases
  /\ \E k \in Keys \cup {Default}, s \in States :
       /\ cases' = Append(cases, Case(k, s))
       /\ arms' = Append(arms, Case(k, s))
       /\ hasDefault' = (hasDefault \/ k = Default)
  /\ UNCHANGED pc

\* Variant of EndSelect that leaves a switch as the cases made it.
EndSelectBare ==
  /\ pc = "select"
  /\ pc' = "emitted"
  /\ UNCHANGED <<hasDefault, cases, arms>>

EndSelect ==
  /\ pc = "select"
  /\ arms' = IF hasDefault THEN arms ELSE Append(arms, Case(Default, Reject))
  /\ pc' = "emitted"
  /\ UNCHANGED <<hasDefault, cases>>

Next == NextState \/ Goto \/ BeginSelect \/ SelectCase \/ EndSelect

Spec == Init /\ [][Next]_vars

-----------------------------------------------------------------------------
(* What the two languages make of them                                     *)

\* P4 takes the first case that matches, and rejects if none does.
Match(v) ==
  LET i == SelectInSeq(cases, LAMBDA c : c.key \in {v, Default})
  IN  IF i = 0 THEN Reject ELSE cases[i].to

\* C takes the arm of that label wherever it is, then the default, and goes
\* on with the code of the next state if there is neither.
ArmsOf(label) == {a \in Range(arms) : a.key = label}
Jump(v) ==
  LET found == IF ArmsOf(v) # {} THEN ArmsOf(v) ELSE ArmsOf(Default)
  IN  IF found = {} THEN "next" ELSE (CHOOSE a \in found : TRUE).to

\* C refuses a switch with two equal labels.
Compiles == \A i, j \in DOMAIN arms : arms[i].key = arms[j].key => i = j

-----------------------------------------------------------------------------
(* Properties                                                              *)

\* The switch of a state goes where the select goes, for every value, and
\* never on into the code of the next state: it has a default of its own or
\* the one for reject, and just one.  It does not compile only when a key of
\* the select is repeated.
SwitchIsSelect ==
  pc # "select" =>
    IF Compiles THEN \A v \in Keys : Jump(v) = Match(v)
    ELSE \E i, j \in DOMAIN cases : i # j /\ cases[i].key = cases[j].key
=============================================================================
