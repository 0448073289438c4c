---------------------------- MODULE SelectProofs ----------------------------
(***************************************************************************)
(* Proof that the switch emitted for a select goes where the select goes,  *)
(* whatever its keys and states and however many cases it has.             *)
(***************************************************************************)
EXTENDS Select, TLAPS

\* A case of a select, and the arm of its switch.
Arms == [key : Keys \cup {Default}, to : States]

TypeOK ==
  /\ pc \in {"state", "select", "emitted"}
  /\ hasDefault \in BOOLEAN
  /\ cases \in Seq(Arms) /\ arms \in Seq(Arms)

HasDefault == \E i \in 1 .. Len(cases) : cases[i].key = Default

\* The mid end leaves a default as the last case; the arms are the cases,
\* and behind them a default if the select has none.
SelectInv ==
  /\ TypeOK
  /\ \A i \in 1 .. Len(cases) : cases[i].key = Default => i = Len(cases)
  /\ pc = "select" => arms = cases /\ (hasDefault <=> HasDefault)
  /\ pc # "select" /\ HasDefault => arms = cases
  /\ pc # "select" /\ ~HasDefault => arms = Append(cases, Case(Default, Reject))

-----------------------------------------------------------------------------
(* The invariant                                                           *)

LEMMA DefaultArm == \A s \in States : Case(Default, s) \in Arms
  BY DEF Case, Arms

\* What a state has before its transition, or with one that is a goto.
LEMMA OneArm ==
  ASSUME NEW s \in States, cases' = <<Case(Default, s)>>, arms' = cases',
         pc' \in {"state", "emitted"}, hasDefault' \in BOOLEAN
  PROVE  SelectInv'
<1>1. Case(Default, s) \in Arms /\ Case(Default, s).key = Default
  BY DefaultArm DEF Case
<1>2. cases' \in Seq(Arms) /\ Len(cases') = 1 /\ cases'[1] = Case(Default, s)
  BY <1>1
<1>3. HasDefault'
  BY <1>1, <1>2 DEF HasDefault
<1> QED
  BY <1>2, <1>3 DEF SelectInv, TypeOK

LEMMA SelectInit == Init => SelectInv
<1> SUFFICES ASSUME Init PROVE SelectInv
  OBVIOUS
<1>1. Case(Default, Reject) \in Arms /\ Case(Default, Reject).key = Default
  BY DefaultArm, SelectAssumption DEF Case
<1>2. cases \in Seq(Arms) /\ Len(cases) = 1 /\ cases[1] = Case(Default, Reject)
  BY <1>1 DEF Init
<1>3. HasDefault
  BY <1>1, <1>2 DEF HasDefault
<1>4. pc = "state" /\ hasDefault \in BOOLEAN /\ arms = cases
  BY DEF Init
<1> QED
  BY <1>2, <1>3, <1>4 DEF SelectInv, TypeOK

LEMMA SelectStep == SelectInv /\ [Next]_vars => SelectInv'
<1> SUFFICES ASSUME SelectInv, [Next]_vars PROVE SelectInv'
  OBVIOUS
<1>1. CASE NextState
  BY <1>1, OneArm, SelectAssumption DEF NextState
<1>2. CASE Goto
  BY <1>2, OneArm DEF Goto, SelectInv, TypeOK
<1>3. CASE BeginSelect
  <2>1. /\ cases' = <<>> /\ arms' = <<>> /\ Len(cases') = 0
        /\ pc' = "select" /\ hasDefault' \in BOOLEAN /\ ~hasDefault'
    BY <1>3 DEF BeginSelect
  <2>2. ~HasDefault' /\ cases' \in Seq(Arms)
    BY <2>1 DEF HasDefault
  <2> QED
    BY <2>1, <2>2 DEF SelectInv, TypeOK
<1>4. CASE SelectCase
  <2>1. PICK k \in Keys \cup {Default}, s \in States :
          /\ cases' = Append(cases, Case(k, s))
          /\ arms' = Append(arms, Case(k, s))
          /\ hasDefault' = (hasDefault \/ k = Default)
    BY <1>4 DEF SelectCase
  <2>2. /\ pc = "select" /\ pc' = "select" /\ arms = cases
        /\ cases \in Seq(Arms) /\ (hasDefault <=> HasDefault)
    BY <1>4 DEF SelectCase, SelectInv, TypeOK
  <2>3. \A i \in 1 .. Len(cases) : cases[i].key # Default
    BY <1>4, <2>2 DEF SelectCase, SimplifySelectCases
  <2>4. Case(k, s) \in Arms /\ Case(k, s).key = k
    BY DEF Case, Arms
  <2>5. /\ cases' \in Seq(Arms) /\ Len(cases') = Len(cases) + 1
        /\ cases'[Len(cases) + 1] = Case(k, s)
        /\ \A i \in 1 .. Len(cases) : cases'[i] = cases[i]
        /\ Len(cases) \in Nat
    BY <2>1, <2>2, <2>4
  <2>6. HasDefault' <=> k = Default
    BY <2>3, <2>4, <2>5 DEF HasDefault
  <2>7. hasDefault' = (k = Default)
    BY <2>1, <2>2, <2>3 DEF HasDefault
  <2>8. \A i \in 1 .. Len(cases') : cases'[i].key = Default => i = Len(cases')
    BY <2>3, <2>5
  <2>9. arms' = cases'
    BY <2>1, <2>2
  <2> QED
    BY <2>2, <2>5, <2>6, <2>7, <2>8, <2>9 DEF SelectInv, TypeOK
<1>5. CASE EndSelect
  <2>1. Case(Default, Reject) \in Arms
    BY DefaultArm, SelectAssumption
  <2>2. HasDefault' = HasDefault
    BY <1>5 DEF EndSelect, HasDefault
  <2>3. arms' \in Seq(Arms)
    BY <1>5, <2>1 DEF EndSelect, SelectInv, TypeOK
  <2> QED
    BY <1>5, <2>2, <2>3 DEF EndSelect, SelectInv, TypeOK
<1>6. CASE UNCHANGED vars
  BY <1>6 DEF vars, SelectInv, TypeOK, HasDefault
<1> QED
  BY <1>1, <1>2, <1>3, <1>4, <1>5, <1>6 DEF Next

-----------------------------------------------------------------------------
(* The two languages agree                                                 *)

Matches(i, v) == cases[i].key \in {v, Default}

\* P4 takes the first case that matches.
LEMMA FirstMatch ==
  ASSUME NEW v, cases \in Seq(Arms), NEW m \in 1 .. Len(cases), Matches(m, v),
         \A i \in 1 .. Len(cases) : Matches(i, v) => m <= i
  PROVE  Match(v) = cases[m].to
<1> DEFINE I == {i \in 1 .. Len(cases) : cases[i].key \in {v, Default}}
           i0 == SelectInSeq(cases, LAMBDA c : c.key \in {v, Default})
<1>1. m \in I /\ \A i \in I : m <= i
  BY DEF Matches
<1>2. \A x \in I : (\A y \in I : x <= y) => x = m
  BY <1>1
<1>3. Min(I) = m
  BY <1>1, <1>2 DEF Min
<1>4. i0 = m /\ i0 # 0
  BY <1>1, <1>3 DEF SelectInSeq
<1> QED
  BY <1>4 DEF Match

LEMMA NoMatch ==
  ASSUME NEW v, \A i \in 1 .. Len(cases) : ~Matches(i, v)
  PROVE  Match(v) = Reject
  BY DEF Match, SelectInSeq, Matches

\* C takes the arm of the value, if there is one.
LEMMA JumpToArm ==
  ASSUME NEW v, arms \in Seq(Arms), Compiles,
         NEW m \in 1 .. Len(arms), arms[m].key = v
  PROVE  Jump(v) = arms[m].to
<1>1. ArmsOf(v) = {arms[m]}
  BY DEF ArmsOf, Range, Compiles
<1> QED
  BY <1>1 DEF Jump

\* And the default otherwise.
LEMMA JumpToDefault ==
  ASSUME NEW v, arms \in Seq(Arms), Compiles,
         \A i \in 1 .. Len(arms) : arms[i].key # v,
         NEW m \in 1 .. Len(arms), arms[m].key = Default
  PROVE  Jump(v) = arms[m].to
<1>1. ArmsOf(v) = {} /\ ArmsOf(Default) = {arms[m]}
  BY DEF ArmsOf, Range, Compiles
<1> QED
  BY <1>1 DEF Jump

\* A select that ends with a default is emitted as it is.
LEMMA WithDefault ==
  ASSUME SelectInv, Compiles, arms = cases, HasDefault, NEW v \in Keys
  PROVE  Jump(v) = Match(v)
<1> DEFINE n == Len(cases)
<1>1. /\ cases \in Seq(Arms) /\ n \in Nat \ {0} /\ cases[n].key = Default
      /\ \A i \in 1 .. n : cases[i].key = Default => i = n
  BY DEF SelectInv, TypeOK, HasDefault
<1>2. ASSUME NEW m \in 1 .. n, cases[m].key = v PROVE Jump(v) = Match(v)
  <2>1. \A i \in 1 .. n : Matches(i, v) => m <= i
    BY <1>1, <1>2 DEF Matches, Compiles
  <2> QED
    BY <1>1, <1>2, <2>1, FirstMatch, JumpToArm DEF Matches
<1>3. ASSUME \A i \in 1 .. n : cases[i].key # v PROVE Jump(v) = Match(v)
  <2>1. n \in 1 .. n /\ Matches(n, v)
        /\ \A i \in 1 .. n : Matches(i, v) => n <= i
    BY <1>1, <1>3 DEF Matches
  <2> QED
    BY <1>1, <1>3, <2>1, FirstMatch, JumpToDefault
<1> QED
  BY <1>2, <1>3

\* A select without one gets a default that rejects.
LEMMA WithoutDefault ==
  ASSUME SelectInv, Compiles, ~HasDefault, NEW v \in Keys,
         arms = Append(cases, Case(Default, Reject))
  PROVE  Jump(v) = Match(v)
<1> DEFINE n == Len(cases)
<1>1. /\ cases \in Seq(Arms) /\ arms \in Seq(Arms) /\ n \in Nat
      /\ Len(arms) = n + 1 /\ arms[n + 1] = Case(Default, Reject)
      /\ \A i \in 1 .. n : arms[i] = cases[i] /\ cases[i].key # Default
  BY DefaultArm, SelectAssumption DEF SelectInv, TypeOK, HasDefault
<1>2. v # Default
  BY SelectAssumption
<1>3. ASSUME NEW m \in 1 .. n, cases[m].key = v PROVE Jump(v) = Match(v)
  <2>1. m \in 1 .. n + 1 /\ arms[m] = cases[m]
    BY <1>1
  <2>2. \A i \in 1 .. n : Matches(i, v) => m <= i
    BY <1>1, <1>3, <2>1 DEF Matches, Compiles
  <2> QED
    BY <1>1, <1>3, <2>1, <2>2, FirstMatch, JumpToArm DEF Matches
<1>4. ASSUME \A i \in 1 .. n : cases[i].key # v PROVE Jump(v) = Match(v)
  <2>1. /\ n + 1 \in 1 .. n + 1
        /\ arms[n + 1].key = Default /\ arms[n + 1].to = Reject
        /\ \A i \in 1 .. n + 1 : arms[i].key # v
    BY <1>1, <1>2, <1>4 DEF Case
  <2>2. Match(v) = Reject
    BY <1>1, <1>4, NoMatch DEF Matches
  <2> QED
    BY <1>1, <2>1, <2>2, JumpToDefault
<1> QED
  BY <1>3, <1>4

\* Two equal labels come from two cases with the same key.
LEMMA EqualLabels ==
  ASSUME SelectInv, pc # "select", ~Compiles
  PROVE  \E i, j \in DOMAIN cases : i # j /\ cases[i].key = cases[j].key
<1>1. PICK i \in DOMAIN arms, j \in DOMAIN arms : i # j /\ arms[i].key = arms[j].key
  BY DEF Compiles
<1>2. cases \in Seq(Arms) /\ arms \in Seq(Arms)
  BY DEF SelectInv, TypeOK
<1>3. CASE HasDefault
  BY <1>1, <1>3 DEF SelectInv
<1>4. CASE ~HasDefault
  <2> DEFINE n == Len(cases)
  <2>1. /\ n \in Nat /\ DOMAIN cases = 1 .. n /\ DOMAIN arms = 1 .. n + 1
        /\ arms[n + 1].key = Default
        /\ \A k \in 1 .. n : arms[k] = cases[k] /\ cases[k].key # Default
    BY <1>2, <1>4, DefaultArm, SelectAssumption DEF SelectInv, HasDefault, Case
  <2>2. i \in 1 .. n /\ j \in 1 .. n
    BY <1>1, <2>1
  <2> QED
    BY <1>1, <2>1, <2>2
<1> QED
  BY <1>3, <1>4

\* For every value selected on, the switch takes the arm of the case P4 takes,
\* and it never falls through into the next state's code; a C compiler refuses
\* it only if the select repeats a key.
THEOREM SwitchCorrect == Spec => []SwitchIsSelect
<1>1. SelectInv => SwitchIsSelect
  <2> SUFFICES ASSUME SelectInv, pc # "select"
               PROVE  IF Compiles THEN \A v \in Keys : Jump(v) = Match(v)
                      ELSE \E i, j \in DOMAIN cases :
                             i # j /\ cases[i].key = cases[j].key
    BY DEF SwitchIsSelect
  <2>1. CASE Compiles
    BY <2>1, WithDefault, WithoutDefault DEF SelectInv
  <2>2. CASE ~Compiles
    BY <2>2, EqualLabels
  <2> QED
    BY <2>1, <2>2
<1> QED
  BY <1>1, SelectInit, SelectStep, PTL DEF Spec
=============================================================================
