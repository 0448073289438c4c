---------------------------- MODULE FppFlowProofs ----------------------------
(***************************************************************************)
(* Proofs that what FppFlow checks of the single states of a P4 parser     *)
(* holds of every run of the emitted function: for every packet length,    *)
(* every heap and any number of calls.                                     *)
(***************************************************************************)
EXTENDS FppFlow, FppParserProofs

-----------------------------------------------------------------------------
(* Statements of a state                                                   *)

\* Nothing comes before the first statement of a state.
LEMMA AtFirst ==
  ASSUME NEW s \in States
  PROVE  /\ AssignedAt(s, 1) = Before[s]
         /\ InScope(s, 1) = {}
         /\ LastAt(s, 1) = Above[s]
<1>1. 1 .. 1 - 1 = {}
  OBVIOUS
<1> QED
  BY <1>1 DEF AssignedAt, InScope, LastAt

\* What a statement adds to what is known before it.
LEMMA AtNext ==
  ASSUME NEW s \in States, NEW p \in Nat \ {0}
  PROVE  /\ AssignedAt(s, p + 1) = AssignedAt(s, p) \cup Sets(s, p)
         /\ InScope(s, p + 1) =
              IF Lists(s, p) THEN {Body[s][p].hdr} ELSE InScope(s, p)
         /\ LastAt(s, p + 1) =
              IF Lists(s, p) THEN {Body[s][p].hdr} ELSE LastAt(s, p)
<1>1. 1 .. (p + 1) - 1 = (1 .. p - 1) \cup {p}
  OBVIOUS
<1>2. AssignedAt(s, p + 1) = AssignedAt(s, p) \cup Sets(s, p)
  BY <1>1 DEF AssignedAt
<1>3. InScope(s, p + 1) = IF Lists(s, p) THEN {Body[s][p].hdr} ELSE InScope(s, p)
  <2>1. CASE Lists(s, p)
    <3>1. \A i \in 1 .. (p + 1) - 1 : IsLast(s, i, p + 1) <=> i = p
      BY <2>1 DEF IsLast
    <3> QED
      BY <1>1, <2>1, <3>1 DEF InScope
  <2>2. CASE ~Lists(s, p)
    <3>1. \A i \in 1 .. p - 1 : IsLast(s, i, p + 1) <=> IsLast(s, i, p)
      BY <2>2 DEF IsLast
    <3>2. ~IsLast(s, p, p + 1)
      BY <2>2 DEF IsLast
    <3> QED
      BY <1>1, <2>2, <3>1, <3>2 DEF InScope
  <2> QED
    BY <2>1, <2>2
<1>4. LastAt(s, p + 1) = IF Lists(s, p) THEN {Body[s][p].hdr} ELSE LastAt(s, p)
  BY <1>1, <1>3 DEF LastAt
<1> QED
  BY <1>2, <1>3, <1>4

\* The statement that is running, as the conditions name it.
LEMMA RunningSets ==
  ASSUME TypeOK, pos <= Len(Body[state])
  PROVE  /\ state \in States /\ pos \in Nat \ {0} /\ pos \in DOMAIN Body[state]
         /\ Current.op = "extract" =>
              /\ Sets(state, pos) = {Extracted} \ Listed
              /\ Lists(state, pos) <=> Extracted \in Listed
              /\ Body[state][pos].hdr = Extracted
         /\ Current.op = "advance" => Sets(state, pos) = {} /\ ~Lists(state, pos)
         /\ Current.op \in {"lookahead", "assign"} =>
              Sets(state, pos) = {Current.var} /\ ~Lists(state, pos)
<1>1. state \in States /\ pos \in Nat \ {0} /\ Body[state] \in Seq(Stmt)
  BY ProgramAssumption DEF TypeOK
<1>2. pos \in DOMAIN Body[state]
  BY <1>1
<1> QED
  BY <1>1, <1>2 DEF Current, Extracted, Sets, Lists

\* The position in a state never passes the end of its statements.
Within == pos <= AtEnd(state)

LEMMA StateEnd ==
  ASSUME NEW s \in States
  PROVE  Len(Body[s]) \in Nat /\ AtEnd(s) = Len(Body[s]) + 1 /\ AtEnd(s) >= 1
<1>1. Len(Body[s]) \in Nat
  BY ProgramAssumption
<1> QED
  BY <1>1 DEF AtEnd

LEMMA WithinInit == Init => Within
  BY StateEnd, ProgramAssumption DEF Init, Within

LEMMA WithinStep == TypeInv /\ Within /\ [Next]_vars => Within'
<1> SUFFICES ASSUME TypeInv, Within, [Next]_vars PROVE Within'
  OBVIOUS
<1>1. ASSUME state' \in States, pos' = 1 PROVE Within'
  BY <1>1, StateEnd DEF Within
<1>2. ASSUME UNCHANGED <<state, pos>> PROVE Within'
  BY <1>2 DEF Within
<1>3. ASSUME state' = state, pos' = pos + 1, pos <= Len(Body[state]) PROVE Within'
  <2>1. state \in States /\ pos \in Nat
    BY DEF TypeInv, TypeOK
  <2> QED
    BY <1>3, <2>1, StateEnd DEF Within
<1>4. CASE (\E n \in Lens : Call(n)) \/ Release
  BY <1>1, <1>4, ProgramAssumption DEF Call, Release, Forget
<1>5. CASE LoadFields
  BY <1>3, <1>5 DEF LoadFields, TypeInv, Control, InExtract, AtExtract
<1>6. CASE Advance \/ Assign
  BY <1>3, <1>6 DEF Advance, Assign, AtStatement
<1>7. CASE Transition
  BY <1>1, <1>2, <1>7 DEF Transition
<1>8. CASE ExtractTooShort \/ ExtractFits \/ AllocHeader \/ AllocNode \/ LinkNode
  BY <1>2, <1>8 DEF ExtractTooShort, ExtractFits, AllocHeader, AllocNode,
     OutOfMemory, LinkNode, callVars
<1>9. CASE AcceptState \/ RejectState \/ EndLabel
  BY <1>2, <1>9 DEF AcceptState, RejectState, EndLabel, Leave
<1>10. CASE UNCHANGED vars
  BY <1>2, <1>10 DEF vars, callVars
<1> QED
  BY <1>4, <1>5, <1>6, <1>7, <1>8, <1>9, <1>10 DEF Next, ParserNext

-----------------------------------------------------------------------------
(* What is read is defined                                                 *)

\* At the running statement all is assigned that its state promises, and
\* headers points to the header the state has extracted last.
Scoped == pc \in {"allocNode", "link"} \/ Loading
Reading == pc = "statement" \/ (pc = "load" /\ ~Loading)

ReadsInv ==
  /\ AssignedAt(state, pos) \subseteq assigned
  /\ Reading => InScope(state, pos) \subseteq {scope}
  /\ Scoped => scope = Extracted

\* A new call.
LEMMA ReadsBegin ==
  ASSUME TypeInv, ReadsFlow, state' = Start, pos' = 1, pc' \in {"idle", "statement"}
  PROVE  ReadsInv'
<1>1. AssignedAt(Start, 1) = {} /\ InScope(Start, 1) = {}
  BY AtFirst, ProgramAssumption DEF ReadsFlow
<1>2. (AssignedAt(state, pos))' = AssignedAt(Start, 1)
      /\ (InScope(state, pos))' = InScope(Start, 1)
  BY DEF AssignedAt, InScope, Sets, IsLast, Lists
<1> QED
  BY <1>1, <1>2 DEF ReadsInv, Scoped, Reading, Loading

\* A step that stays at its statement and leaves what is known alone.
LEMMA ReadsStay ==
  ASSUME ReadsInv, UNCHANGED <<state, pos, assigned>>,
         Reading' => Reading /\ scope' = scope,
         Scoped' => scope' = Extracted'
  PROVE  ReadsInv'
<1>1. (AssignedAt(state, pos))' = AssignedAt(state, pos)
      /\ (InScope(state, pos))' = InScope(state, pos)
  BY DEF AssignedAt, InScope, Sets, IsLast, Lists
<1> QED
  BY <1>1 DEF ReadsInv

\* A statement done: it has assigned what AssignedAt says it does.
LEMMA ReadsOn ==
  ASSUME TypeInv, ReadsInv, pos <= Len(Body[state]),
         pc \in {"statement", "load"}, pc' = "statement",
         UNCHANGED <<state, scope>>, pos' = pos + 1,
         assigned' = assigned \cup Sets(state, pos),
         Lists(state, pos) <=> Loading
  PROVE  ReadsInv'
<1>1. state \in States /\ pos \in Nat \ {0}
      /\ Body[state][pos].hdr = Extracted
  BY RunningSets DEF TypeInv, TypeOK, Extracted, Current
<1>2. /\ (AssignedAt(state, pos))' = AssignedAt(state, pos + 1)
      /\ (InScope(state, pos))' = InScope(state, pos + 1)
  BY DEF AssignedAt, InScope, Sets, IsLast, Lists
<1>3. (AssignedAt(state, pos))' \subseteq assigned'
  BY <1>1, <1>2, AtNext DEF ReadsInv
<1>4. (InScope(state, pos))' \subseteq {scope}
  BY <1>1, <1>2, AtNext DEF ReadsInv, Scoped, Reading, Loading
<1> QED
  BY <1>3, <1>4 DEF ReadsInv, Scoped, Reading, Loading

\* Every step keeps the promises of the tables.
LEMMA ReadsStep ==
  ASSUME ReadsFlow, TypeInv, ReadsInv, [Next]_vars
  PROVE  ReadsInv'
<1>1. CASE \E n \in Lens : Call(n)
  BY <1>1, ReadsBegin DEF Call
<1>2. CASE Release
  BY <1>2, ReadsBegin DEF Release, Forget
<1>3. CASE ExtractTooShort
  BY <1>3, ReadsStay DEF ExtractTooShort, Reading, Scoped, Loading
<1>4. CASE ExtractFits
  <2>1. pc = "statement" /\ pc' \in {"allocHeader", "load"}
        /\ (pc' = "load" => Extracted \notin Listed)
        /\ UNCHANGED <<state, pos, assigned, scope>>
    BY <1>4 DEF ExtractFits, Extracting, AtStatement, callVars
  <2>2. Extracted' = Extracted
    BY <2>1 DEF Extracted, Current
  <2> QED
    BY <2>1, <2>2, ReadsStay DEF Reading, Scoped, Loading
<1>5. CASE AllocHeader
  <2>1. pc = "allocHeader" /\ UNCHANGED <<state, pos, assigned>>
        /\ (pc' = "fpp_end" \/ (pc' = "allocNode" /\ scope' = Extracted))
    BY <1>5 DEF AllocHeader, OutOfMemory
  <2>2. Extracted' = Extracted
    BY <2>1 DEF Extracted, Current
  <2> QED
    BY <2>1, <2>2, ReadsStay DEF Reading, Scoped, Loading
<1>6. CASE AllocNode \/ LinkNode
  <2>1. pc \in {"allocNode", "link"} /\ pc' \in {"fpp_end", "link", "load"}
        /\ (pc = "allocNode" => pc' # "load")
        /\ UNCHANGED <<state, pos, assigned>> /\ scope' = scope
    BY <1>6 DEF AllocNode, LinkNode, OutOfMemory, callVars
  <2>2. Extracted' = Extracted
    BY <2>1 DEF Extracted, Current
  <2>3. Extracted \in Listed
    BY <2>1 DEF TypeInv, Control
  <2> QED
    BY <2>1, <2>2, <2>3, ReadsStay DEF ReadsInv, Reading, Scoped, Loading
<1>7. CASE LoadFields
  <2>1. /\ pc = "load" /\ pc' = "statement" /\ pos' = pos + 1
        /\ UNCHANGED <<state, scope>>
        /\ assigned' = assigned \cup ({Extracted} \ Listed)
    BY <1>7 DEF LoadFields
  <2>2. pos <= Len(Body[state]) /\ Current.op = "extract"
    BY <2>1 DEF TypeInv, Control, InExtract, AtExtract
  <2> QED
    BY <2>1, <2>2, RunningSets, ReadsOn DEF TypeInv, Loading
<1>8. CASE Advance
  <2>1. /\ pc = "statement" /\ pc' = "statement" /\ pos' = pos + 1
        /\ UNCHANGED <<state, scope, assigned>>
        /\ pos <= Len(Body[state]) /\ Current.op = "advance"
    BY <1>8 DEF Advance, AtStatement
  <2> QED
    BY <2>1, RunningSets, ReadsOn DEF TypeInv, Loading
<1>9. CASE Assign
  <2>1. /\ pc = "statement" /\ pc' = "statement" /\ pos' = pos + 1
        /\ UNCHANGED <<state, scope>> /\ assigned' = assigned \cup {Current.var}
        /\ pos <= Len(Body[state]) /\ Current.op \in {"assign", "lookahead"}
    BY <1>9 DEF Assign, AtStatement
  <2> QED
    BY <2>1, RunningSets, ReadsOn DEF TypeInv, Loading
<1>10. CASE Transition
  <2>1. PICK t \in Targets[state] :
          IF t \in States
            THEN state' = t /\ pos' = 1 /\ scope' = NULL /\ UNCHANGED pc
            ELSE pc' = t /\ UNCHANGED <<state, pos, scope>>
    BY <1>10 DEF Transition
  <2>2. /\ pc = "statement" /\ pos > Len(Body[state]) /\ assigned' = assigned
        /\ state \in States /\ pos \in Nat
    BY <1>10 DEF Transition, AtTransition, TypeInv, TypeOK
  <2>3. CASE t \in States
    <3>1. AssignedAt(state, AtEnd(state)) \subseteq AssignedAt(state, pos)
      <4>1. Len(Body[state]) \in Nat
        BY <2>2, ProgramAssumption
      <4> QED
        BY <2>2, <4>1 DEF AssignedAt, AtEnd
    <3>2. Before[t] \subseteq assigned
      BY <2>2, <2>3, <3>1 DEF ReadsFlow, ReadsInv
    <3>3. /\ (AssignedAt(state, pos))' = AssignedAt(t, 1)
          /\ (InScope(state, pos))' = InScope(t, 1)
      BY <2>1, <2>3 DEF AssignedAt, InScope, Sets, IsLast, Lists
    <3>4. pc' = "statement"
      BY <2>1, <2>2, <2>3
    <3> QED
      BY <2>2, <2>3, <3>2, <3>3, <3>4, AtFirst DEF ReadsInv, Scoped, Loading
  <2>4. CASE t \notin States
    <3>1. pc' \in {"accept", "reject"}
      BY <2>1, <2>2, <2>4, ProgramAssumption
    <3> QED
      BY <2>1, <2>2, <2>4, <3>1, ReadsStay DEF Reading, Scoped, Loading
  <2> QED
    BY <2>3, <2>4
<1>11. CASE AcceptState \/ RejectState \/ EndLabel
  BY <1>11, ReadsStay DEF AcceptState, RejectState, EndLabel, Leave,
     Reading, Scoped, Loading
<1>12. CASE UNCHANGED vars
  <2>1. UNCHANGED <<pc, state, pos, assigned, scope>>
    BY <1>12 DEF vars, callVars
  <2>2. Extracted' = Extracted
    BY <2>1 DEF Extracted, Current
  <2> QED
    BY <2>1, <2>2, ReadsStay DEF ReadsInv, Reading, Scoped, Loading
<1> QED
  BY <1>1, <1>2, <1>3, <1>4, <1>5, <1>6, <1>7, <1>8, <1>9, <1>10, <1>11, <1>12
  DEF Next, ParserNext

\* Nothing is promised at the start.
LEMMA ReadsInit == ASSUME ReadsFlow, Init PROVE ReadsInv
<1>1. AssignedAt(Start, 1) = {} /\ InScope(Start, 1) = {}
  BY AtFirst, ProgramAssumption DEF ReadsFlow
<1> QED
  BY <1>1 DEF Init, ReadsInv, Scoped, Reading, Loading

\* In a program whose states find assigned what they read, no expression of
\* the emitted function reads an uninitialised local or another header than
\* the one the P4 program names.
THEOREM ReadsCorrect == ASSUME ReadsFlow PROVE Spec => []ReadsDefined
<1>1. Init => TypeInv /\ Within /\ ReadsInv
  BY TypeInit, WithinInit, ReadsInit
<1>2. TypeInv /\ Within /\ ReadsInv /\ [Next]_vars => (TypeInv /\ Within /\ ReadsInv)'
  BY TypeStep, WithinStep, ReadsStep
<1>3. TypeInv /\ Within /\ ReadsInv => ReadsDefined
  <2> SUFFICES ASSUME TypeInv, Within, ReadsInv PROVE ReadsDefined
    OBVIOUS
  <2>1. state \in States /\ pos \in Nat \ {0} /\ Len(Body[state]) \in Nat
        /\ DOMAIN Body[state] = 1 .. Len(Body[state])
    BY ProgramAssumption DEF TypeInv, TypeOK
  <2>2. ASSUME AtStatement, Current.op \in {"assign", "advance"}
        PROVE  Current.reads \subseteq assigned \cup {scope}
    <3>1. Current.reads \subseteq Known(state, pos)
      BY <2>1, <2>2 DEF ReadsFlow, AtStatement, Current
    <3> QED
      BY <2>2, <3>1 DEF Known, ReadsInv, Reading, AtStatement
  <2>3. ASSUME AtTransition
        PROVE  SelectReads[state] \subseteq assigned \cup {scope}
    <3>1. SelectReads[state] \subseteq Known(state, AtEnd(state))
      BY <2>1 DEF ReadsFlow
    <3>2. pos = AtEnd(state)
      BY <2>1, <2>3 DEF Within, AtTransition, AtEnd
    <3> QED
      BY <2>3, <3>1, <3>2 DEF Known, ReadsInv, Reading, AtTransition
  <2> QED
    BY <2>2, <2>3 DEF ReadsDefined
<1> QED
  BY <1>1, <1>2, <1>3, PTL DEF Spec

-----------------------------------------------------------------------------
(* The list is a protocol stack                                            *)

\* Before the node of the running statement is linked, the last type on the
\* list is one that LastAt names.
Ahead ==
  \/ pc \in {"statement", "allocHeader", "allocNode", "link"}
  \/ pc = "load" /\ ~Loading

LastType == TypeAt(Len(chain))

\* No error code is NoError: only accept returns that.
StackInv ==
  /\ Layered
  /\ Ahead => LastType \in LastAt(state, pos)
  /\ Loading => LastType = Extracted
  /\ pc = "accept" => LastType \in Final
  /\ AcceptedDeepEnough
  /\ errorCode # "NoError"

\* An empty list: a new call, or none.
LEMMA StackEmpty ==
  ASSUME StackFlow, chain' = <<>>, state' = Start, pos' = 1,
         pc' \in {"idle", "statement"}, errorCode' # "NoError"
  PROVE  StackInv'
<1>1. Layered' /\ LastType' = NULL
  BY DEF Layered, LastType, TypeAt
<1>2. (LastAt(state, pos))' = LastAt(Start, 1)
  BY DEF LastAt, InScope, IsLast, Lists
<1>3. NULL \in LastAt(Start, 1)
  BY AtFirst, ProgramAssumption DEF StackFlow
<1> QED
  BY <1>1, <1>2, <1>3 DEF StackInv, Ahead, Loading, AcceptedDeepEnough

\* A step that changes neither the list nor the types of its nodes.
LEMMA StackSame ==
  ASSUME TypeInv, Layered, UNCHANGED chain,
         \A i \in 1 .. Len(chain) : node'[chain[i]].type = node[chain[i]].type
  PROVE  Layered' /\ LastType' = LastType
<1>1. chain \in Seq(Blocks) /\ Len(chain) \in Nat
  BY DEF TypeInv, TypeOK
<1>2. ASSUME NEW i \in 0 .. Len(chain) PROVE TypeAt(i)' = TypeAt(i)
  BY <1>1, <1>2 DEF TypeAt
<1>3. LastType' = LastType
  <2>1. (TypeAt(Len(chain)))' = TypeAt(Len(chain))
    BY <1>1 DEF TypeAt
  <2> QED
    BY <2>1 DEF LastType
<1>4. ASSUME NEW i \in 1 .. Len(chain)
      PROVE  TypeAt(i - 1)' \in Under[TypeAt(i)']
  <2>1. i \in 0 .. Len(chain) /\ i - 1 \in 0 .. Len(chain)
    BY <1>1
  <2>2. TypeAt(i - 1) \in Under[TypeAt(i)]
    BY DEF Layered
  <2> QED
    BY <1>2, <2>1, <2>2
<1> QED
  BY <1>3, <1>4 DEF Layered

\* Such a step that also stays at its statement.
LEMMA StackStay ==
  ASSUME TypeInv, StackInv, UNCHANGED <<chain, state, pos>>,
         \A i \in 1 .. Len(chain) : node'[chain[i]].type = node[chain[i]].type,
         Ahead' => Ahead, Loading' => Loading,
         pc' = "accept" => pc = "accept",
         pc' = "returned" /\ ret' = "NoError" =>
           (pc = "accept" \/ (pc = "returned" /\ ret = "NoError")),
         errorCode' # "NoError"
  PROVE  StackInv'
<1>1. Layered' /\ LastType' = LastType
  BY StackSame DEF StackInv
<1>2. (LastAt(state, pos))' = LastAt(state, pos) /\ Extracted' = Extracted
  BY DEF LastAt, InScope, IsLast, Lists, Extracted, Current
<1>3. AcceptedDeepEnough'
  BY <1>1 DEF StackInv, AcceptedDeepEnough, LastType
<1> QED
  BY <1>1, <1>2, <1>3 DEF StackInv

\* A statement done: the last type is the one it listed, or the same.
LEMMA StackOn ==
  ASSUME TypeInv, StackInv, pos <= Len(Body[state]),
         pc \in {"statement", "load"}, pc' = "statement",
         UNCHANGED <<state, chain, node, errorCode>>, pos' = pos + 1,
         Lists(state, pos) <=> Loading
  PROVE  StackInv'
<1>1. Layered' /\ LastType' = LastType
  BY StackSame DEF StackInv
<1>2. state \in States /\ pos \in Nat \ {0}
      /\ Body[state][pos].hdr = Extracted
  BY RunningSets DEF TypeInv, TypeOK, Extracted, Current
<1>3. (LastAt(state, pos))' = LastAt(state, pos + 1)
  BY DEF LastAt, InScope, IsLast, Lists
<1>4. LastType \in LastAt(state, pos + 1)
  BY <1>2, AtNext DEF StackInv, Ahead, Loading
<1> QED
  BY <1>1, <1>3, <1>4 DEF StackInv, Ahead, Loading, AcceptedDeepEnough

\* The new last node is of the type extracted, on one that can carry it.
LEMMA StackLink ==
  ASSUME StackFlow, TypeInv, HeapInv, StackInv, LinkNode
  PROVE  StackInv'
<1> DEFINE n == Len(chain)
           After(i) == IF i = 0 THEN NULL ELSE node'[chain'[i]].type
<1>1. /\ pc = "link" /\ pc' = "load" /\ chain' = Append(chain, hdr)
      /\ UNCHANGED <<state, pos, errorCode>>
  BY DEF LinkNode, callVars
<1>2. /\ hdr \in Blocks /\ Extracted \in Listed /\ node[hdr].type = Extracted
      /\ pos <= Len(Body[state]) /\ Current.op = "extract"
  BY <1>1 DEF TypeInv, Control, InExtract, AtExtract, Placed, HeapInv, Linking
<1>3. chain \in Seq(Blocks) /\ n \in Nat
  BY DEF TypeInv, TypeOK
<1>4. /\ Len(chain') = n + 1 /\ chain'[n + 1] = hdr
      /\ \A i \in 1 .. n : chain'[i] = chain[i]
  BY <1>1, <1>2, <1>3
<1>5. ASSUME NEW i \in 0 .. n PROVE After(i) = TypeAt(i)
  BY <1>3, <1>4, <1>5, LinkNodeKeeps DEF TypeAt
<1>6. After(n + 1) = Extracted
  BY <1>2, <1>3, <1>4, LinkNodeKeeps
<1>7. TypeAt(n) \in Under[Extracted]
  <2>1. Lists(state, pos) /\ Body[state][pos].hdr = Extracted
        /\ state \in States /\ pos \in DOMAIN Body[state]
    BY <1>2, RunningSets DEF TypeInv
  <2>2. TypeAt(n) \in LastAt(state, pos)
    BY <1>1 DEF StackInv, Ahead, LastType
  <2> QED
    BY <2>1, <2>2 DEF StackFlow
<1>8. Layered'
  <2>1. ASSUME NEW i \in 1 .. n + 1 PROVE After(i - 1) \in Under[After(i)]
    <3>1. CASE i = n + 1
      <4>1. i - 1 = n /\ n \in 0 .. n
        BY <1>3, <3>1
      <4> QED
        BY <1>5, <1>6, <1>7, <3>1, <4>1
    <3>2. CASE i # n + 1
      <4>1. i \in 1 .. n /\ i \in 0 .. n /\ i - 1 \in 0 .. n
        BY <1>3, <3>2
      <4>2. TypeAt(i - 1) \in Under[TypeAt(i)]
        BY <4>1 DEF StackInv, Layered
      <4> QED
        BY <1>5, <4>1, <4>2
    <3> QED
      BY <3>1, <3>2
  <2> QED
    BY <1>4, <2>1 DEF Layered, TypeAt
<1>9. LastType' = Extracted /\ Extracted' = Extracted
  <2>1. (TypeAt(Len(chain)))' = Extracted
    BY <1>3, <1>4, <1>6 DEF TypeAt
  <2> QED
    BY <1>1, <2>1 DEF LastType, Extracted, Current
<1> QED
  BY <1>1, <1>2, <1>8, <1>9 DEF StackInv, Ahead, Loading, AcceptedDeepEnough

\* Every step keeps the list a stack.
LEMMA StackStep ==
  ASSUME StackFlow, TypeInv, HeapInv, Within, StackInv, [Next]_vars
  PROVE  StackInv'
<1>1. CASE \E n \in Lens : Call(n)
  <2>1. chain' = <<>>
    BY <1>1 DEF Call, HeapInv, Linking
  <2> QED
    BY <1>1, <2>1, StackEmpty DEF Call
<1>2. CASE Release
  BY <1>2, StackEmpty DEF Release, Forget
<1>3. CASE ExtractTooShort
  BY <1>3, StackStay DEF ExtractTooShort, Ahead, Loading, heapVars
<1>4. CASE ExtractFits
  <2>1. pc = "statement" /\ pc' \in {"allocHeader", "load"}
        /\ (pc' = "load" => Extracted \notin Listed)
        /\ UNCHANGED <<state, pos, errorCode, chain, node>>
    BY <1>4 DEF ExtractFits, Extracting, AtStatement, callVars, heapVars
  <2>2. Extracted' = Extracted
    BY <2>1 DEF Extracted, Current
  <2> QED
    BY <2>1, <2>2, StackStay DEF Ahead, Loading, StackInv
<1>5. CASE AllocHeader \/ AllocNode
  <2>1. /\ pc \in {"allocHeader", "allocNode"}
        /\ pc' \in {"allocNode", "link", "fpp_end"}
        /\ UNCHANGED <<state, pos, chain>>
        /\ errorCode' \in {errorCode, "OutOfMemory"}
    BY <1>5 DEF AllocHeader, AllocNode, OutOfMemory, callVars
  <2>2. \A i \in 1 .. Len(chain) : node'[chain[i]] = node[chain[i]]
    BY <1>5, AllocHeaderKeeps, AllocNodeKeeps
  <2> QED
    BY <2>1, <2>2, StackStay DEF Ahead, Loading, StackInv
<1>6. CASE LinkNode
  BY <1>6, StackLink
<1>7. CASE LoadFields
  <2>1. /\ pc = "load" /\ pc' = "statement" /\ pos' = pos + 1
        /\ UNCHANGED <<state, errorCode, chain, node>>
    BY <1>7 DEF LoadFields
  <2>2. pos <= Len(Body[state]) /\ Current.op = "extract"
    BY <2>1 DEF TypeInv, Control, InExtract, AtExtract
  <2> QED
    BY <2>1, <2>2, RunningSets, StackOn DEF TypeInv, Loading
<1>8. CASE Advance \/ Assign
  <2>1. /\ pc = "statement" /\ pc' = "statement" /\ pos' = pos + 1
        /\ UNCHANGED <<state, errorCode, chain, node>>
        /\ pos <= Len(Body[state])
        /\ Current.op \in {"advance", "assign", "lookahead"}
    BY <1>8 DEF Advance, Assign, AtStatement, heapVars
  <2> QED
    BY <2>1, RunningSets, StackOn DEF TypeInv, Loading
<1>9. CASE Transition
  <2>1. PICK t \in Targets[state] :
          IF t \in States
            THEN state' = t /\ pos' = 1 /\ scope' = NULL /\ UNCHANGED pc
            ELSE pc' = t /\ UNCHANGED <<state, pos, scope>>
    BY <1>9 DEF Transition
  <2>2. /\ pc = "statement" /\ UNCHANGED <<errorCode, chain, node>>
        /\ state \in States /\ pos = AtEnd(state)
    <3>1. pos > Len(Body[state]) /\ state \in States /\ pos \in Nat
      BY <1>9 DEF Transition, AtTransition, TypeInv, TypeOK
    <3> QED
      BY <1>9, <3>1, StateEnd DEF Within, Transition, AtTransition, heapVars
  <2>3. Layered' /\ LastType' = LastType
    BY <2>2, StackSame DEF StackInv
  <2>4. LastType \in LastAt(state, AtEnd(state))
    BY <2>2 DEF StackInv, Ahead
  <2>5. CASE t \in States
    <3>1. (LastAt(state, pos))' = LastAt(t, 1)
      BY <2>1, <2>5 DEF LastAt, InScope, IsLast, Lists
    <3>2. LastType \in LastAt(t, 1)
      BY <2>2, <2>4, <2>5, AtFirst DEF StackFlow
    <3>3. pc' = "statement"
      BY <2>1, <2>2, <2>5
    <3> QED
      BY <2>2, <2>3, <3>1, <3>2, <3>3
      DEF StackInv, Ahead, Loading, AcceptedDeepEnough
  <2>6. CASE t \notin States
    <3>1. pc' = t /\ t \in {"accept", "reject"}
      BY <2>1, <2>2, <2>6, ProgramAssumption
    <3>2. pc' = "accept" => LastType \in Final
      BY <2>2, <2>4, <3>1 DEF StackFlow
    <3> QED
      BY <2>2, <2>3, <3>1, <3>2
      DEF StackInv, Ahead, Loading, AcceptedDeepEnough
  <2> QED
    BY <2>5, <2>6
<1>10. CASE AcceptState \/ RejectState \/ EndLabel
  <2>1. /\ pc \in {"accept", "reject", "fpp_end"} /\ pc' = "returned"
        /\ UNCHANGED <<state, pos, errorCode, chain, node>>
        /\ (pc # "accept" => ret' = errorCode)
    BY <1>10 DEF AcceptState, RejectState, EndLabel, Leave, heapVars
  <2> QED
    BY <2>1, StackStay DEF Ahead, Loading, StackInv
<1>11. CASE UNCHANGED vars
  <2>1. UNCHANGED <<pc, state, pos, errorCode, ret, chain, node>>
    BY <1>11 DEF vars, callVars, heapVars
  <2>2. Extracted' = Extracted
    BY <2>1 DEF Extracted, Current
  <2> QED
    BY <2>1, <2>2, StackStay DEF StackInv, Ahead, Loading
<1> QED
  BY <1>1, <1>2, <1>3, <1>4, <1>5, <1>6, <1>7, <1>8, <1>9, <1>10, <1>11
  DEF Next, ParserNext

LEMMA StackInvariant == ASSUME StackFlow PROVE Spec => []StackInv
<1>1. Init => TypeInv /\ HeapInv /\ Within /\ StackInv
  <2> SUFFICES ASSUME Init PROVE StackInv
    BY TypeInit, HeapInit, WithinInit
  <2>1. NULL \in Above[Start]
    BY DEF StackFlow
  <2> QED
    BY <2>1 DEF Init, StackInv, Layered, Ahead, Loading, AcceptedDeepEnough
<1>2. TypeInv /\ HeapInv /\ Within /\ StackInv /\ [Next]_vars
      => (TypeInv /\ HeapInv /\ Within /\ StackInv)'
  BY TypeStep, HeapStep, WithinStep, StackStep
<1> QED
  BY <1>1, <1>2, PTL DEF Spec

\* In a program whose states list only headers that can follow the last one,
\* the list a caller walks is a protocol stack, however the packet is made
\* and wherever the function stops.
THEOREM ListIsStack == ASSUME StackFlow PROVE Spec => []Layered
<1>1. StackInv => Layered
  BY DEF StackInv
<1> QED
  BY StackInvariant, <1>1, PTL

\* And if it accepts only behind a final header, so does the function.
THEOREM AcceptsDeepEnough == ASSUME StackFlow PROVE Spec => []AcceptedDeepEnough
<1>1. StackInv => AcceptedDeepEnough
  BY DEF StackInv
<1> QED
  BY StackInvariant, <1>1, PTL

-----------------------------------------------------------------------------
(* The offset is at a byte boundary                                        *)

\* Sums of whole bytes are whole bytes.
LEMMA WholeBytes ==
  ASSUME NEW a \in Int, NEW b \in Int, b % 8 = 0
  PROVE  (a + b) % 8 = a % 8
  OBVIOUS

\* A step that moves the offset by n bits, none or whole bytes or behind an
\* odd local.
LEMMA AlignOn ==
  ASSUME TypeInv, OnlyOddMisaligns, NEW n \in Int,
         offset' = offset + n, assigned \subseteq assigned',
         n % 8 = 0 \/ assigned \cap Odd # {}
  PROVE  OnlyOddMisaligns'
<1>1. offset \in Int
  BY DEF TypeInv, TypeOK
<1> QED
  BY <1>1, WholeBytes DEF OnlyOddMisaligns

LEMMA AlignStep ==
  ASSUME AlignFlow, TypeInv, ReadsInv, OnlyOddMisaligns, [Next]_vars
  PROVE  OnlyOddMisaligns'
<1>1. ASSUME offset' = 0 PROVE OnlyOddMisaligns'
  BY <1>1 DEF OnlyOddMisaligns
<1>2. ASSUME UNCHANGED <<offset, assigned>> PROVE OnlyOddMisaligns'
  BY <1>2 DEF OnlyOddMisaligns
<1>3. CASE (\E n \in Lens : Call(n)) \/ Release
  BY <1>1, <1>3 DEF Call, Release, Forget
<1>4. CASE LoadFields
  <2>1. /\ offset' = offset + Width[Extracted] /\ assigned \subseteq assigned'
    BY <1>4 DEF LoadFields
  <2>2. pos <= Len(Body[state]) /\ Current.op = "extract"
    BY <1>4 DEF LoadFields, TypeInv, Control, InExtract, AtExtract
  <2>3. Extracted \in Headers /\ Width[Extracted] \in Nat
    BY <2>2, RunningStatement, SizeCheck DEF TypeInv
  <2>4. Width[Extracted] % 8 = 0
    BY <2>3 DEF AlignFlow
  <2> QED
    BY <2>1, <2>3, <2>4, AlignOn
<1>5. CASE Advance
  <2>1. AtStatement /\ Current.op = "advance" /\ assigned' = assigned
    BY <1>5 DEF Advance
  <2>2. PICK n \in Current.amounts : offset' = offset + n
    BY <1>5 DEF Advance
  <2>3. /\ state \in States /\ pos \in DOMAIN Body[state] /\ n \in Int
    BY <2>1, RunningSets, RunningStatement DEF AtStatement, TypeInv
  <2>4. n % 8 = 0 \/ AssignedAt(state, pos) \cap Odd # {}
    BY <2>1, <2>2, <2>3 DEF AlignFlow, Current
  <2>5. n % 8 = 0 \/ assigned \cap Odd # {}
    BY <2>4 DEF ReadsInv
  <2> QED
    BY <2>1, <2>2, <2>3, <2>5, AlignOn
<1>6. CASE Assign
  <2>1. offset' = offset /\ assigned \subseteq assigned'
    BY <1>6 DEF Assign
  <2> QED
    BY <2>1 DEF OnlyOddMisaligns
<1>7. CASE Transition \/ ExtractTooShort \/ AcceptState \/ RejectState \/ EndLabel
  BY <1>2, <1>7 DEF Transition, ExtractTooShort, AcceptState, RejectState,
     EndLabel, Leave
<1>8. CASE ExtractFits \/ AllocHeader \/ AllocNode \/ LinkNode
  BY <1>2, <1>8 DEF ExtractFits, AllocHeader, AllocNode, LinkNode,
     OutOfMemory, callVars
<1>9. CASE UNCHANGED vars
  BY <1>2, <1>9 DEF vars, callVars
<1> QED
  BY <1>3, <1>4, <1>5, <1>6, <1>7, <1>8, <1>9 DEF Next, ParserNext

\* In a program whose headers are whole bytes and whose other advances come
\* behind an odd local, an extract or a lookahead that has seen none of those
\* starts at a byte boundary, as its loads take for granted.
THEOREM StartsAligned == ASSUME AlignFlow PROVE Spec => []OnlyOddMisaligns
<1>1. ReadsFlow
  BY DEF AlignFlow
<1>2. Init => TypeInv /\ ReadsInv /\ OnlyOddMisaligns
  <2> SUFFICES ASSUME Init PROVE ReadsInv /\ OnlyOddMisaligns
    BY TypeInit
  <2>1. ReadsInv
    BY <1>1, ReadsInit
  <2> QED
    BY <2>1 DEF Init, OnlyOddMisaligns
<1>3. TypeInv /\ ReadsInv /\ OnlyOddMisaligns /\ [Next]_vars
      => (TypeInv /\ ReadsInv /\ OnlyOddMisaligns)'
  BY <1>1, TypeStep, ReadsStep, AlignStep
<1> QED
  BY <1>2, <1>3, PTL DEF Spec
=============================================================================
