--------------------------- MODULE FppParserProofs ---------------------------
(***************************************************************************)
(* Proofs that the emitted parser function keeps its invariants and        *)
(* implements HeaderChain for every P4 program, packet and heap.           *)
(***************************************************************************)
EXTENDS FppParser, TLAPS

-----------------------------------------------------------------------------
(* The P4 program                                                          *)

\* What the constant Body holds: the operand each kind of statement has.
LEMMA StatementShape ==
  ASSUME NEW s \in States, NEW p \in 1 .. Len(Body[s])
  PROVE  /\ Body[s][p].op \in {"extract", "advance", "lookahead", "assign"}
         /\ Body[s][p].op = "extract" => Body[s][p].hdr \in Headers
         /\ Body[s][p].op = "advance" => Body[s][p].amounts \subseteq Int
         /\ Body[s][p].op \in {"lookahead", "assign"} =>
              Body[s][p].var \in Vars
<1>1. Body[s] \in Seq(Stmt)
  BY ProgramAssumption
<1>2. Body[s][p] \in Stmt
  BY <1>1
<1> QED
  BY <1>2 DEF Stmt

\* The statement that is running is one of the program's.
LEMMA RunningStatement ==
  ASSUME TypeOK, pos <= Len(Body[state])
  PROVE  /\ Current.op \in {"extract", "advance", "lookahead", "assign"}
         /\ Current.op = "extract" => Extracted \in Headers
         /\ Current.op = "advance" => Current.amounts \subseteq Int
         /\ Current.op \in {"lookahead", "assign"} => Current.var \in Vars
<1>1. state \in States /\ Body[state] \in Seq(Stmt)
  BY ProgramAssumption DEF TypeOK
<1>2. pos \in 1 .. Len(Body[state])
  BY <1>1 DEF TypeOK
<1> QED
  BY <1>1, <1>2, StatementShape DEF Current, Extracted

\* Where the program advances forward only, so does the running statement.
LEMMA ForwardAmounts ==
  ASSUME Forward, TypeOK, pos <= Len(Body[state]), Current.op = "advance"
  PROVE  Current.amounts \subseteq Nat
<1>1. state \in States /\ Body[state] \in Seq(Stmt)
  BY ProgramAssumption DEF TypeOK
<1>2. pos \in 1 .. Len(Body[state])
  BY <1>1 DEF TypeOK
<1> QED
  BY <1>1, <1>2 DEF Forward, Current

\* A bit count has a byte count, a count from the packet's start one from there.
LEMMA BytesInt == \A n \in Int : Bytes(n) \in Int
  BY DEF Bytes
LEMMA BytesNat == \A n \in Nat : Bytes(n) \in Nat
  BY DEF Bytes

\* The size check compares numbers.
LEMMA SizeCheck ==
  ASSUME TypeOK, pos <= Len(Body[state]), Current.op = "extract"
  PROVE  /\ Width[Extracted] \in Nat
         /\ length \in Nat
         /\ offset \in Int
<1>1. Extracted \in Headers
  BY RunningStatement
<1>2. Width[Extracted] \in Nat
  BY <1>1, ProgramAssumption
<1>3. length \in Nat
  BY LensAssumption DEF TypeOK
<1> QED
  BY <1>2, <1>3 DEF TypeOK

-----------------------------------------------------------------------------
(* Types and control                                                       *)

TypeInv == TypeOK /\ Control /\ Placed

\* The function is entered with its variables in their types.
LEMMA TypeInit == Init => TypeInv
<1> SUFFICES ASSUME Init PROVE TypeInv
  OBVIOUS
<1>1. TypeOK
  BY ProgramAssumption DEF Init, TypeOK, ErrorCodes, FreeNode, FreeHeader
<1>2. Control /\ Placed
  BY DEF Init, Control, Placed, InExtract
<1> QED
  BY <1>1, <1>2 DEF TypeInv

\* Every step keeps the types, what the place in the function says of
\* fpp_errorCode, and the pointers an extract needs.
LEMMA TypeStep == TypeInv /\ [Next]_vars => TypeInv'
<1> SUFFICES ASSUME TypeInv, [Next]_vars PROVE TypeInv'
  OBVIOUS
<1> USE DEF TypeInv
<1>1. ASSUME NEW n \in Lens, Call(n) PROVE TypeInv'
  <2>1. TypeOK'
    BY <1>1, ProgramAssumption DEF Call, TypeOK, heapVars, ErrorCodes
  <2>2. (Control /\ Placed)'
    BY <1>1 DEF Call, Control, Placed, InExtract
  <2> QED BY <2>1, <2>2
<1>2. CASE ExtractTooShort
  <2>1. TypeOK'
    BY <1>2 DEF ExtractTooShort, TypeOK, listVars, heapVars, ErrorCodes
  <2>2. AtExtract' /\ ~Fits'
    BY <1>2 DEF ExtractTooShort, Extracting, AtStatement, AtExtract,
       Fits, TooShort, Current, Extracted
  <2>3. (Control /\ Placed)'
    BY <1>2, <2>2 DEF ExtractTooShort, Control, Placed, InExtract, Reason
  <2> QED BY <2>1, <2>3
<1>3. CASE ExtractFits
  <2>1. TypeOK'
    BY <1>3 DEF ExtractFits, TypeOK, callVars, listVars, heapVars
  <2>2. AtExtract' /\ Fits'
    BY <1>3 DEF ExtractFits, Extracting, AtStatement, AtExtract,
       Fits, TooShort, Current, Extracted, callVars
  <2>3. (Control /\ Placed)'
    BY <1>3, <2>2 DEF ExtractFits, Control, Placed, InExtract, Extracted,
       Current, callVars, Extracting, AtStatement
  <2> QED BY <2>1, <2>3
<1>4. CASE AllocHeader
  <2>1. AtExtract /\ Fits /\ Extracted \in Listed /\ errorCode = "ParserDefaultReject"
    BY <1>4 DEF AllocHeader, Control, InExtract
  <2>2. CASE OutOfMemory /\ headers' = NULL /\ UNCHANGED <<live, header>>
    <3>1. TypeOK'
      BY <1>4, <2>2 DEF AllocHeader, OutOfMemory, TypeOK, ErrorCodes
    <3>2. (Control /\ Placed)'
      BY <1>4, <2>1, <2>2 DEF AllocHeader, OutOfMemory, Control, Placed,
         InExtract, Reason, AtExtract, Fits, TooShort, Extracted, Current
    <3> QED BY <3>1, <3>2
  <2>3. CASE ~(OutOfMemory /\ headers' = NULL /\ UNCHANGED <<live, header>>)
    <3>1. PICK b \in Malloc[live] :
            /\ headers' = b
            /\ live' = live \cup {b}
            /\ header' = [header EXCEPT ![b].fields = "junk",
                                        ![b].valid = "junk"]
            /\ scope' = Extracted
            /\ pc' = "allocNode"
            /\ UNCHANGED <<state, pos, offset, errorCode, ret, length, assigned>>
      BY <1>4, <2>3 DEF AllocHeader
    <3>2. b \in Blocks
      BY HeapAssumption DEF TypeOK
    <3>3. TypeOK'
      BY <1>4, <2>1, <3>1, <3>2 DEF AllocHeader, TypeOK
    <3>4. (Control /\ Placed)'
      BY <2>1, <3>1, <3>2 DEF Control, Placed, InExtract, AtExtract, Fits, TooShort,
         Extracted, Current
    <3> QED BY <3>3, <3>4
  <2> QED BY <2>2, <2>3
<1>5. CASE AllocNode
  <2>1. AtExtract /\ Fits /\ Extracted \in Listed /\ errorCode = "ParserDefaultReject"
    BY <1>5 DEF AllocNode, Control, InExtract
  <2>2. headers \in Blocks
    BY <1>5 DEF AllocNode, Placed
  <2>3. CASE /\ OutOfMemory
             /\ hdr' = NULL
             /\ live' = live \ {headers}
             /\ header' = [header EXCEPT ![headers] = FreeHeader]
             /\ UNCHANGED node
    <3>1. TypeOK'
      BY <1>5, <2>3, <2>2 DEF AllocNode, OutOfMemory, TypeOK, ErrorCodes, FreeHeader
    <3>2. (Control /\ Placed)'
      BY <1>5, <2>1, <2>3 DEF AllocNode, OutOfMemory, Control, Placed,
         InExtract, Reason, AtExtract, Fits, TooShort, Extracted, Current
    <3> QED BY <3>1, <3>2
  <2>4. CASE \E b \in Malloc[live] :
               /\ hdr' = b
               /\ live' = live \cup {b}
               /\ node' = [node EXCEPT ![b] =
                            [type |-> Extracted, hdr |-> headers, next |-> NULL]]
               /\ pc' = "link"
               /\ UNCHANGED <<callVars, header>>
    <3>1. PICK b \in Malloc[live] :
               /\ hdr' = b
               /\ live' = live \cup {b}
               /\ node' = [node EXCEPT ![b] =
                            [type |-> Extracted, hdr |-> headers, next |-> NULL]]
               /\ pc' = "link"
               /\ UNCHANGED <<callVars, header>>
      BY <2>4
    <3>2. b \in Blocks
      BY HeapAssumption DEF TypeOK
    <3>3. TypeOK'
      BY <1>5, <2>1, <2>2, <3>1, <3>2 DEF AllocNode, TypeOK, callVars
    <3>4. (Control /\ Placed)'
      BY <1>5, <2>1, <2>2, <3>1, <3>2 DEF AllocNode, Control, Placed, InExtract,
         AtExtract, Fits, TooShort, Extracted, Current, callVars
    <3> QED BY <3>3, <3>4
  <2> QED BY <1>5, <2>3, <2>4 DEF AllocNode
<1>6. CASE LinkNode
  <2>1. TypeOK'
    <3>1. hdr \in Blocks /\ headers \in Blocks
      BY <1>6 DEF LinkNode, Placed
    <3>2. Bytes(offset) \in Int
      BY BytesInt DEF TypeOK
    <3>3. chain' \in Seq(Blocks)
      BY <1>6, <3>1 DEF LinkNode, TypeOK
    <3>4. header' \in [Blocks -> [offset : Int, fields : {"junk", "loaded"},
                                  valid : {"junk", "set"}]]
      BY <1>6, <3>1, <3>2 DEF LinkNode, TypeOK
    <3>5. node' \in [Blocks -> [type : Listed \cup {NULL},
                                hdr : Blocks \cup {NULL},
                                next : Blocks \cup {NULL}]]
      <4> DEFINE Node == [type : Listed \cup {NULL},
                          hdr : Blocks \cup {NULL},
                          next : Blocks \cup {NULL}]
      <4>1. node \in [Blocks -> Node]
        BY DEF TypeOK
      <4>2. CASE out = NULL
        BY <1>6, <4>1, <4>2 DEF LinkNode
      <4>3. CASE out # NULL /\ last_hdr \in Blocks
        <5>1. node' = [node EXCEPT ![last_hdr] = [@ EXCEPT !.next = hdr]]
          BY <1>6, <4>3 DEF LinkNode
        <5>2. [node[last_hdr] EXCEPT !.next = hdr] \in Node
          BY <4>1, <4>3, <3>1
        <5> QED BY <4>1, <5>1, <5>2
      <4>4. CASE out # NULL /\ last_hdr \notin Blocks
        BY <1>6, <4>1, <4>4 DEF LinkNode
      <4> QED BY <4>2, <4>3, <4>4
    <3> QED
      BY <1>6, <3>1, <3>3, <3>4, <3>5 DEF LinkNode, TypeOK, callVars
  <2>2. (Control /\ Placed)'
    BY <1>6 DEF LinkNode, Control, Placed, InExtract, AtExtract, Fits, TooShort,
       Extracted, Current, callVars
  <2> QED BY <2>1, <2>2
<1>7. CASE LoadFields
  <2>1. AtExtract /\ errorCode = "ParserDefaultReject"
    BY <1>7 DEF LoadFields, Control, InExtract
  <2>2. Width[Extracted] \in Nat /\ Extracted \in Headers
    BY <2>1, SizeCheck, RunningStatement DEF AtExtract
  <2> DEFINE Header == [offset : Int, fields : {"junk", "loaded"},
                        valid : {"junk", "set"}]
  <2>3. header' \in [Blocks -> Header]
    <3>1. header \in [Blocks -> Header]
      BY DEF TypeOK
    <3>2. CASE Extracted \in Listed /\ headers \in Blocks
      BY <1>7, <3>1, <3>2 DEF LoadFields
    <3>3. CASE Extracted \in Listed /\ headers \notin Blocks
      BY <1>7, <3>1, <3>3 DEF LoadFields
    <3>4. CASE Extracted \notin Listed
      BY <1>7, <3>1, <3>4 DEF LoadFields
    <3> QED BY <3>2, <3>3, <3>4
  <2>4. offset' \in Int /\ pos' \in Nat \ {0} /\ assigned' \subseteq Names
    <3>1. offset' = offset + Width[Extracted] /\ pos' = pos + 1
      BY <1>7 DEF LoadFields
    <3>2. assigned' \subseteq assigned \cup {Extracted}
      BY <1>7, Zenon DEF LoadFields
    <3>3. offset \in Int /\ pos \in Nat \ {0} /\ assigned \subseteq Names
      BY DEF TypeOK
    <3> QED BY <2>2, <3>1, <3>2, <3>3 DEF Names
  <2>5. TypeOK'
    <3>1. /\ pc' = "statement"
          /\ UNCHANGED <<state, errorCode, ret, length, scope,
                         out, last_hdr, hdr, headers, live, node, chain>>
      BY <1>7 DEF LoadFields, listVars
    <3> QED BY <2>3, <2>4, <3>1 DEF TypeOK
  <2>6. (Control /\ Placed)'
    BY <1>7, <2>1 DEF LoadFields, Control, Placed, InExtract
  <2> QED BY <2>5, <2>6
<1>8. CASE Advance
  <2>1. Current.amounts \subseteq Int
    BY <1>8, RunningStatement DEF Advance, AtStatement
  <2>2. TypeOK'
    BY <1>8, <2>1 DEF Advance, TypeOK, listVars, heapVars
  <2>3. (Control /\ Placed)'
    BY <1>8 DEF Advance, Control, Placed, InExtract, AtStatement
  <2> QED BY <2>2, <2>3
<1>9. CASE Assign
  <2>1. Current.var \in Vars
    BY <1>9, RunningStatement DEF Assign, AtStatement
  <2>2. TypeOK'
    BY <1>9, <2>1 DEF Assign, TypeOK, listVars, heapVars, Names
  <2>3. (Control /\ Placed)'
    BY <1>9 DEF Assign, Control, Placed, InExtract, AtStatement
  <2> QED BY <2>2, <2>3
<1>10. CASE Transition
  <2>1. PICK t \in Targets[state] :
          IF t \in States
            THEN state' = t /\ pos' = 1 /\ scope' = NULL /\ UNCHANGED pc
            ELSE pc' = t /\ UNCHANGED <<state, pos, scope>>
    BY <1>10 DEF Transition
  <2>2. t \in States \cup {"accept", "reject"}
    BY ProgramAssumption DEF TypeOK
  <2>3. TypeOK'
    BY <1>10, <2>1, <2>2 DEF Transition, TypeOK, listVars, heapVars
  <2>4. pos > Len(Body[state]) /\ errorCode' = "ParserDefaultReject"
        /\ pc = "statement"
    BY <1>10 DEF Transition, AtTransition, Control
  <2>5. (Control /\ Placed)'
    <3>1. CASE t \in States
      BY <2>1, <2>4, <3>1, <1>10 DEF Transition, Control, Placed, InExtract
    <3>2. CASE t \notin States
      BY <2>1, <2>2, <2>4, <3>2 DEF Control, Placed, InExtract, Reason
    <3> QED BY <3>1, <3>2
  <2> QED BY <2>3, <2>5
<1>11. ASSUME NEW c \in ErrorCodes, Leave(c) PROVE TypeInv'
  <2>1. TypeOK'
    BY <1>11 DEF Leave, TypeOK, listVars, heapVars
  <2>2. (Control /\ Placed)'
    BY <1>11 DEF Leave, Control, Placed, InExtract
  <2> QED BY <2>1, <2>2
<1>12. CASE AcceptState \/ RejectState \/ EndLabel
  BY <1>11, <1>12 DEF AcceptState, RejectState, EndLabel, TypeOK, ErrorCodes
<1>13. CASE Release
  <2>1. TypeOK'
    BY <1>13, ProgramAssumption DEF Release, Forget, TypeOK, ErrorCodes,
       FreeNode, FreeHeader
  <2>2. (Control /\ Placed)'
    BY <1>13 DEF Release, Forget, Control, Placed, InExtract
  <2> QED BY <2>1, <2>2
<1>14. CASE UNCHANGED vars
  <2>1. TypeOK'
    BY <1>14 DEF vars, TypeOK, callVars, listVars, heapVars
  <2>2. (Control /\ Placed)'
    BY <1>14 DEF vars, callVars, listVars, heapVars, Control, Placed,
       InExtract, Reason, AtExtract, Fits, TooShort, Extracted, Current
  <2> QED BY <2>1, <2>2
<1> QED
  BY <1>1, <1>2, <1>3, <1>4, <1>5, <1>6, <1>7, <1>8, <1>9, <1>10, <1>12,
     <1>13, <1>14 DEF Next, ParserNext

\* Every variable of the emitted function keeps its type, for any P4 program
\* and any heap.
THEOREM TypeCorrect == Spec => []TypeOK
<1>1. Spec => []TypeInv
  BY TypeInit, TypeStep, PTL DEF Spec
<1> QED
  BY <1>1, PTL DEF TypeInv

-----------------------------------------------------------------------------
(* The verdict                                                             *)

\* The returned code keeps its reason as long as the caller holds the list.
LEMMA VerdictStep == TypeInv /\ VerdictSound /\ [Next]_vars => VerdictSound'
<1> SUFFICES ASSUME TypeInv, VerdictSound, [Next]_vars PROVE VerdictSound'
  OBVIOUS
<1> USE DEF VerdictSound
<1>1. ASSUME pc' # "returned" PROVE VerdictSound'
  BY <1>1
<1>2. ASSUME NEW c \in ErrorCodes, Leave(c), Reason(c) PROVE VerdictSound'
  BY <1>2 DEF Leave, Reason, AtExtract, Fits, TooShort, Extracted, Current
<1>3. CASE AcceptState
  BY <1>2, <1>3 DEF AcceptState, TypeInv, Control, ErrorCodes
<1>4. CASE RejectState
  BY <1>2, <1>4 DEF RejectState, TypeInv, TypeOK, Control
<1>5. CASE EndLabel
  BY <1>2, <1>5 DEF EndLabel, TypeInv, TypeOK, Control
<1>6. CASE UNCHANGED vars
  BY <1>6 DEF vars, callVars, Reason, AtExtract, Fits, TooShort, Extracted, Current
<1>7. CASE Transition
  <2>1. pc' \in {"statement", "accept", "reject"}
    BY <1>7, ProgramAssumption DEF Transition, AtTransition, TypeInv, TypeOK
  <2> QED BY <2>1, <1>1
<1>8. CASE \/ \E n \in Lens : Call(n)
           \/ ExtractTooShort \/ ExtractFits \/ AllocHeader \/ AllocNode
           \/ LinkNode \/ LoadFields \/ Advance \/ Assign \/ Release
  <2>1. pc' # "returned"
    BY <1>8 DEF Call, ExtractTooShort, ExtractFits, AllocHeader, AllocNode,
       OutOfMemory, LinkNode, LoadFields, Advance, Assign, AtStatement,
       Release, Forget
  <2> QED BY <2>1, <1>1
<1> QED
  BY <1>3, <1>4, <1>5, <1>6, <1>7, <1>8 DEF Next, ParserNext

\* The value fpp_parse_packet returns names what stopped it, for any packet:
\* in particular PacketTooShort is returned only at an extract that does not
\* fit and OutOfMemory only at one that does.
THEOREM VerdictCorrect == Spec => []VerdictSound
<1>1. Init => TypeInv /\ VerdictSound
  BY TypeInit DEF Init, VerdictSound
<1>2. TypeInv /\ VerdictSound /\ [Next]_vars => (TypeInv /\ VerdictSound)'
  BY TypeStep, VerdictStep
<1> QED
  BY <1>1, <1>2, PTL DEF Spec

-----------------------------------------------------------------------------
(* The heap and the list                                                   *)

\* There is no list before the first call.
LEMMA HeapInit == Init => HeapInv
  BY DEF Init, HeapInv, Linking, ListShape, Ownership, Unshared, Complete,
     ChainNodes, ChainHeaders, InFlight, Loading, Done, HeaderAt

\* A step that touches neither the list nor an allocated block.
LEMMA Frame ==
  ASSUME HeapInv,
         pc \notin {"idle", "allocNode", "link"}, ~Loading,
         pc' \notin {"idle", "allocNode", "link"}, ~Loading',
         UNCHANGED <<out, last_hdr, live, node, header, chain>>
  PROVE  HeapInv'
<1>1. InFlight = {} /\ InFlight' = {}
  BY DEF InFlight
<1>2. Linking'
  BY DEF HeapInv, Linking
<1>3. ListShape'
  BY DEF HeapInv, ListShape
<1>4. Ownership'
  <2>1. ChainNodes' = ChainNodes /\ ChainHeaders' = ChainHeaders
    BY DEF ChainNodes, ChainHeaders
  <2>2. Unshared'
    BY <1>1, <2>1 DEF HeapInv, Ownership, Unshared
  <2> QED
    BY <1>1, <2>1, <2>2 DEF HeapInv, Ownership
<1>5. Complete'
  BY DEF HeapInv, Complete, Done, HeaderAt
<1> QED
  BY <1>2, <1>3, <1>4, <1>5 DEF HeapInv

\* The nodes of the list and their headers are allocated blocks.
LEMMA ListAllocated ==
  ASSUME TypeInv, HeapInv, NEW i \in 1 .. Len(chain)
  PROVE  /\ chain[i] \in live /\ chain[i] \in Blocks
         /\ node[chain[i]].hdr \in live /\ node[chain[i]].hdr \in Blocks
<1>1. chain[i] \in ChainNodes /\ node[chain[i]].hdr \in ChainHeaders
  BY DEF ChainNodes, ChainHeaders
<1> QED
  BY <1>1 DEF HeapInv, Ownership, TypeInv, TypeOK

\* malloc returns a block that is not allocated.
LEMMA Fresh ==
  ASSUME TypeInv, NEW b \in Malloc[live]
  PROVE  b \in Blocks /\ b \notin live
<1>1. live \in SUBSET Blocks
  BY DEF TypeInv, TypeOK
<1> QED
  BY <1>1, HeapAssumption

\* The malloc of the header, in both outcomes, keeps the heap invariant.
LEMMA AllocHeaderStep ==
  ASSUME TypeInv, HeapInv, AllocHeader
  PROVE  HeapInv'
<1>1. pc = "allocHeader" /\ UNCHANGED <<out, last_hdr, hdr, node, chain>>
  BY DEF AllocHeader
<1>2. CASE OutOfMemory /\ UNCHANGED <<live, header>>
  BY <1>1, <1>2, Frame DEF OutOfMemory, Loading
<1>3. ASSUME NEW b \in Malloc[live],
             headers' = b, live' = live \cup {b}, pc' = "allocNode",
             header' = [header EXCEPT ![b].fields = "junk",
                                      ![b].valid = "junk"]
      PROVE  HeapInv'
  <2>1. b \in Blocks /\ b \notin live
    BY Fresh
  <2>2. ChainNodes' = ChainNodes /\ ChainHeaders' = ChainHeaders
    BY <1>1 DEF ChainNodes, ChainHeaders
  <2>3. InFlight = {} /\ InFlight' = {b}
    BY <1>1, <1>3 DEF InFlight
  <2>4. Linking' /\ ListShape'
    BY <1>1, <1>3 DEF HeapInv, Linking, ListShape, Loading
  <2>5. Ownership'
    BY <1>1, <1>3, <2>1, <2>2, <2>3 DEF HeapInv, Ownership, Unshared
  <2>6. Complete'
    <3> SUFFICES ASSUME NEW i \in 1 .. Len(chain)
                 PROVE  (HeaderAt(i).fields = "loaded"
                          /\ HeaderAt(i).valid = "set")'
      BY <1>1, <1>3 DEF Complete, Done, Loading
    <3>1. HeaderAt(i).fields = "loaded" /\ HeaderAt(i).valid = "set"
      BY <1>1 DEF HeapInv, Complete, Done, Loading
    <3>2. node[chain[i]].hdr # b
      BY <2>1, ListAllocated
    <3>3. header'[node[chain[i]].hdr] = header[node[chain[i]].hdr]
      BY <1>3, <3>2, ListAllocated DEF TypeInv, TypeOK
    <3> QED
      BY <1>1, <3>1, <3>3 DEF HeaderAt
  <2> QED
    BY <2>4, <2>5, <2>6 DEF HeapInv
<1> QED
  BY <1>2, <1>3 DEF AllocHeader

\* The malloc of the node does too; when it fails the header is given back.
LEMMA AllocNodeStep ==
  ASSUME TypeInv, HeapInv, AllocNode
  PROVE  HeapInv'
<1>1. pc = "allocNode" /\ UNCHANGED <<out, last_hdr, headers, chain>>
  BY DEF AllocNode
<1>2. InFlight = {headers} /\ headers \in Blocks /\ headers \in live
  BY <1>1 DEF InFlight, HeapInv, Ownership, TypeInv, Placed
<1>3. headers \notin ChainNodes \cup ChainHeaders
  BY <1>2 DEF HeapInv, Ownership, Unshared
<1>4. \A i \in 1 .. Len(chain) :
        HeaderAt(i).fields = "loaded" /\ HeaderAt(i).valid = "set"
  BY <1>1 DEF HeapInv, Complete, Done, Loading
<1>5. CASE /\ OutOfMemory
           /\ hdr' = NULL
           /\ live' = live \ {headers}
           /\ header' = [header EXCEPT ![headers] = FreeHeader]
           /\ UNCHANGED node
  <2>1. pc' = "fpp_end" /\ InFlight' = {}
    BY <1>5 DEF OutOfMemory, InFlight
  <2>2. ChainNodes' = ChainNodes /\ ChainHeaders' = ChainHeaders
    BY <1>1, <1>5 DEF ChainNodes, ChainHeaders
  <2>3. Linking' /\ ListShape'
    BY <1>1, <1>5, <2>1 DEF HeapInv, Linking, ListShape, Loading
  <2>4. Ownership'
    BY <1>1, <1>2, <1>3, <1>5, <2>1, <2>2 DEF HeapInv, Ownership, Unshared
  <2>5. Complete'
    <3> SUFFICES ASSUME NEW i \in 1 .. Len(chain)
                 PROVE  (HeaderAt(i).fields = "loaded"
                          /\ HeaderAt(i).valid = "set")'
      BY <1>1, <2>1 DEF Complete, Done, Loading
    <3>1. node[chain[i]].hdr # headers
      BY <1>3 DEF ChainHeaders
    <3>2. header'[node[chain[i]].hdr] = header[node[chain[i]].hdr]
      BY <1>5, <3>1, ListAllocated DEF TypeInv, TypeOK
    <3> QED
      BY <1>1, <1>4, <1>5, <3>2 DEF HeaderAt
  <2> QED
    BY <2>3, <2>4, <2>5 DEF HeapInv
<1>6. ASSUME NEW b \in Malloc[live],
             hdr' = b, live' = live \cup {b}, pc' = "link",
             node' = [node EXCEPT ![b] =
                        [type |-> Extracted, hdr |-> headers, next |-> NULL]],
             UNCHANGED <<callVars, header>>
      PROVE  HeapInv'
  <2>1. b \in Blocks /\ b \notin live
    BY Fresh
  <2>2. \A i \in 1 .. Len(chain) : node'[chain[i]] = node[chain[i]]
    BY <1>6, <2>1, ListAllocated DEF TypeInv, TypeOK
  <2>3. ChainNodes' = ChainNodes /\ ChainHeaders' = ChainHeaders
    BY <1>1, <2>2 DEF ChainNodes, ChainHeaders
  <2>4. InFlight' = {headers, b}
    BY <1>1, <1>6 DEF InFlight
  <2>5. node'[b] = [type |-> Extracted', hdr |-> headers, next |-> NULL]
    BY <1>6, <2>1 DEF TypeInv, TypeOK, Extracted, Current, callVars
  <2>6. Linking'
    BY <1>1, <1>6, <2>2, <2>5 DEF HeapInv, Linking, Loading
  <2>7. ListShape'
    BY <1>1, <1>6, <2>2 DEF HeapInv, ListShape
  <2>8. Unshared'
    <3>1. b \notin ChainNodes \cup ChainHeaders /\ b # headers
      BY <1>2, <2>1 DEF HeapInv, Ownership
    <3> QED
      BY <1>1, <1>2, <1>3, <1>6, <2>2, <2>3, <2>4, <3>1
      DEF HeapInv, Ownership, Unshared
  <2>9. Ownership'
    BY <1>2, <1>6, <2>3, <2>4, <2>8 DEF HeapInv, Ownership
  <2>10. Complete'
    BY <1>1, <1>4, <1>6, <2>2 DEF Complete, Done, Loading, HeaderAt
  <2> QED
    BY <2>6, <2>7, <2>9, <2>10 DEF HeapInv
<1> QED
  BY <1>5, <1>6 DEF AllocNode

\* Appending the new node keeps the list a list: the one pointer that changes
\* is the last node's.
LEMMA LinkNodeStep ==
  ASSUME TypeInv, HeapInv, LinkNode
  PROVE  HeapInv'
<1> DEFINE n == Len(chain)
<1>1. /\ pc = "link" /\ pc' = "load"
      /\ last_hdr' = hdr /\ chain' = Append(chain, hdr)
      /\ hdr' = hdr /\ headers' = headers /\ live' = live
      /\ UNCHANGED callVars
      /\ header' = [header EXCEPT ![headers].offset = Bytes(offset)]
  BY DEF LinkNode
<1>2. /\ hdr \in Blocks /\ headers \in Blocks
      /\ InFlight = {headers, hdr} /\ InFlight' = {}
      /\ Extracted \in Listed /\ Loading'
  BY <1>1 DEF TypeInv, Placed, Control, InFlight, Loading, Extracted, Current,
     callVars
<1>3. /\ node[hdr] = [type |-> Extracted, hdr |-> headers, next |-> NULL]
      /\ hdr # headers
      /\ {hdr, headers} \cap (ChainNodes \cup ChainHeaders) = {}
  BY <1>1, <1>2 DEF HeapInv, Linking, Ownership, Unshared
<1>4. /\ n \in Nat /\ Len(chain') = n + 1
      /\ chain'[n + 1] = hdr
      /\ \A i \in 1 .. n : chain'[i] = chain[i] /\ chain[i] \in Blocks
  BY <1>1, <1>2 DEF TypeInv, TypeOK
<1>5. \A i \in 1 .. n : chain[i] # hdr /\ node[chain[i]].hdr # hdr
        /\ chain[i] # headers /\ node[chain[i]].hdr # headers
  BY <1>3 DEF ChainNodes, ChainHeaders
<1>6. /\ n = 0 => out' = hdr /\ node' = node
      /\ n > 0 => /\ out' = out /\ out = chain[1] /\ last_hdr = chain[n]
                  /\ node' = [node EXCEPT ![chain[n]].next = hdr]
  <2>1. n = 0 <=> chain = <<>>
    BY DEF TypeInv, TypeOK
  <2>2. n = 0 <=> out = NULL
    BY <1>1, <2>1 DEF HeapInv, ListShape
  <2> QED
    BY <1>4, <2>1, <2>2 DEF HeapInv, ListShape, LinkNode
<1>7. \A i, j \in 1 .. n : i # j => chain[i] # chain[j]
        /\ node[chain[i]].hdr # node[chain[j]].hdr
  BY DEF HeapInv, Ownership, Unshared
<1>8. /\ \A i \in 1 .. n : i # n => node'[chain[i]] = node[chain[i]]
      /\ \A i \in 1 .. n : node'[chain[i]].hdr = node[chain[i]].hdr
      /\ n > 0 => node'[chain[n]].next = hdr
      /\ node'[hdr] = node[hdr]
  <2>1. CASE n = 0
    BY <1>6, <2>1
  <2>2. CASE n > 0
    <3>1. n \in 1 .. n /\ chain[n] \in Blocks
      BY <1>4, <2>2
    <3>2. node \in [Blocks -> [type : Listed \cup {NULL},
                               hdr : Blocks \cup {NULL},
                               next : Blocks \cup {NULL}]]
      BY DEF TypeInv, TypeOK
    <3> QED
      BY <1>2, <1>4, <1>5, <1>6, <1>7, <2>2, <3>1, <3>2
  <2> QED BY <1>4, <2>1, <2>2
<1>9. Linking'
  BY <1>1, <1>2, <1>3, <1>4, <1>8 DEF HeapInv, Linking
<1>10. ListShape'
  <2>1. chain' # <<>> /\ out' = chain'[1] /\ last_hdr' = chain'[Len(chain')]
    BY <1>1, <1>4, <1>6
  <2>2. out' # NULL
    BY <1>2, <1>4, <1>6, HeapAssumption
  <2>3. ASSUME NEW i \in 1 .. n + 1
        PROVE  node'[chain'[i]].next =
                 IF i = n + 1 THEN NULL ELSE chain'[i + 1]
    <3>1. CASE i = n + 1
      BY <1>3, <1>4, <1>8, <3>1
    <3>2. CASE i = n
      BY <1>4, <1>8, <3>2
    <3>3. CASE i < n
      <4>1. node[chain[i]].next = chain[i + 1]
        BY <1>4, <3>3 DEF HeapInv, ListShape
      <4> QED
        BY <1>4, <1>8, <3>3, <4>1
    <3> QED BY <1>4, <3>1, <3>2, <3>3
  <2> QED
    BY <1>1, <1>4, <2>1, <2>2, <2>3 DEF ListShape
<1>11. ChainNodes' = ChainNodes \cup {hdr}
  BY <1>4 DEF ChainNodes
<1>12. ChainHeaders' = ChainHeaders \cup {headers}
  BY <1>3, <1>4, <1>8 DEF ChainHeaders
<1>13. Ownership'
  <2>1. live' = ChainNodes' \cup ChainHeaders' \cup InFlight'
    BY <1>1, <1>2, <1>11, <1>12 DEF HeapInv, Ownership
  <2>2. ChainNodes \cap ChainHeaders = {}
    BY DEF HeapInv, Ownership, Unshared
  <2>3. ASSUME NEW i \in 1 .. n + 1, NEW j \in 1 .. n + 1, i # j
        PROVE  chain'[i] # chain'[j]
               /\ node'[chain'[i]].hdr # node'[chain'[j]].hdr
    <3>1. CASE i \in 1 .. n /\ j \in 1 .. n
      BY <1>4, <1>7, <1>8, <2>3, <3>1
    <3>2. CASE i = n + 1 /\ j \in 1 .. n
      BY <1>3, <1>4, <1>5, <1>8, <3>2
    <3>3. CASE j = n + 1 /\ i \in 1 .. n
      BY <1>3, <1>4, <1>5, <1>8, <3>3
    <3> QED BY <1>4, <2>3, <3>1, <3>2, <3>3
  <2>4. Unshared'
    BY <1>1, <1>2, <1>3, <1>4, <1>11, <1>12, <2>2, <2>3 DEF Unshared
  <2> QED BY <2>1, <2>4 DEF Ownership
<1>14. Complete'
  <2>1. Done = n /\ Done' = n
    BY <1>1, <1>2, <1>4 DEF Done, Loading
  <2>2. ASSUME NEW i \in 1 .. n
        PROVE  header'[node'[chain'[i]].hdr] = header[node[chain[i]].hdr]
    BY <1>1, <1>4, <1>5, <1>8, <2>2 DEF TypeInv, TypeOK
  <2> QED
    BY <2>1, <2>2 DEF HeapInv, Complete, HeaderAt
<1> QED
  BY <1>9, <1>10, <1>13, <1>14 DEF HeapInv

\* Loading a header marks valid the one header that was not.
LEMMA LoadFieldsStep ==
  ASSUME TypeInv, HeapInv, LoadFields
  PROVE  HeapInv'
<1>1. /\ pc = "load" /\ pc' = "statement"
      /\ UNCHANGED <<out, last_hdr, headers, live, node, chain>>
  BY DEF LoadFields, listVars
<1>2. CASE Extracted \notin Listed
  <2>1. header' = header
    BY <1>2 DEF LoadFields
  <2> QED
    BY <1>1, <1>2, <2>1, Frame DEF Loading
<1>3. CASE Extracted \in Listed
  <2> DEFINE n == Len(chain)
  <2>1. header' = [header EXCEPT ![headers].fields = "loaded",
                                 ![headers].valid = "set"]
    BY <1>3 DEF LoadFields
  <2>2. n \in Nat /\ n > 0 /\ node[chain[n]].hdr = headers /\ Loading
    BY <1>1, <1>3 DEF Loading, HeapInv, Linking, TypeInv, TypeOK
  <2>3. headers \in Blocks
    BY <2>2 DEF HeapInv, Linking
  <2>4. Linking' /\ ListShape'
    BY <1>1 DEF HeapInv, Linking, ListShape, Loading
  <2>5. Ownership'
    <3>1. ChainNodes' = ChainNodes /\ ChainHeaders' = ChainHeaders
      BY <1>1 DEF ChainNodes, ChainHeaders
    <3>2. InFlight = {} /\ InFlight' = {}
      BY <1>1 DEF InFlight
    <3> QED
      BY <1>1, <3>1, <3>2 DEF HeapInv, Ownership, Unshared
  <2>6. Complete'
    <3> SUFFICES ASSUME NEW i \in 1 .. n
                 PROVE  /\ header'[node[chain[i]].hdr].fields = "loaded"
                        /\ header'[node[chain[i]].hdr].valid = "set"
      BY <1>1 DEF Complete, Done, Loading, HeaderAt
    <3> DEFINE b == node[chain[i]].hdr
    <3>0. b \in Blocks
      BY DEF HeapInv, Linking
    <3>1. header \in [Blocks -> [offset : Int, fields : {"junk", "loaded"},
                                 valid : {"junk", "set"}]]
      BY DEF TypeInv, TypeOK
    <3>2. CASE i = n
      BY <2>1, <2>2, <2>3, <3>1, <3>2
    <3>3. CASE i # n
      <4>1. header[b].fields = "loaded" /\ header[b].valid = "set"
        BY <2>2, <3>3 DEF HeapInv, Complete, Done, HeaderAt
      <4>2. b # headers
        BY <2>2, <3>3 DEF HeapInv, Ownership, Unshared
      <4>3. header'[b] = header[b]
        BY <2>1, <3>0, <3>1, <4>2
      <4> QED BY <4>1, <4>3
    <3> QED BY <3>2, <3>3
  <2> QED
    BY <2>4, <2>5, <2>6 DEF HeapInv
<1> QED BY <1>2, <1>3

\* Every step keeps the heap invariant.
LEMMA HeapStep == TypeInv /\ HeapInv /\ [Next]_vars => HeapInv'
<1> SUFFICES ASSUME TypeInv, HeapInv, [Next]_vars PROVE HeapInv'
  OBVIOUS
<1>1. ASSUME NEW n \in Lens, Call(n) PROVE HeapInv'
  <2>1. chain' = <<>> /\ live' = live /\ chain = <<>> /\ out' = NULL
    BY <1>1 DEF Call, HeapInv, Linking, heapVars
  <2>2. pc = "idle" /\ pc' = "statement"
    BY <1>1 DEF Call
  <2> QED
    BY <2>1, <2>2 DEF HeapInv, Linking, ListShape, Ownership, Unshared,
       Complete, ChainNodes, ChainHeaders, InFlight, Loading, Done
<1>2. CASE ExtractTooShort
  BY <1>2, Frame DEF ExtractTooShort, Extracting, AtStatement, Loading,
     listVars, heapVars
<1>3. CASE ExtractFits
  BY <1>3, Frame DEF ExtractFits, Extracting, AtStatement, Loading,
     Extracted, Current, callVars, listVars, heapVars
<1>4. CASE AllocHeader
  BY <1>4, AllocHeaderStep
<1>5. CASE AllocNode
  BY <1>5, AllocNodeStep
<1>6. CASE LinkNode
  BY <1>6, LinkNodeStep
<1>7. CASE LoadFields
  BY <1>7, LoadFieldsStep
<1>8. CASE Advance
  BY <1>8, Frame DEF Advance, AtStatement, Loading, listVars, heapVars
<1>9. CASE Assign
  BY <1>9, Frame DEF Assign, AtStatement, Loading, listVars, heapVars
<1>10. CASE Transition
  <2>1. pc = "statement" /\ pc' \in {"statement", "accept", "reject"}
    BY <1>10, ProgramAssumption DEF Transition, AtTransition, TypeInv, TypeOK
  <2> QED
    BY <1>10, <2>1, Frame DEF Transition, Loading, listVars, heapVars
<1>11. CASE AcceptState \/ RejectState \/ EndLabel
  BY <1>11, Frame DEF AcceptState, RejectState, EndLabel, Leave, Loading,
     listVars, heapVars
<1>12. CASE Release
  BY <1>12 DEF Release, Forget, HeapInv, Linking, ListShape, Ownership,
     Unshared, Complete, ChainNodes, ChainHeaders, InFlight, Loading, Done
<1>13. CASE UNCHANGED vars
  <2>1. /\ UNCHANGED <<pc, state, pos, out, last_hdr, hdr, headers, live, node,
                       header, chain>>
        /\ Extracted' = Extracted
    BY <1>13 DEF vars, callVars, listVars, heapVars, Extracted, Current
  <2>2. /\ ChainNodes' = ChainNodes /\ ChainHeaders' = ChainHeaders
        /\ InFlight' = InFlight /\ Loading' = Loading /\ Done' = Done
    BY <2>1 DEF ChainNodes, ChainHeaders, InFlight, Loading, Done
  <2>3. Linking' /\ ListShape'
    BY <2>1, <2>2 DEF HeapInv, Linking, ListShape
  <2>4. Ownership'
    BY <2>1, <2>2 DEF HeapInv, Ownership, Unshared
  <2>5. Complete'
    BY <2>1, <2>2 DEF HeapInv, Complete, HeaderAt
  <2> QED
    BY <2>3, <2>4, <2>5 DEF HeapInv
<1> QED
  BY <1>1, <1>2, <1>3, <1>4, <1>5, <1>6, <1>7, <1>8, <1>9, <1>10, <1>11,
     <1>12, <1>13 DEF Next, ParserNext

\* The heap invariant holds throughout, whatever the caller and malloc do.
LEMMA HeapInvariant == Spec => [](TypeInv /\ HeapInv)
<1>1. TypeInv /\ HeapInv /\ [Next]_vars => (TypeInv /\ HeapInv)'
  BY TypeStep, HeapStep
<1> QED
  BY TypeInit, HeapInit, <1>1, PTL DEF Spec

\* The list a caller receives is well formed: it holds the nodes in the order
\* of their extracts and ends in NULL.
THEOREM ListWellFormed == Spec => []ListShape
<1>1. HeapInv => ListShape
  BY DEF HeapInv
<1> QED
  BY HeapInvariant, <1>1, PTL

\* On every path out of the function the allocated blocks are those on the
\* list, each once: nothing leaks and nothing is shared.
THEOREM NothingLeaks == Spec => []Ownership
<1>1. HeapInv => Ownership
  BY DEF HeapInv
<1> QED
  BY HeapInvariant, <1>1, PTL

\* Whatever ended the call, the headers on the list have been loaded and
\* marked valid.
THEOREM NoJunkDelivered == Spec => []Complete
<1>1. HeapInv => Complete
  BY DEF HeapInv
<1> QED
  BY HeapInvariant, <1>1, PTL

-----------------------------------------------------------------------------
(* Where the headers lie: one after the other in the packet, whatever       *)
(* widths they have and however far the program advances between them, as  *)
(* long as it does not go back.                                            *)

\* The nodes of the list have types whose width is known.
Typed == \A i \in 1 .. Len(chain) : node[chain[i]].type \in Listed

\* The byte the header ends in: its last whole byte ends by it.
EndAt(i) == HeaderAt(i).offset + Bytes(Width[node[chain[i]].type])

\* Geometry in bytes, as the emitted check counts.
Rounded ==
  /\ \A i \in 1 .. Len(chain) :
       EndAt(i) <= (IF i = Len(chain) THEN length ELSE HeaderAt(i + 1).offset)
  /\ pc # "idle" /\ chain # <<>> =>
       IF Loading
         THEN /\ HeaderAt(Len(chain)).offset = Bytes(offset)
              /\ node[chain[Len(chain)]].type = Extracted
         ELSE EndAt(Len(chain)) <= Bytes(offset)

\* Nothing is in front of the packet.
NonNegative ==
  /\ offset \in Nat
  /\ \A i \in 1 .. Len(chain) : HeaderAt(i).offset \in Nat

GeometryInv == Rounded /\ Typed /\ NonNegative

\* Rounding down to bytes keeps the order, and two counts rounded apart never
\* exceed their sum rounded.
LEMMA BytesOrder ==
  ASSUME NEW a \in Nat, NEW b \in Nat
  PROVE  /\ a <= b => Bytes(a) <= Bytes(b)
         /\ Bytes(a) + Bytes(b) <= Bytes(a + b)
  BY DEF Bytes

\* The places compared are numbers.
LEMMA EndNat ==
  ASSUME Typed, NonNegative, NEW i \in 1 .. Len(chain)
  PROVE  /\ HeaderAt(i).offset \in Nat
         /\ Width[node[chain[i]].type] \in Nat
         /\ EndAt(i) \in Nat
<1>1. HeaderAt(i).offset \in Nat
  BY DEF NonNegative
<1>2. Width[node[chain[i]].type] \in Nat
  BY ProgramAssumption DEF Typed
<1>3. Bytes(Width[node[chain[i]].type]) \in Nat
  BY <1>2, BytesNat
<1> QED
  BY <1>1, <1>2, <1>3 DEF EndAt

\* What ends by a byte once rounded ends by it but for its odd bits.
LEMMA ByteEnd ==
  ASSUME NEW o \in Int, NEW w \in Nat, NEW b \in Int, o + Bytes(w) <= b
  PROVE  \/ 8 * o + w <= 8 * b
         \/ w % 8 # 0 /\ 8 * o + w < 8 * b + 8
  BY DEF Bytes

\* Headers in order as the emitted check counts are in order but for odd bits.
LEMMA RoundedGeometry ==
  ASSUME TypeInv, GeometryInv
  PROVE  Geometry
<1>1. chain \in Seq(Blocks) /\ length \in Nat
  BY LensAssumption DEF TypeInv, TypeOK
<1>2. ASSUME NEW i \in 1 .. Len(chain), NEW b \in Int, EndAt(i) <= b
      PROVE  EndsBy(i, b)
  <2>1. HeaderAt(i).offset \in Int /\ Width[node[chain[i]].type] \in Nat
    BY EndNat DEF GeometryInv
  <2>2. HeaderAt(i).offset + Bytes(Width[node[chain[i]].type]) <= b
    BY <1>2 DEF EndAt
  <2> QED
    BY <2>1, <2>2, ByteEnd DEF EndsBy, EndBit
<1>3. ASSUME NEW i \in 1 .. Len(chain) PROVE EndsBy(i, Limit(i))
  <2>1. Limit(i) \in Int
    BY <1>1, EndNat DEF Limit, GeometryInv
  <2>2. EndAt(i) <= Limit(i)
    BY DEF GeometryInv, Rounded, Limit
  <2> QED
    BY <1>2, <2>1, <2>2
<1>4. ASSUME chain # <<>> PROVE Len(chain) \in 1 .. Len(chain)
  BY <1>1, <1>4
<1>5. Bytes(offset) \in Int
  BY BytesInt DEF TypeInv, TypeOK
<1> QED
  BY <1>2, <1>3, <1>4, <1>5 DEF GeometryInv, Rounded, Geometry

\* A step that leaves the list as it is and does not move the offset back.
LEMMA GeometryFrame ==
  ASSUME TypeInv, HeapInv, GeometryInv,
         pc # "idle", ~Loading, ~Loading',
         UNCHANGED <<chain, length>>,
         offset' \in Nat, offset' >= offset,
         \A i \in 1 .. Len(chain) :
           /\ node'[chain[i]] = node[chain[i]]
           /\ header'[node[chain[i]].hdr] = header[node[chain[i]].hdr]
  PROVE  GeometryInv'
<1>1. Typed'
  BY DEF GeometryInv, Typed
<1>2. \A i \in 1 .. Len(chain) :
        /\ HeaderAt(i)' = HeaderAt(i)
        /\ EndAt(i)' = EndAt(i)
  BY DEF HeaderAt, EndAt
<1>3. chain \in Seq(Blocks) /\ Len(chain) \in Nat
  BY DEF TypeInv, TypeOK
<1>4. \A i \in 1 .. Len(chain) :
        EndAt(i)' <= (IF i = Len(chain) THEN length
                      ELSE HeaderAt(i + 1)'.offset)
  <2> TAKE i \in 1 .. Len(chain)
  <2>1. EndAt(i) <= (IF i = Len(chain) THEN length ELSE HeaderAt(i + 1).offset)
    BY DEF GeometryInv, Rounded
  <2>2. i # Len(chain) => i + 1 \in 1 .. Len(chain)
    BY <1>3
  <2> QED
    BY <1>2, <2>1, <2>2
<1>5. chain # <<>> => EndAt(Len(chain))' <= Bytes(offset')
  <2> HAVE chain # <<>>
  <2>1. Len(chain) \in 1 .. Len(chain)
    BY <1>3
  <2>2. EndAt(Len(chain)) <= Bytes(offset)
    BY DEF GeometryInv, Rounded
  <2>3. Bytes(offset) <= Bytes(offset') /\ Bytes(offset) \in Nat
        /\ Bytes(offset') \in Nat
    BY BytesOrder, BytesNat DEF GeometryInv, NonNegative
  <2>4. EndAt(Len(chain)) \in Nat
    BY <2>1, EndNat DEF GeometryInv
  <2> QED
    BY <1>2, <2>1, <2>2, <2>3, <2>4
<1>6. NonNegative'
  BY <1>2 DEF GeometryInv, NonNegative
<1> QED
  BY <1>1, <1>4, <1>5, <1>6 DEF GeometryInv, Rounded

-----------------------------------------------------------------------------
(* The steps that change the heap                                          *)

\* The malloc of the header does not touch what is on the list.
LEMMA AllocHeaderKeeps ==
  ASSUME TypeInv, HeapInv, AllocHeader, NEW i \in 1 .. Len(chain)
  PROVE  /\ node'[chain[i]] = node[chain[i]]
         /\ header'[node[chain[i]].hdr] = header[node[chain[i]].hdr]
<1>1. node' = node
  BY DEF AllocHeader
<1>2. CASE UNCHANGED header
  BY <1>1, <1>2
<1>3. ASSUME NEW b \in Malloc[live],
             header' = [header EXCEPT ![b].fields = "junk",
                                      ![b].valid = "junk"]
      PROVE  header'[node[chain[i]].hdr] = header[node[chain[i]].hdr]
  <2>1. node[chain[i]].hdr # b /\ node[chain[i]].hdr \in Blocks
    BY Fresh, ListAllocated
  <2> QED
    BY <1>3, <2>1 DEF TypeInv, TypeOK
<1> QED
  BY <1>1, <1>2, <1>3 DEF AllocHeader

\* Neither does the malloc of the node, nor the free when it fails.
LEMMA AllocNodeKeeps ==
  ASSUME TypeInv, HeapInv, AllocNode, NEW i \in 1 .. Len(chain)
  PROVE  /\ node'[chain[i]] = node[chain[i]]
         /\ header'[node[chain[i]].hdr] = header[node[chain[i]].hdr]
<1>1. CASE header' = [header EXCEPT ![headers] = FreeHeader]
           /\ UNCHANGED node
  <2>1. node[chain[i]].hdr # headers
    BY DEF AllocNode, HeapInv, Ownership, Unshared, InFlight, ChainHeaders
  <2> QED
    BY <1>1, <2>1, ListAllocated DEF TypeInv, TypeOK
<1>2. ASSUME NEW b \in Malloc[live], UNCHANGED header,
             node' = [node EXCEPT ![b] =
                        [type |-> Extracted, hdr |-> headers,
                         next |-> NULL]]
      PROVE  node'[chain[i]] = node[chain[i]]
             /\ header'[node[chain[i]].hdr] = header[node[chain[i]].hdr]
  <2>1. chain[i] # b /\ chain[i] \in Blocks
    BY Fresh, ListAllocated
  <2> QED
    BY <1>2, <2>1 DEF TypeInv, TypeOK
<1> QED
  BY <1>1, <1>2 DEF AllocNode

\* Neither malloc moves a header.
LEMMA AllocGeometry ==
  ASSUME TypeInv, HeapInv, GeometryInv, AllocHeader \/ AllocNode
  PROVE  GeometryInv'
<1>1. /\ pc \in {"allocHeader", "allocNode"}
      /\ pc' \in {"allocNode", "link", "fpp_end"}
      /\ UNCHANGED <<chain, length, offset>> /\ offset \in Nat
  BY DEF AllocHeader, AllocNode, OutOfMemory, callVars, GeometryInv, NonNegative
<1> QED
  BY <1>1, AllocHeaderKeeps, AllocNodeKeeps, GeometryFrame DEF Loading

\* Linking a node changes neither the type nor the header of the others.
LEMMA LinkNodeKeeps ==
  ASSUME TypeInv, HeapInv, LinkNode
  PROVE  /\ \A b \in Blocks : node'[b].type = node[b].type
                             /\ node'[b].hdr = node[b].hdr
         /\ \A i \in 1 .. Len(chain) :
              /\ chain'[i] = chain[i]
              /\ node'[chain[i]].type = node[chain[i]].type
              /\ HeaderAt(i)' = HeaderAt(i)
<1>1. /\ pc = "link" /\ chain' = Append(chain, hdr)
      /\ header' = [header EXCEPT ![headers].offset = Bytes(offset)]
      /\ \/ node' = node
         \/ node' = [node EXCEPT ![last_hdr].next = hdr]
  BY DEF LinkNode
<1>2. ASSUME NEW b \in Blocks
      PROVE  node'[b].type = node[b].type /\ node'[b].hdr = node[b].hdr
  <2>1. node \in [Blocks -> [type : Listed \cup {NULL},
                             hdr : Blocks \cup {NULL},
                             next : Blocks \cup {NULL}]]
    BY DEF TypeInv, TypeOK
  <2>2. CASE node' = node
    BY <2>2
  <2>3. CASE node' = [node EXCEPT ![last_hdr].next = hdr]
    <3>1. CASE b = last_hdr
      BY <2>1, <2>3, <3>1
    <3>2. CASE b # last_hdr
      BY <2>1, <2>3, <3>2
    <3> QED BY <3>1, <3>2
  <2> QED BY <1>1, <2>2, <2>3
<1>3. ASSUME NEW i \in 1 .. Len(chain)
      PROVE  /\ chain'[i] = chain[i]
             /\ node'[chain[i]].type = node[chain[i]].type
             /\ header'[node'[chain'[i]].hdr] = header[node[chain[i]].hdr]
  <2>1. chain'[i] = chain[i]
    BY <1>1 DEF TypeInv, TypeOK, Placed
  <2>2. node[chain[i]].hdr # headers
    BY <1>1 DEF HeapInv, Ownership, Unshared, InFlight, ChainHeaders
  <2>3. chain[i] \in Blocks /\ node[chain[i]].hdr \in Blocks
    BY ListAllocated
  <2>4. header'[node[chain[i]].hdr] = header[node[chain[i]].hdr]
    BY <1>1, <2>2, <2>3 DEF TypeInv, TypeOK
  <2> QED
    BY <1>2, <2>1, <2>3, <2>4
<1> QED
  BY <1>2, <1>3 DEF HeaderAt

\* The new node lies after the last one, because that one ended at or before
\* the offset, and in the packet, because the extract has passed its check.
LEMMA LinkNodeGeometry ==
  ASSUME TypeInv, HeapInv, GeometryInv, LinkNode
  PROVE  GeometryInv'
<1>0. Len(chain) \in Nat
  BY DEF TypeInv, TypeOK
<1> PICK n \in Nat : n = Len(chain)
  BY <1>0
<1>1. /\ pc = "link" /\ pc' = "load" /\ ~Loading
      /\ chain' = Append(chain, hdr)
      /\ UNCHANGED <<state, pos, offset, length>>
      /\ header' = [header EXCEPT ![headers].offset = Bytes(offset)]
      /\ \/ node' = node
         \/ node' = [node EXCEPT ![last_hdr].next = hdr]
  BY DEF LinkNode, callVars, Loading
<1>2. /\ hdr \in Blocks /\ headers \in Blocks
      /\ Extracted \in Listed /\ AtExtract /\ Fits
      /\ node[hdr].type = Extracted /\ node[hdr].hdr = headers
  BY <1>1 DEF TypeInv, Placed, Control, InExtract, HeapInv, Linking
<1>3. /\ n \in Nat /\ Len(chain') = n + 1
      /\ chain'[n + 1] = hdr
      /\ \A i \in 1 .. n : chain'[i] = chain[i]
  BY <1>1, <1>2 DEF TypeInv, TypeOK
<1>4. \A b \in Blocks :
        node'[b].type = node[b].type /\ node'[b].hdr = node[b].hdr
  BY LinkNodeKeeps
<1>5. ASSUME NEW i \in 1 .. n
      PROVE  HeaderAt(i)' = HeaderAt(i) /\ EndAt(i)' = EndAt(i)
             /\ node'[chain'[i]].type = node[chain[i]].type
  BY LinkNodeKeeps DEF EndAt
<1>6. HeaderAt(n + 1)'.offset = Bytes(offset)
  <2>1. node'[chain'[n + 1]].hdr = headers
    BY <1>2, <1>3, <1>4
  <2>2. header'[headers].offset = Bytes(offset)
    BY <1>1, <1>2 DEF TypeInv, TypeOK
  <2> QED
    BY <2>1, <2>2 DEF HeaderAt
<1>7. node'[chain'[n + 1]].type = Extracted /\ Extracted' = Extracted
  BY <1>1, <1>2, <1>3, <1>4 DEF Extracted, Current
<1>8. EndAt(n + 1)' <= length
  <2>1. Width[Extracted] \in Nat /\ offset \in Nat /\ length \in Nat
        /\ Bytes(offset + Width[Extracted]) \in Nat
    <3>1. Width[Extracted] \in Nat /\ length \in Nat
      BY <1>2, SizeCheck DEF AtExtract, TypeInv
    <3>2. offset \in Nat
      BY DEF GeometryInv, NonNegative
    <3>3. offset + Width[Extracted] \in Nat
      BY <3>1, <3>2
    <3> QED
      BY <3>1, <3>2, <3>3, BytesNat
  <2>2. Bytes(offset) + Bytes(Width[Extracted])
          <= Bytes(offset + Width[Extracted])
    BY <2>1, BytesOrder
  <2>3. EndAt(n + 1)' = Bytes(offset) + Bytes(Width[Extracted])
    BY <1>6, <1>7 DEF EndAt
  <2>4. Bytes(offset) \in Nat /\ Bytes(Width[Extracted]) \in Nat
    BY <2>1, BytesNat
  <2> QED
    BY <1>2, <2>1, <2>2, <2>3, <2>4 DEF Fits, TooShort
<1>9. \A i \in 1 .. n + 1 :
        EndAt(i)' <= (IF i = n + 1 THEN length' ELSE HeaderAt(i + 1)'.offset)
  <2> TAKE i \in 1 .. n + 1
  <2>1. CASE i = n + 1
    BY <1>1, <1>8, <2>1
  <2>2. CASE i = n
    <3>1. i \in 1 .. n /\ chain # <<>>
      BY <1>3, <2>2
    <3>2. EndAt(n) <= Bytes(offset)
      BY <1>1, <3>1 DEF GeometryInv, Rounded
    <3> QED
      BY <1>3, <1>5, <1>6, <2>2, <3>1, <3>2
  <2>3. CASE i < n
    <3>1. i \in 1 .. n /\ i + 1 \in 1 .. n /\ i # n /\ i # n + 1
      BY <1>3, <2>3
    <3>2. EndAt(i) <= HeaderAt(i + 1).offset
      BY <3>1 DEF GeometryInv, Rounded
    <3> QED
      BY <1>5, <3>1, <3>2
  <2> QED
    BY <1>3, <2>1, <2>2, <2>3
<1>10. Typed'
  <2> SUFFICES ASSUME NEW i \in 1 .. n + 1
               PROVE  node'[chain'[i]].type \in Listed
    BY <1>3 DEF Typed
  <2>1. CASE i = n + 1
    BY <1>2, <1>7, <2>1
  <2>2. CASE i \in 1 .. n
    BY <1>5, <2>2 DEF GeometryInv, Typed
  <2> QED
    BY <1>3, <2>1, <2>2
<1>11. Loading' /\ pc' # "idle"
  BY <1>1, <1>2, <1>7 DEF Loading
<1>12. NonNegative'
  <2>1. offset \in Nat /\ Bytes(offset) \in Nat
    BY BytesNat DEF GeometryInv, NonNegative
  <2>2. ASSUME NEW i \in 1 .. n + 1 PROVE HeaderAt(i)'.offset \in Nat
    <3>1. CASE i = n + 1
      BY <1>6, <2>1, <3>1
    <3>2. CASE i \in 1 .. n
      BY <1>5, <3>2 DEF GeometryInv, NonNegative
    <3> QED
      BY <3>1, <3>2
  <2> QED
    BY <1>1, <1>3, <2>1, <2>2 DEF NonNegative
<1> QED
  BY <1>1, <1>3, <1>6, <1>7, <1>9, <1>10, <1>11, <1>12 DEF GeometryInv, Rounded

\* The offset after the loads is not before the end of the header loaded.
LEMMA LoadFieldsGeometry ==
  ASSUME TypeInv, HeapInv, GeometryInv, LoadFields
  PROVE  GeometryInv'
<1> DEFINE n == Len(chain)
<1>1. /\ pc = "load" /\ pc' = "statement" /\ ~Loading'
      /\ UNCHANGED <<length, node, chain>>
      /\ offset' = offset + Width[Extracted]
  BY DEF LoadFields, Loading
<1>2. AtExtract
  BY <1>1 DEF TypeInv, Control, InExtract
<1>3. Width[Extracted] \in Nat /\ offset \in Nat
  BY <1>2, SizeCheck DEF AtExtract, TypeInv, GeometryInv, NonNegative
<1>4. CASE Extracted \notin Listed
  <2>1. header' = header
    BY <1>4 DEF LoadFields
  <2> QED
    BY <1>1, <1>3, <1>4, <2>1, GeometryFrame DEF Loading
<1>5. CASE Extracted \in Listed
  <2>1. header' = [header EXCEPT ![headers].fields = "loaded",
                                 ![headers].valid = "set"]
    BY <1>5 DEF LoadFields
  <2>2. Loading /\ chain # <<>> /\ n \in 1 .. n
    BY <1>1, <1>5 DEF Loading, HeapInv, Linking, TypeInv, TypeOK
  <2>3. \A i \in 1 .. n : HeaderAt(i)'.offset = HeaderAt(i).offset
    BY <1>1, <2>1, ListAllocated DEF HeaderAt, TypeInv, TypeOK
  <2>4. \A i \in 1 .. n : EndAt(i)' = EndAt(i)
    BY <1>1, <2>3 DEF EndAt
  <2>5. EndAt(n) = Bytes(offset) + Bytes(Width[Extracted])
    BY <1>1, <2>2 DEF GeometryInv, Rounded, EndAt
  <2>6. EndAt(n)' <= Bytes(offset')
    BY <1>1, <1>3, <2>2, <2>4, <2>5, BytesOrder
  <2>7. \A i \in 1 .. n :
          EndAt(i)' <= (IF i = n THEN length' ELSE HeaderAt(i + 1)'.offset)
    <3> TAKE i \in 1 .. n
    <3>1. EndAt(i) <= (IF i = n THEN length ELSE HeaderAt(i + 1).offset)
      BY DEF GeometryInv, Rounded
    <3>2. i # n => i + 1 \in 1 .. n
      BY <2>2
    <3> QED
      BY <1>1, <2>3, <2>4, <3>1, <3>2
  <2>8. Typed'
    BY <1>1 DEF GeometryInv, Typed
  <2>9. NonNegative'
    BY <1>1, <1>3, <2>3 DEF GeometryInv, NonNegative
  <2> QED
    BY <1>1, <2>6, <2>7, <2>8, <2>9 DEF GeometryInv, Rounded
<1> QED
  BY <1>4, <1>5

\* Every step keeps the headers in their places.
LEMMA GeometryStep ==
  ASSUME Forward, TypeInv, HeapInv, GeometryInv, [Next]_vars
  PROVE  GeometryInv'
<1>1. offset \in Nat
  BY DEF GeometryInv, NonNegative
<1>2. ASSUME NEW m \in Lens, Call(m) PROVE GeometryInv'
  <2>1. chain' = <<>> /\ offset' = 0
    BY <1>2 DEF Call, HeapInv, Linking
  <2> QED
    BY <2>1 DEF GeometryInv, Rounded, Typed, NonNegative
<1>3. CASE ExtractTooShort
  BY <1>1, <1>3, GeometryFrame DEF ExtractTooShort, Extracting, AtStatement,
     Loading, heapVars
<1>4. CASE ExtractFits
  BY <1>1, <1>4, GeometryFrame DEF ExtractFits, Extracting, AtStatement,
     Loading, Extracted, Current, callVars, heapVars
<1>5. CASE AllocHeader
  BY <1>5, AllocGeometry
<1>6. CASE AllocNode
  BY <1>6, AllocGeometry
<1>7. CASE LinkNode
  BY <1>7, LinkNodeGeometry
<1>8. CASE LoadFields
  BY <1>8, LoadFieldsGeometry
<1>9. CASE Advance
  <2>1. PICK k \in Current.amounts : offset' = offset + k
    BY <1>9 DEF Advance
  <2>2. k \in Nat
    BY <1>9, ForwardAmounts DEF Advance, AtStatement, TypeInv
  <2> QED
    BY <1>1, <1>9, <2>1, <2>2, GeometryFrame DEF Advance, AtStatement,
       Loading, heapVars
<1>10. CASE Assign
  BY <1>1, <1>10, GeometryFrame DEF Assign, AtStatement, Loading, heapVars
<1>11. CASE Transition
  <2>1. pc = "statement" /\ pc' \in {"statement", "accept", "reject"}
    BY <1>11, ProgramAssumption DEF Transition, AtTransition, TypeInv, TypeOK
  <2> QED
    BY <1>1, <1>11, <2>1, GeometryFrame DEF Transition, Loading, heapVars
<1>12. CASE AcceptState \/ RejectState \/ EndLabel
  BY <1>1, <1>12, GeometryFrame DEF AcceptState, RejectState, EndLabel, Leave,
     Loading, heapVars
<1>13. CASE Release
  <2>1. chain' = <<>> /\ offset' = 0
    BY <1>13 DEF Release, Forget
  <2> QED
    BY <2>1 DEF GeometryInv, Rounded, Typed, NonNegative
<1>14. CASE UNCHANGED vars
  <2>1. /\ UNCHANGED <<pc, length, offset, node, header, chain>>
        /\ Extracted' = Extracted
    BY <1>14 DEF vars, callVars, heapVars, Extracted, Current
  <2>2. Loading' = Loading
    BY <2>1 DEF Loading
  <2> QED
    BY <2>1, <2>2 DEF GeometryInv, Rounded, Typed, NonNegative, EndAt, HeaderAt
<1> QED
  BY <1>2, <1>3, <1>4, <1>5, <1>6, <1>7, <1>8, <1>9, <1>10, <1>11, <1>12,
     <1>13, <1>14 DEF Next, ParserNext

\* With advances that go forward, the invariant of the places is kept.
LEMMA GeometryInvariant == ASSUME Forward PROVE Spec => [](TypeInv /\ GeometryInv)
<1>1. Init => GeometryInv
  BY DEF Init, GeometryInv, Rounded, Typed, NonNegative
<1>2. TypeInv /\ HeapInv /\ GeometryInv /\ [Next]_vars => GeometryInv'
  BY GeometryStep
<1> QED
  BY HeapInvariant, <1>1, <1>2, PTL DEF Spec

\* The headers a caller receives follow one another in the packet, for every
\* P4 program whose advances go forward, although no advance is checked; but a
\* header that is not of whole bytes may have up to seven bits behind the
\* packet's end or in the next header, for the emitted check rounds them off.
THEOREM HeadersInOrder == ASSUME Forward PROVE Spec => []Geometry
<1>1. TypeInv /\ GeometryInv => Geometry
  BY RoundedGeometry
<1> QED
  BY GeometryInvariant, <1>1, PTL

\* Where every listed header is of whole bytes, none of their bits is outside
\* the packet and no two of them overlap.
THEOREM WholeHeadersInside ==
  ASSUME Forward, \A h \in Listed : Width[h] % 8 = 0
  PROVE  Spec => []Inside
<1>1. TypeInv /\ GeometryInv => Inside
  <2> SUFFICES ASSUME TypeInv, GeometryInv, NEW i \in 1 .. Len(chain)
               PROVE  EndBit(i) <= 8 * Limit(i)
    BY DEF Inside
  <2>1. EndsBy(i, Limit(i))
    BY RoundedGeometry DEF Geometry
  <2>2. Width[node[chain[i]].type] % 8 = 0
    BY DEF GeometryInv, Typed
  <2> QED
    BY <2>1, <2>2 DEF EndsBy
<1> QED
  BY GeometryInvariant, <1>1, PTL

-----------------------------------------------------------------------------
(* What the caller relies on: each step delivers a header, concludes,       *)
(* begins or releases a call, or leaves what the caller can rely on as it   *)
(* is, so that the function implements HeaderChain.                         *)

Inv == TypeInv /\ VerdictSound /\ HeapInv /\ GeometryInv

\* What is delivered depends on the list and its headers only.
LEMMA DeliveredFrame ==
  ASSUME Inv, Done' = Done, UNCHANGED chain,
         \A i \in 1 .. Len(chain) :
           /\ node'[chain[i]].type = node[chain[i]].type
           /\ HeaderAt(i)'.offset = HeaderAt(i).offset
  PROVE  Delivered' = Delivered
<1>1. \A i \in 1 .. Done : i \in 1 .. Len(chain)
  BY DEF Done, Inv, TypeInv, TypeOK
<1> QED
  BY <1>1 DEF Delivered

\* A step of the function that leaves the list, its nodes and headers alone.
LEMMA Unchanged ==
  ASSUME Inv, UNCHANGED <<node, header, chain>>, Done' = Done
  PROVE  Delivered' = Delivered
  BY DeliveredFrame DEF HeaderAt

\* Nothing is delivered while the list is empty.
LEMMA NothingDelivered ==
  ASSUME chain = <<>>, ~Loading
  PROVE  Delivered = <<>>
<1>1. Done = 0
  BY DEF Done
<1> QED
  BY <1>1 DEF Delivered

\* The loads of a listed header deliver it, after the headers before it and
\* inside the packet.
LEMMA LoadFieldsDelivers ==
  ASSUME Inv, LoadFields, Extracted \in Listed
  PROVE  Abstract!Deliver(Extracted)
<1>0. Len(chain) \in Nat
  BY DEF Inv, TypeInv, TypeOK
<1> PICK n \in Nat : n = Len(chain)
  BY <1>0
<1>1. /\ pc = "load" /\ pc' = "statement"
      /\ UNCHANGED <<length, node, chain>>
      /\ header' = [header EXCEPT ![headers].fields = "loaded",
                                  ![headers].valid = "set"]
  BY DEF LoadFields
<1>2. Loading /\ ~Loading' /\ n > 0 /\ n \in 1 .. n
  BY <1>1 DEF Loading, Inv, HeapInv, Linking, TypeInv, TypeOK
<1>3. Done = n - 1 /\ Done' = n
  BY <1>1, <1>2 DEF Done
<1>4. \A i \in 1 .. n : HeaderAt(i)'.offset = HeaderAt(i).offset
  BY <1>1, ListAllocated DEF HeaderAt, Inv, TypeInv, TypeOK
<1> DEFINE d == [type |-> Extracted, offset |-> HeaderAt(n).offset]
<1>5. node[chain[n]].type = Extracted
  BY <1>1, <1>2 DEF Inv, GeometryInv, Rounded
<1>6. Delivered' = Append(Delivered, d)
  <2>1. Delivered = [i \in 1 .. n - 1 |->
                       [type |-> node[chain[i]].type,
                        offset |-> HeaderAt(i).offset]]
    BY <1>3 DEF Delivered
  <2>2. Delivered' = [i \in 1 .. n |->
                        [type |-> node[chain[i]].type,
                         offset |-> HeaderAt(i).offset]]
    BY <1>1, <1>3, <1>4 DEF Delivered
  <2> QED
    BY <1>2, <1>5, <2>1, <2>2
<1>7. HeaderAt(n).offset \in Nat /\ length \in Nat
  BY <1>2, EndNat, LensAssumption DEF Inv, GeometryInv, TypeInv, TypeOK
<1>8. EndAt(n) <= length /\ Width[Extracted] \in Nat
  <2>1. EndAt(n) <= length
    BY <1>2 DEF Inv, GeometryInv, Rounded
  <2> QED
    BY <1>2, <1>5, <2>1, EndNat DEF Inv, GeometryInv
<1>9. Abstract!EndsBy(d, length)
  <2>1. PICK o \in Nat, w \in Nat, b \in Nat :
          o = d.offset /\ w = Width[d.type] /\ b = length
    BY <1>7, <1>8
  <2>2. o + Bytes(w) <= b
    BY <1>5, <1>8, <2>1 DEF EndAt
  <2>3. \/ 8 * o + w <= 8 * b
        \/ w % 8 # 0 /\ 8 * o + w < 8 * b + 8
    BY <2>2, ByteEnd
  <2> HIDE DEF d
  <2> QED
    BY <2>1, <2>3 DEF Abstract!EndsBy, Abstract!EndOf
<1>10. HeaderAt(n).offset \in 0 .. length
  <2>1. Bytes(Width[Extracted]) \in Nat
    BY <1>8, BytesNat
  <2> QED
    BY <1>5, <1>7, <1>8, <2>1 DEF EndAt
<1>12. Abstract!FreeFrom(HeaderAt(n).offset)
  <2>1. CASE n = 1
    BY <1>3, <2>1 DEF Delivered, Abstract!FreeFrom
  <2>2. CASE n > 1
    <3> DEFINE p == [type |-> node[chain[n - 1]].type,
                     offset |-> HeaderAt(n - 1).offset]
    <3>1. n - 1 \in 1 .. n - 1 /\ n - 1 \in 1 .. n /\ n - 1 # n
      BY <2>2
    <3>2. Len(Delivered) = n - 1 /\ Delivered[n - 1] = p
      BY <1>3, <3>1 DEF Delivered
    <3>3. EndAt(n - 1) <= HeaderAt(n).offset
      BY <3>1 DEF Inv, GeometryInv, Rounded
    <3>4. HeaderAt(n - 1).offset \in Nat /\ Width[p.type] \in Nat
      BY <3>1, EndNat DEF Inv, GeometryInv
    <3>5. Abstract!EndsBy(p, HeaderAt(n).offset)
      <4>1. PICK o \in Nat, w \in Nat, b \in Nat :
              o = p.offset /\ w = Width[p.type] /\ b = HeaderAt(n).offset
        BY <1>7, <3>4
      <4>2. o + Bytes(w) <= b
        BY <3>3, <4>1 DEF EndAt
      <4>3. \/ 8 * o + w <= 8 * b
            \/ w % 8 # 0 /\ 8 * o + w < 8 * b + 8
        BY <4>2, ByteEnd
      <4> HIDE DEF p
      <4> QED
        BY <4>1, <4>3 DEF Abstract!EndsBy, Abstract!EndOf
    <3> QED
      BY <3>2, <3>5 DEF Abstract!FreeFrom
  <2> QED
    BY <1>2, <2>1, <2>2
<1>11. Verdict = "parsing" /\ Verdict' = "parsing"
  BY <1>1 DEF Verdict
<1> QED
  BY <1>1, <1>6, <1>9, <1>10, <1>11, <1>12 DEF Abstract!Deliver

-----------------------------------------------------------------------------
(* The steps of the function                                               *)

\* The function goes on and the caller's view stays the same.
Silent == UNCHANGED <<length, Delivered, Verdict>>

\* A step between two places of the function that are not inside the loads
\* of a listed header, and that keeps what is on the list.
LEMMA SilentStep ==
  ASSUME Inv,
         pc \notin {"idle", "returned"}, pc' \notin {"idle", "returned"},
         ~Loading, ~Loading', UNCHANGED <<length, chain>>,
         \A i \in 1 .. Len(chain) :
           /\ node'[chain[i]] = node[chain[i]]
           /\ header'[node[chain[i]].hdr] = header[node[chain[i]].hdr]
  PROVE  Silent
<1>1. Done' = Done
  BY DEF Done
<1>2. Delivered' = Delivered
  BY <1>1, DeliveredFrame DEF HeaderAt
<1> QED
  BY <1>2 DEF Silent, Verdict

\* A node that is linked is not delivered yet.
LEMMA LinkNodeSilent ==
  ASSUME Inv, LinkNode
  PROVE  Silent
<1>0. Len(chain) \in Nat
  BY DEF Inv, TypeInv, TypeOK
<1> PICK n \in Nat : n = Len(chain)
  BY <1>0
<1>1. /\ pc = "link" /\ pc' = "load" /\ ~Loading
      /\ chain' = Append(chain, hdr) /\ UNCHANGED <<state, pos, length>>
  BY DEF LinkNode, callVars, Loading
<1>2. Extracted' = Extracted /\ Extracted \in Listed /\ hdr \in Blocks
  BY <1>1 DEF Extracted, Current, Inv, TypeInv, Control, Placed
<1>3. Len(chain') = n + 1
  BY <1>1, <1>2 DEF Inv, TypeInv, TypeOK
<1>4. Done = n /\ Done' = n
  BY <1>1, <1>2, <1>3 DEF Done, Loading
<1>5. \A i \in 1 .. n : /\ node'[chain'[i]].type = node[chain[i]].type
                        /\ HeaderAt(i)' = HeaderAt(i)
  BY LinkNodeKeeps DEF Inv
<1>6. Delivered = [i \in 1 .. n |-> [type |-> node[chain[i]].type,
                                    offset |-> HeaderAt(i).offset]]
  BY <1>4 DEF Delivered
<1>7. Delivered' = [i \in 1 .. n |-> [type |-> node'[chain'[i]].type,
                                     offset |-> HeaderAt(i)'.offset]]
  BY <1>4 DEF Delivered
<1> QED
  BY <1>1, <1>5, <1>6, <1>7 DEF Silent, Verdict

\* A return concludes the call with the code returned.
LEMMA LeaveConcludes ==
  ASSUME Inv, NEW code \in ErrorCodes, Leave(code),
         pc \in {"accept", "reject", "fpp_end"}
  PROVE  Abstract!Conclude(code)
<1>1. /\ pc' = "returned" /\ ret' = code
      /\ UNCHANGED <<length, node, header, chain>>
  BY DEF Leave, heapVars
<1>2. Done' = Done
  BY <1>1 DEF Done, Loading
<1>3. Delivered' = Delivered
  BY <1>1, <1>2, Unchanged
<1> QED
  BY <1>1, <1>3 DEF Abstract!Conclude, Verdict

\* A call begins with nothing delivered.
LEMMA CallBegins ==
  ASSUME Inv, NEW n \in Lens, Call(n)
  PROVE  Abstract!Begin(n)
<1>1. pc = "idle" /\ pc' = "statement" /\ length' = n /\ chain' = <<>>
  BY DEF Call, Inv, HeapInv, Linking
<1>2. Done' = 0
  BY <1>1 DEF Done, Loading
<1>3. Delivered' = <<>>
  BY <1>2 DEF Delivered
<1> QED
  BY <1>1, <1>3 DEF Abstract!Begin, Verdict

\* The caller gives back a list that has a verdict.
LEMMA ReleaseReleases ==
  ASSUME Inv, Release
  PROVE  Abstract!Release
<1>1. /\ pc = "returned" /\ pc' = "idle"
      /\ length' = 0 /\ chain' = <<>>
  BY DEF Release, Forget
<1>2. ret \in Abstract!ReturnCodes
  BY <1>1 DEF Inv, VerdictSound, Reason, Abstract!ReturnCodes
<1>3. Done' = 0
  BY <1>1 DEF Done, Loading
<1>4. Delivered' = <<>>
  BY <1>3 DEF Delivered
<1> QED
  BY <1>1, <1>2, <1>4 DEF Abstract!Release, Verdict

\* Every step is one of the abstract specification or leaves it alone.
LEMMA StepImplements ==
  Inv /\ [Next]_vars => [Abstract!Next]_(Abstract!vars)
<1> SUFFICES ASSUME Inv, [Next]_vars
             PROVE  Abstract!Next \/ Silent
  BY DEF Silent, Abstract!vars
<1>1. ASSUME NEW n \in Lens, Call(n) PROVE Abstract!Next
  BY <1>1, CallBegins DEF Abstract!Next
<1>2. CASE ExtractTooShort
  BY <1>2, SilentStep DEF ExtractTooShort, Extracting, AtStatement, Loading,
     heapVars
<1>3. CASE ExtractFits
  BY <1>3, SilentStep DEF ExtractFits, Extracting, AtStatement, Loading,
     Extracted, Current, callVars, heapVars
<1>4. CASE AllocHeader
  <2>1. UNCHANGED <<length, chain>>
        /\ pc = "allocHeader" /\ pc' \in {"allocNode", "fpp_end"}
    BY <1>4 DEF AllocHeader, OutOfMemory
  <2> QED
    BY <1>4, <2>1, AllocHeaderKeeps, SilentStep DEF Loading, Inv
<1>5. CASE AllocNode
  <2>1. UNCHANGED <<length, chain>>
        /\ pc = "allocNode" /\ pc' \in {"link", "fpp_end"}
    BY <1>5 DEF AllocNode, OutOfMemory, callVars
  <2> QED
    BY <1>5, <2>1, AllocNodeKeeps, SilentStep DEF Loading, Inv
<1>6. CASE LinkNode
  BY <1>6, LinkNodeSilent
<1>7. CASE LoadFields /\ Extracted \in Listed
  BY <1>7, LoadFieldsDelivers DEF Abstract!Next
<1>8. CASE LoadFields /\ Extracted \notin Listed
  BY <1>8, SilentStep DEF LoadFields, Loading
<1>9. CASE Advance
  BY <1>9, SilentStep DEF Advance, AtStatement, Loading, heapVars
<1>10. CASE Assign
  BY <1>10, SilentStep DEF Assign, AtStatement, Loading, heapVars
<1>11. CASE Transition
  <2>1. pc = "statement" /\ pc' \in {"statement", "accept", "reject"}
    BY <1>11, ProgramAssumption
    DEF Transition, AtTransition, Inv, TypeInv, TypeOK
  <2> QED
    BY <1>11, <2>1, SilentStep DEF Transition, Loading, heapVars
<1>12. CASE AcceptState \/ RejectState \/ EndLabel
  <2>1. PICK code \in ErrorCodes :
          Leave(code) /\ pc \in {"accept", "reject", "fpp_end"}
    BY <1>12 DEF AcceptState, RejectState, EndLabel, ErrorCodes, Inv, TypeInv,
       TypeOK
  <2>2. code \in Abstract!ReturnCodes
    BY DEF ErrorCodes, Abstract!ReturnCodes
  <2> QED
    BY <2>1, <2>2, LeaveConcludes DEF Abstract!Next
<1>13. CASE Release
  BY <1>13, ReleaseReleases DEF Abstract!Next
<1>14. CASE UNCHANGED vars
  <2>1. UNCHANGED <<pc, ret, length, node, header, chain>>
        /\ Extracted' = Extracted
    BY <1>14 DEF vars, callVars, heapVars, Extracted, Current
  <2>2. Done' = Done
    BY <2>1 DEF Done, Loading
  <2> QED
    BY <2>1, <2>2, Unchanged DEF Silent, Verdict
<1> QED
  BY <1>1, <1>2, <1>3, <1>4, <1>5, <1>6, <1>7, <1>8, <1>9, <1>10, <1>11,
     <1>12, <1>13, <1>14 DEF Next, ParserNext

\* The emitted function keeps HeaderChain's promise to its caller for every P4
\* program whose advances go forward: it delivers headers of the packet in
\* order, each up to its last whole byte before the next one and the packet's
\* end, and once it has concluded nothing the caller holds changes.
THEOREM KeepsPromise == ASSUME Forward PROVE Spec => ImplementsHeaderChain
<1>1. Init => Inv
  <2> SUFFICES ASSUME Init PROVE Inv
    OBVIOUS
  <2>1. VerdictSound /\ GeometryInv
    BY DEF Init, VerdictSound, GeometryInv, Rounded, Typed, NonNegative
  <2> QED
    BY <2>1, TypeInit, HeapInit DEF Inv
<1>2. Inv /\ [Next]_vars => Inv'
  BY TypeStep, VerdictStep, HeapStep, GeometryStep DEF Inv
<1>3. Init => Abstract!Init
  <2> SUFFICES ASSUME Init PROVE Abstract!Init
    OBVIOUS
  <2>1. chain = <<>> /\ ~Loading /\ pc = "idle" /\ length = 0
    BY DEF Init, Loading
  <2>2. Delivered = <<>>
    BY <2>1, NothingDelivered
  <2> QED
    BY <2>1, <2>2 DEF Abstract!Init, Verdict
<1> QED
  BY <1>1, <1>2, <1>3, StepImplements, PTL
  DEF Spec, ImplementsHeaderChain, Abstract!Spec
=============================================================================
