------------------------- MODULE ExampleClientProofs -------------------------
(***************************************************************************)
(* Proofs that the example's client neither leaks nor touches what it has  *)
(* freed, prints every header it receives and exits with the status its    *)
(* failures call for: for every P4 program, packet, capture file and heap. *)
(*                                                                         *)
(* While fpp_parse_packet runs, the heap is as FppParserProofs has it.     *)
(* Afterwards process_packet takes the list apart from its head on, and    *)
(* what FppParserProofs says of the whole list, Walk says of the rest.     *)
(***************************************************************************)
EXTENDS ExampleClient, FppParserProofs

-----------------------------------------------------------------------------
(* The inductive invariant                                                 *)

Walking == main \in {"print", "next", "freeHeader", "freeNode"}

\* Positions in the list of the first node and of the first header that
\* process_packet has not freed yet.
FirstNode == IF main = "print" THEN Len(visited) + 1 ELSE Len(visited)
FirstHeader ==
  IF main \in {"print", "freeNode"} THEN Len(visited) + 1 ELSE Len(visited)

NodesFrom(i) == {chain[j] : j \in i .. Len(chain)}
HeadersFrom(i) == {node[chain[j]].hdr : j \in i .. Len(chain)}
NodeAt(i) == IF i <= Len(chain) THEN chain[i] ELSE NULL

\* The walk's two pointers and what it has printed.
WalkPlace ==
  /\ Len(visited) <= Len(chain)
  /\ main # "print" => Len(visited) > 0
  /\ \A i \in 1 .. Len(visited) : visited[i] = chain[i]
  /\ walker = NodeAt(IF main = "next" THEN Len(visited) ELSE Len(visited) + 1)
  /\ tmp = NodeAt(FirstNode)

\* The rest of the list is still a list of loaded headers.
WalkRest ==
  /\ \A i \in FirstNode .. Len(chain) :
       node[chain[i]].next = NodeAt(i + 1) /\ node[chain[i]].hdr \in Blocks
  /\ \A i \in FirstHeader .. Len(chain) :
       HeaderAt(i).fields = "loaded" /\ HeaderAt(i).valid = "set"

\* No block of the rest is there twice.
WalkUnshared ==
  /\ \A i, j \in 1 .. Len(chain) : i # j => chain[i] # chain[j]
  /\ \A i, j \in FirstNode .. Len(chain) :
       i # j => node[chain[i]].hdr # node[chain[j]].hdr
  /\ NodesFrom(FirstNode) \cap HeadersFrom(FirstNode) = {}

\* What is allocated is the rest of the list.
WalkOwns == live = NodesFrom(FirstNode) \cup HeadersFrom(FirstHeader)

Walk ==
  /\ pc = "returned"
  /\ WalkPlace /\ WalkRest /\ WalkUnshared /\ WalkOwns

\* Where main is, fpp_parse_packet is too.
InStep ==
  /\ main \in {"open", "read", "exit"} <=> pc = "idle"
  /\ main \notin {"parse", "open", "read", "exit"} => Walking
  /\ ~Walking => HeapInv /\ visited = <<>>
  /\ Walking => Walk

\* main has noted every failure but the one the running call is to report.
Unreported ==
  /\ main = "parse"
  /\ \/ pc = "fpp_end"
     \/ pc = "returned" /\ ret = "OutOfMemory"

Honest == trouble <=> (status = 1 \/ Unreported)

ClientInv == TypeInv /\ ClientTypeOK /\ InStep /\ Honest

-----------------------------------------------------------------------------
(* The steps of main                                                       *)

LEMMA ClientStart == ClientInit => ClientInv
<1> SUFFICES ASSUME ClientInit PROVE ClientInv
  OBVIOUS
<1>1. TypeInv /\ HeapInv
  BY TypeInit, HeapInit DEF ClientInit
<1>2. ClientTypeOK
  <2>1. trouble \in BOOLEAN
    BY Zenon DEF ClientInit
  <2>2. /\ main = "open" /\ left \in 0 .. MaxPackets /\ status = 0
        /\ walker = NULL /\ tmp = NULL /\ visited = <<>>
    BY DEF ClientInit
  <2> QED
    BY <2>1, <2>2 DEF ClientTypeOK
<1>3. InStep /\ Honest
  BY <1>1 DEF ClientInit, Init, InStep, Walking, Honest, Unreported
<1> QED
  BY <1>1, <1>2, <1>3 DEF ClientInv

\* What the parser's state says survives a step that leaves it alone.
LEMMA ParserFrame ==
  ASSUME UNCHANGED vars
  PROVE  (TypeInv => TypeInv') /\ (HeapInv => HeapInv')
<1>1. /\ UNCHANGED <<pc, state, pos, offset, errorCode, ret, length, scope,
                     assigned, out, last_hdr, hdr, headers, live, node,
                     header, chain>>
  BY DEF vars, callVars, listVars, heapVars
<1>2. Extracted' = Extracted /\ Fits' = Fits /\ AtExtract' = AtExtract
  BY <1>1 DEF Extracted, Current, Fits, TooShort, AtExtract
<1>3. /\ ChainNodes' = ChainNodes /\ ChainHeaders' = ChainHeaders
      /\ InFlight' = InFlight /\ Loading' = Loading /\ Done' = Done
  BY <1>1, <1>2 DEF ChainNodes, ChainHeaders, InFlight, Loading, Done
<1>4. TypeInv => TypeInv'
  BY <1>1, <1>2 DEF TypeInv, TypeOK, Control, Placed, InExtract, Reason
<1>5. Linking => Linking'
  BY <1>1, <1>2, <1>3 DEF Linking
<1>6. ListShape => ListShape'
  BY <1>1 DEF ListShape
<1>7. Ownership => Ownership'
  BY <1>1, <1>3 DEF Ownership, Unshared
<1>8. Complete => Complete'
  BY <1>1, <1>3 DEF Complete, HeaderAt
<1> QED
  BY <1>4, <1>5, <1>6, <1>7, <1>8 DEF HeapInv

\* Opening the file, an error and the end of the file touch no list.
LEMMA MainStep ==
  ASSUME ClientInv, Open \/ ReadError \/ ReadEnd
  PROVE  ClientInv'
<1>1. UNCHANGED vars /\ UNCHANGED <<left, walker, tmp, visited, pc, ret>>
  BY DEF Open, ReadError, ReadEnd, walkVars, vars, callVars
<1>2. /\ main \in {"open", "read"} /\ main' \in {"read", "exit"}
      /\ \/ status' = status /\ trouble' = trouble
         \/ status' = 1 /\ trouble' = TRUE
  BY DEF Open, ReadError, ReadEnd
<1>3. TypeInv' /\ HeapInv'
  BY <1>1, <1>2, ParserFrame DEF ClientInv, InStep, Walking
<1>4. ClientTypeOK'
  <2>1. trouble' \in BOOLEAN
    BY <1>2, Zenon DEF ClientInv, ClientTypeOK
  <2> QED
    BY <1>1, <1>2, <2>1 DEF ClientInv, ClientTypeOK
<1>5. InStep'
  BY <1>1, <1>2, <1>3 DEF ClientInv, InStep, Walking
<1>6. Honest'
  BY <1>1, <1>2 DEF ClientInv, Honest, Unreported
<1> QED
  BY <1>3, <1>4, <1>5, <1>6 DEF ClientInv

\* fpp_parse_packet is called with nothing allocated.
LEMMA ReadPacketStep ==
  ASSUME ClientInv, NEW n \in Lens, ReadPacket(n)
  PROVE  ClientInv'
<1>1. /\ main = "read" /\ main' = "parse" /\ left > 0 /\ left' = left - 1
      /\ UNCHANGED <<status, walker, tmp, visited, trouble>>
      /\ Call(n) /\ pc' = "statement"
  BY DEF ReadPacket, walkVars, Call
<1>2. HeapInv /\ TypeInv /\ visited = <<>>
  BY <1>1 DEF ClientInv, InStep, Walking
<1>3. [Next]_vars
  BY <1>1 DEF Next
<1>4. TypeInv' /\ HeapInv'
  BY <1>2, <1>3, TypeStep, HeapStep
<1>5. ClientTypeOK'
  BY <1>1, MaxPacketsAssumption DEF ClientInv, ClientTypeOK
<1>6. InStep'
  BY <1>1, <1>2, <1>4 DEF InStep, Walking
<1>7. Honest'
  BY <1>1 DEF ClientInv, Honest, Unreported
<1> QED
  BY <1>4, <1>5, <1>6, <1>7 DEF ClientInv

\* How a step of the function changes what it is about to return.
LEMMA VerdictProgress ==
  ASSUME TypeInv, ParserNext
  PROVE  /\ pc' # "idle"
         /\ pc \notin {"fpp_end", "returned"}
              => ~(pc' = "returned" /\ ret' = "OutOfMemory")
         /\ pc = "fpp_end" => pc' = "returned" /\ ret' = "OutOfMemory"
         /\ pc # "returned"
<1>1. CASE AcceptState
  BY <1>1 DEF AcceptState, Leave
<1>2. CASE RejectState
  BY <1>2 DEF RejectState, Leave, TypeInv, Control
<1>3. CASE EndLabel
  BY <1>3 DEF EndLabel, Leave, TypeInv, Control
<1>4. CASE Transition
  BY <1>4, ProgramAssumption DEF Transition, AtTransition, TypeInv, TypeOK
<1>5. CASE \/ ExtractTooShort \/ ExtractFits \/ AllocHeader \/ AllocNode
           \/ LinkNode \/ LoadFields \/ Advance \/ Assign
  BY <1>5 DEF ExtractTooShort, ExtractFits, Extracting, AllocHeader, AllocNode,
     OutOfMemory, LinkNode, LoadFields, Advance, Assign, AtStatement
<1> QED
  BY <1>1, <1>2, <1>3, <1>4, <1>5 DEF ParserNext

LEMMA ParseStep ==
  ASSUME ClientInv, Parse
  PROVE  ClientInv'
<1>1. /\ main = "parse" /\ main' = "parse" /\ ParserNext
      /\ trouble' = (trouble \/ pc' = "fpp_end")
      /\ UNCHANGED <<left, status, walker, tmp, visited>>
  BY DEF Parse, walkVars
<1>2. HeapInv /\ TypeInv /\ visited = <<>>
  BY <1>1 DEF ClientInv, InStep, Walking
<1>3. TypeInv' /\ HeapInv'
  BY <1>1, <1>2, TypeStep, HeapStep DEF Next
<1>4. ClientTypeOK'
  <2>1. trouble' \in BOOLEAN
    BY <1>1, Zenon DEF ClientInv, ClientTypeOK
  <2> QED
    BY <1>1, <2>1 DEF ClientInv, ClientTypeOK
<1>5. InStep'
  BY <1>1, <1>2, <1>3, VerdictProgress DEF InStep, Walking
<1>6. Honest'
  <2>1. /\ pc # "returned"
        /\ pc = "fpp_end" <=> (pc' = "returned" /\ ret' = "OutOfMemory")
    BY <1>1, <1>2, VerdictProgress
  <2>2. Unreported <=> pc = "fpp_end"
    BY <1>1, <2>1 DEF Unreported
  <2>3. Unreported' <=> (pc' = "fpp_end" \/ pc = "fpp_end")
    BY <1>1, <2>1 DEF Unreported
  <2>4. Honest
    BY DEF ClientInv
  <2> QED
    BY <1>1, <2>2, <2>3, <2>4 DEF Honest
<1> QED
  BY <1>3, <1>4, <1>5, <1>6 DEF ClientInv

\* The list fpp_parse_packet returns is the whole rest of the walk to come.
LEMMA HandleResultStep ==
  ASSUME ClientInv, HandleResult
  PROVE  ClientInv'
<1>1. /\ main = "parse" /\ pc = "returned" /\ main' = "print"
      /\ status' = IF ret = "OutOfMemory" THEN 1 ELSE status
      /\ walker' = out /\ tmp' = out
      /\ UNCHANGED <<left, visited, trouble>>
      /\ UNCHANGED vars
  BY DEF HandleResult
<1>2. UNCHANGED <<pc, ret, out, live, node, header, chain>>
  BY <1>1 DEF vars, callVars, listVars, heapVars
<1>3. TypeInv /\ HeapInv /\ visited = <<>> /\ TypeInv'
  BY <1>1, ParserFrame DEF ClientInv, InStep, Walking
<1>4. ClientTypeOK'
  <2>1. {walker, tmp}' \subseteq Blocks \cup {NULL}
    BY <1>1, <1>3 DEF TypeInv, TypeOK
  <2> QED
    BY <1>1, <2>1 DEF ClientInv, ClientTypeOK
<1>5. Honest'
  BY <1>1, <1>2 DEF ClientInv, Honest, Unreported
<1>6. /\ FirstNode' = 1 /\ FirstHeader' = 1 /\ Len(chain) \in Nat
      /\ visited' = <<>> /\ Len(visited') = 0 /\ chain' = chain
  BY <1>1, <1>2, <1>3 DEF FirstNode, FirstHeader, TypeInv, TypeOK
<1>7. WalkPlace'
  <2>1. out = IF Len(chain) >= 1 THEN chain[1] ELSE NULL
    BY <1>1, <1>3, <1>6 DEF HeapInv, ListShape, TypeInv, TypeOK
  <2> QED
    BY <1>1, <1>6, <2>1 DEF WalkPlace, NodeAt
<1>8. WalkRest'
  <2>1. \A i \in 1 .. Len(chain) :
          node[chain[i]].next = (IF i + 1 <= Len(chain) THEN chain[i + 1] ELSE NULL)
            /\ node[chain[i]].hdr \in Blocks
    BY <1>3, <1>6 DEF HeapInv, ListShape, Linking
  <2>2. \A i \in 1 .. Len(chain) :
          HeaderAt(i).fields = "loaded" /\ HeaderAt(i).valid = "set"
    BY <1>1, <1>3 DEF HeapInv, Complete, Done, Loading
  <2> QED
    BY <1>2, <1>6, <2>1, <2>2 DEF WalkRest, NodeAt, HeaderAt
<1>9. (WalkUnshared /\ WalkOwns)'
  <2>1. /\ NodesFrom(1)' = ChainNodes /\ HeadersFrom(1)' = ChainHeaders
        /\ NodesFrom(FirstNode)' = NodesFrom(1)'
        /\ HeadersFrom(FirstNode)' = HeadersFrom(1)'
        /\ HeadersFrom(FirstHeader)' = HeadersFrom(1)'
    BY <1>2, <1>6 DEF NodesFrom, HeadersFrom, ChainNodes, ChainHeaders
  <2>2. InFlight = {}
    BY <1>1 DEF InFlight
  <2> QED
    BY <1>2, <1>3, <1>6, <2>1, <2>2
    DEF WalkUnshared, WalkOwns, HeapInv, Ownership, Unshared
<1>10. InStep'
  BY <1>1, <1>2, <1>7, <1>8, <1>9 DEF InStep, Walking, Walk
<1> QED
  BY <1>3, <1>4, <1>5, <1>10 DEF ClientInv

-----------------------------------------------------------------------------
(* The steps of process_packet                                             *)

\* Where the walk is on the list.
LEMMA WalkTypes ==
  ASSUME ClientInv, Walking
  PROVE  /\ Walk /\ TypeInv
         /\ Len(chain) \in Nat /\ Len(visited) \in Nat
         /\ \A i \in 1 .. Len(chain) : chain[i] \in Blocks /\ chain[i] # NULL
         /\ FirstNode \in Nat \ {0} /\ FirstHeader \in FirstNode .. FirstNode + 1
<1>1. Walk /\ TypeInv /\ ClientTypeOK
  BY DEF ClientInv, InStep
<1>2. /\ chain \in Seq(Blocks) /\ visited \in Seq(Blocks)
      /\ Len(chain) \in Nat /\ Len(visited) \in Nat
  BY <1>1 DEF TypeInv, TypeOK, ClientTypeOK
<1>3. \A i \in 1 .. Len(chain) : chain[i] \in Blocks /\ chain[i] # NULL
  BY <1>2, HeapAssumption
<1>4. FirstNode \in Nat \ {0} /\ FirstHeader \in FirstNode .. FirstNode + 1
  BY <1>1, <1>2 DEF Walk, WalkPlace, FirstNode, FirstHeader, Walking
<1> QED
  BY <1>1, <1>2, <1>3, <1>4

\* Printing a header and moving on free nothing.
LEMMA PrintHeaderStep ==
  ASSUME ClientInv, PrintHeader
  PROVE  ClientInv'
<1> DEFINE n == Len(chain)
           k == Len(visited)
<1>1. /\ main = "print" /\ main' = "next" /\ walker # NULL
      /\ visited' = Append(visited, walker)
      /\ UNCHANGED <<left, status, walker, tmp, trouble>>
      /\ UNCHANGED vars
  BY DEF PrintHeader
<1>2. UNCHANGED <<pc, ret, live, node, header, chain>>
  BY <1>1 DEF vars, callVars, heapVars
<1>3. /\ Walk /\ TypeInv /\ TypeInv'
      /\ n \in Nat /\ k \in Nat
      /\ \A i \in 1 .. n : chain[i] \in Blocks /\ chain[i] # NULL
  BY <1>1, ParserFrame, WalkTypes DEF Walking
<1>4. k < n /\ walker = chain[k + 1] /\ tmp = chain[k + 1] /\ walker \in Blocks
  BY <1>1, <1>3 DEF Walk, WalkPlace, NodeAt, FirstNode
<1>5. ClientTypeOK'
  BY <1>1, <1>4 DEF ClientInv, ClientTypeOK
<1>6. /\ Len(visited') = k + 1 /\ visited'[k + 1] = walker
      /\ \A i \in 1 .. k : visited'[i] = visited[i]
      /\ FirstNode = k + 1 /\ FirstNode' = k + 1
      /\ FirstHeader = k + 1 /\ FirstHeader' = k + 1
  BY <1>1, <1>3, <1>4 DEF ClientInv, ClientTypeOK, FirstNode, FirstHeader
<1>7. WalkPlace'
  BY <1>1, <1>2, <1>3, <1>4, <1>6 DEF Walk, WalkPlace, NodeAt
<1>8. WalkRest'
  BY <1>2, <1>3, <1>6 DEF Walk, WalkRest, NodeAt, HeaderAt
<1>9. (WalkUnshared /\ WalkOwns)'
  <2>1. /\ NodesFrom(FirstNode)' = NodesFrom(FirstNode)
        /\ HeadersFrom(FirstNode)' = HeadersFrom(FirstNode)
        /\ HeadersFrom(FirstHeader)' = HeadersFrom(FirstHeader)
    BY <1>2, <1>6 DEF NodesFrom, HeadersFrom
  <2> QED
    BY <1>2, <1>3, <1>6, <2>1 DEF Walk, WalkUnshared, WalkOwns
<1>10. InStep'
  BY <1>1, <1>2, <1>3, <1>7, <1>8, <1>9 DEF InStep, Walking, Walk
<1>11. Honest'
  BY <1>1 DEF ClientInv, Honest, Unreported
<1> QED
  BY <1>3, <1>5, <1>10, <1>11 DEF ClientInv

LEMMA NextNodeStep ==
  ASSUME ClientInv, NextNode
  PROVE  ClientInv'
<1> DEFINE n == Len(chain)
           k == Len(visited)
<1>1. /\ main = "next" /\ main' = "freeHeader"
      /\ walker' = node[walker].next
      /\ UNCHANGED <<left, status, tmp, visited, trouble>>
      /\ UNCHANGED vars
  BY DEF NextNode
<1>2. UNCHANGED <<pc, ret, live, node, header, chain>>
  BY <1>1 DEF vars, callVars, heapVars
<1>3. /\ Walk /\ TypeInv /\ TypeInv'
      /\ n \in Nat /\ k \in Nat
      /\ \A i \in 1 .. n : chain[i] \in Blocks /\ chain[i] # NULL
  BY <1>1, ParserFrame, WalkTypes DEF Walking
<1>4. /\ FirstNode = k /\ FirstNode' = k /\ FirstHeader = k /\ FirstHeader' = k
  BY <1>1 DEF FirstNode, FirstHeader
<1>5. 0 < k /\ k <= n /\ walker = chain[k] /\ tmp = chain[k]
  BY <1>1, <1>3, <1>4 DEF Walk, WalkPlace, NodeAt
<1>6. walker' = NodeAt(k + 1)
  BY <1>1, <1>3, <1>4, <1>5 DEF Walk, WalkRest
<1>7. ClientTypeOK'
  <2>1. walker' \in Blocks \cup {NULL}
    BY <1>3, <1>6 DEF NodeAt
  <2> QED
    BY <1>1, <2>1 DEF ClientInv, ClientTypeOK
<1>8. WalkPlace'
  BY <1>1, <1>2, <1>3, <1>4, <1>5, <1>6 DEF Walk, WalkPlace, NodeAt
<1>9. WalkRest'
  BY <1>2, <1>3, <1>4 DEF Walk, WalkRest, NodeAt, HeaderAt
<1>10. (WalkUnshared /\ WalkOwns)'
  <2>1. /\ NodesFrom(FirstNode)' = NodesFrom(FirstNode)
        /\ HeadersFrom(FirstNode)' = HeadersFrom(FirstNode)
        /\ HeadersFrom(FirstHeader)' = HeadersFrom(FirstHeader)
    BY <1>2, <1>4 DEF NodesFrom, HeadersFrom
  <2> QED
    BY <1>2, <1>3, <1>4, <2>1 DEF Walk, WalkUnshared, WalkOwns
<1>11. InStep'
  BY <1>1, <1>2, <1>3, <1>8, <1>9, <1>10 DEF InStep, Walking, Walk
<1>12. Honest'
  BY <1>1 DEF ClientInv, Honest, Unreported
<1> QED
  BY <1>3, <1>7, <1>11, <1>12 DEF ClientInv

\* free() keeps every variable in its type and leaves other blocks alone.
LEMMA FreeFrame ==
  ASSUME TypeInv, pc = "returned", NEW b \in Blocks, Free(b)
  PROVE  /\ TypeInv' /\ live' = live \ {b}
         /\ UNCHANGED <<pc, ret, chain>>
         /\ \A c \in Blocks \ {b} : node'[c] = node[c] /\ header'[c] = header[c]
<1>1. /\ live' = live \ {b}
      /\ node' = [node EXCEPT ![b] = FreeNode]
      /\ header' = [header EXCEPT ![b] = FreeHeader]
      /\ UNCHANGED <<pc, state, pos, offset, errorCode, ret, length, scope,
                     assigned, out, last_hdr, hdr, headers, chain>>
  BY DEF Free, callVars, listVars
<1>2. TypeOK'
  BY <1>1 DEF TypeInv, TypeOK, FreeNode, FreeHeader
<1>3. (Control /\ Placed)'
  BY <1>1 DEF Control, Placed, InExtract
<1>4. \A c \in Blocks \ {b} : node'[c] = node[c] /\ header'[c] = header[c]
  BY <1>1 DEF TypeInv, TypeOK
<1> QED
  BY <1>1, <1>2, <1>3, <1>4 DEF TypeInv

\* The header that is freed is that of the node just left, and no other
\* node's, nor is it a node.
LEMMA ReleaseHeaderStep ==
  ASSUME ClientInv, ReleaseHeader
  PROVE  ClientInv'
<1> DEFINE n == Len(chain)
           k == Len(visited)
           b == node[tmp].hdr
<1>1. /\ main = "freeHeader" /\ main' = "freeNode" /\ Free(b)
      /\ UNCHANGED <<left, status, walker, tmp, visited, trouble>>
  BY DEF ReleaseHeader, walkVars
<1>2. /\ Walk /\ TypeInv /\ pc = "returned"
      /\ n \in Nat /\ k \in Nat
      /\ \A i \in 1 .. n : chain[i] \in Blocks /\ chain[i] # NULL
  BY <1>1, WalkTypes DEF Walking, Walk
<1>3. /\ FirstNode = k /\ FirstNode' = k
      /\ FirstHeader = k /\ FirstHeader' = k + 1
  BY <1>1 DEF FirstNode, FirstHeader
<1>4. 0 < k /\ k <= n /\ tmp = chain[k] /\ b = node[chain[k]].hdr /\ b \in Blocks
  BY <1>1, <1>2, <1>3 DEF Walk, WalkPlace, WalkRest, NodeAt
<1>5. /\ TypeInv' /\ live' = live \ {b}
      /\ pc' = pc /\ ret' = ret /\ chain' = chain
      /\ \A c \in Blocks \ {b} : node'[c] = node[c] /\ header'[c] = header[c]
  BY <1>1, <1>2, <1>4, FreeFrame
<1>6. /\ \A i \in k .. n : chain[i] # b
      /\ \A i \in k + 1 .. n : node[chain[i]].hdr # b
  <2>1. k \in k .. n /\ b \in HeadersFrom(k) /\ FirstNode .. n = k .. n
    BY <1>2, <1>3, <1>4 DEF HeadersFrom
  <2>2. NodesFrom(k) \cap HeadersFrom(k) = {}
    BY <1>2, <1>3 DEF Walk, WalkUnshared
  <2>3. \A i \in k .. n : chain[i] \in NodesFrom(k)
    BY DEF NodesFrom
  <2>4. \A i \in k .. n : i # k => node[chain[i]].hdr # node[chain[k]].hdr
    BY <1>2, <2>1 DEF Walk, WalkUnshared
  <2> QED
    BY <1>2, <1>4, <2>1, <2>2, <2>3, <2>4
<1>7. \A i \in k .. n : node'[chain[i]] = node[chain[i]]
  BY <1>2, <1>4, <1>5, <1>6
<1>8. \A i \in k + 1 .. n :
        header'[node'[chain[i]].hdr] = header[node[chain[i]].hdr]
  BY <1>2, <1>3, <1>4, <1>5, <1>6, <1>7 DEF Walk, WalkRest
<1>9. WalkPlace'
  BY <1>1, <1>2, <1>3, <1>5 DEF Walk, WalkPlace, NodeAt
<1>10. WalkRest'
  <2>1. \A i \in k .. n : /\ node'[chain[i]].next = NodeAt(i + 1)
                          /\ node'[chain[i]].hdr \in Blocks
    BY <1>2, <1>3, <1>7 DEF Walk, WalkRest
  <2>2. \A i \in k + 1 .. n : header'[node'[chain[i]].hdr].fields = "loaded"
                            /\ header'[node'[chain[i]].hdr].valid = "set"
    BY <1>2, <1>3, <1>8 DEF Walk, WalkRest, HeaderAt
  <2> QED
    BY <1>3, <1>5, <2>1, <2>2 DEF WalkRest, NodeAt, HeaderAt
<1>11. /\ NodesFrom(k)' = NodesFrom(k) /\ HeadersFrom(k)' = HeadersFrom(k)
       /\ HeadersFrom(k + 1)' = HeadersFrom(k + 1)
       /\ HeadersFrom(k) = HeadersFrom(k + 1) \cup {b}
       /\ b \notin NodesFrom(k) \cup HeadersFrom(k + 1)
  <2>1. NodesFrom(k)' = NodesFrom(k) /\ HeadersFrom(k)' = HeadersFrom(k)
    BY <1>1, <1>5, <1>7 DEF NodesFrom, HeadersFrom
  <2>2. HeadersFrom(k + 1)' = HeadersFrom(k + 1)
    BY <1>1, <1>2, <1>5, <1>7 DEF HeadersFrom
  <2>3. HeadersFrom(k) = HeadersFrom(k + 1) \cup {b}
    BY <1>2, <1>4 DEF HeadersFrom
  <2>4. b \notin NodesFrom(k) \cup HeadersFrom(k + 1)
    BY <1>6 DEF NodesFrom, HeadersFrom
  <2> QED
    BY <2>1, <2>2, <2>3, <2>4
<1>12. WalkUnshared'
  <2>1. NodesFrom(FirstNode)' = NodesFrom(k) /\ HeadersFrom(FirstNode)' = HeadersFrom(k)
    BY <1>1, <1>3, <1>5, <1>11 DEF NodesFrom, HeadersFrom
  <2>2. NodesFrom(k) \cap HeadersFrom(k) = {}
    BY <1>2, <1>3 DEF Walk, WalkUnshared
  <2>3. \A i, j \in k .. n : i # j => node'[chain[i]].hdr # node'[chain[j]].hdr
    BY <1>2, <1>3, <1>7 DEF Walk, WalkUnshared
  <2>4. \A i, j \in 1 .. n : i # j => chain[i] # chain[j]
    BY <1>2 DEF Walk, WalkUnshared
  <2> QED
    BY <1>3, <1>5, <2>1, <2>2, <2>3, <2>4 DEF WalkUnshared
<1>13. WalkOwns'
  <2>1. live = NodesFrom(k) \cup HeadersFrom(k)
    BY <1>2, <1>3 DEF Walk, WalkOwns
  <2>2. live' = NodesFrom(k) \cup HeadersFrom(k + 1)
    BY <1>5, <1>11, <2>1
  <2>3. /\ NodesFrom(FirstNode)' = NodesFrom(k)
        /\ HeadersFrom(FirstHeader)' = HeadersFrom(k + 1)
    BY <1>1, <1>3, <1>5, <1>11 DEF NodesFrom, HeadersFrom
  <2> QED
    BY <2>2, <2>3 DEF WalkOwns
<1>14. InStep'
  BY <1>1, <1>2, <1>5, <1>9, <1>10, <1>12, <1>13 DEF InStep, Walking, Walk
<1>15. ClientTypeOK' /\ Honest'
  BY <1>1, <1>5 DEF ClientInv, ClientTypeOK, Honest, Unreported
<1> QED
  BY <1>5, <1>14, <1>15 DEF ClientInv

\* The node that is freed is the one the walk has left.
LEMMA ReleaseNodeStep ==
  ASSUME ClientInv, ReleaseNode
  PROVE  ClientInv'
<1> DEFINE n == Len(chain)
           k == Len(visited)
<1>1. /\ main = "freeNode" /\ main' = "print" /\ Free(tmp) /\ tmp' = walker
      /\ UNCHANGED <<left, status, walker, visited, trouble>>
  BY DEF ReleaseNode
<1>2. /\ Walk /\ TypeInv /\ pc = "returned"
      /\ n \in Nat /\ k \in Nat
      /\ \A i \in 1 .. n : chain[i] \in Blocks /\ chain[i] # NULL
  BY <1>1, WalkTypes DEF Walking, Walk
<1>3. /\ FirstNode = k /\ FirstNode' = k + 1
      /\ FirstHeader = k + 1 /\ FirstHeader' = k + 1
  BY <1>1 DEF FirstNode, FirstHeader
<1>4. 0 < k /\ k <= n /\ tmp = chain[k] /\ tmp \in Blocks
  BY <1>1, <1>2, <1>3 DEF Walk, WalkPlace, NodeAt
<1>5. /\ TypeInv' /\ live' = live \ {tmp}
      /\ pc' = pc /\ ret' = ret /\ chain' = chain
      /\ \A c \in Blocks \ {tmp} : node'[c] = node[c] /\ header'[c] = header[c]
  BY <1>1, <1>2, <1>4, FreeFrame
<1>6. /\ \A i, j \in 1 .. n : i # j => chain[i] # chain[j]
      /\ \A i, j \in k .. n : i # j => node[chain[i]].hdr # node[chain[j]].hdr
      /\ NodesFrom(k) \cap HeadersFrom(k) = {}
      /\ live = NodesFrom(k) \cup HeadersFrom(k + 1)
  BY <1>2, <1>3 DEF Walk, WalkUnshared, WalkOwns
<1>7. /\ \A i \in k + 1 .. n : chain[i] # tmp
      /\ \A i \in k .. n : node[chain[i]].hdr # tmp
  <2>1. tmp \in NodesFrom(k)
    BY <1>2, <1>4 DEF NodesFrom
  <2>2. \A i \in k .. n : node[chain[i]].hdr \in HeadersFrom(k)
    BY DEF HeadersFrom
  <2> QED
    BY <1>2, <1>4, <1>6, <2>1, <2>2
<1>8. \A i \in k + 1 .. n : node'[chain[i]] = node[chain[i]]
  BY <1>2, <1>4, <1>5, <1>7
<1>9. \A i \in k + 1 .. n : /\ node'[chain[i]].next = NodeAt(i + 1)
                          /\ node'[chain[i]].hdr \in Blocks
                          /\ header'[node'[chain[i]].hdr].fields = "loaded"
                          /\ header'[node'[chain[i]].hdr].valid = "set"
  <2> SUFFICES ASSUME NEW i \in k + 1 .. n
               PROVE  /\ node'[chain[i]].next = NodeAt(i + 1)
                      /\ node'[chain[i]].hdr \in Blocks
                      /\ header'[node'[chain[i]].hdr].fields = "loaded"
                      /\ header'[node'[chain[i]].hdr].valid = "set"
    OBVIOUS
  <2>1. i \in FirstNode .. n /\ i \in FirstHeader .. n /\ i \in k .. n
    BY <1>2, <1>3, <1>4
  <2>2. /\ node[chain[i]].next = NodeAt(i + 1) /\ node[chain[i]].hdr \in Blocks
        /\ header[node[chain[i]].hdr].fields = "loaded"
        /\ header[node[chain[i]].hdr].valid = "set"
    BY <1>2, <2>1 DEF Walk, WalkRest, HeaderAt
  <2> QED
    BY <1>5, <1>7, <1>8, <2>1, <2>2
<1>10. WalkPlace'
  BY <1>1, <1>2, <1>3, <1>5 DEF Walk, WalkPlace, NodeAt
<1>11. WalkRest'
  BY <1>3, <1>5, <1>9 DEF WalkRest, NodeAt, HeaderAt
<1>12. /\ NodesFrom(FirstNode)' = NodesFrom(k + 1)
       /\ HeadersFrom(FirstNode)' = HeadersFrom(k + 1)
       /\ HeadersFrom(FirstHeader)' = HeadersFrom(k + 1)
  BY <1>3, <1>5, <1>8 DEF NodesFrom, HeadersFrom
<1>13. /\ NodesFrom(k) = NodesFrom(k + 1) \cup {tmp}
       /\ HeadersFrom(k + 1) \subseteq HeadersFrom(k)
       /\ tmp \notin NodesFrom(k + 1) \cup HeadersFrom(k + 1)
  <2>1. NodesFrom(k) = NodesFrom(k + 1) \cup {tmp}
    BY <1>2, <1>4 DEF NodesFrom
  <2>2. HeadersFrom(k + 1) \subseteq HeadersFrom(k)
    BY <1>2, <1>4 DEF HeadersFrom
  <2>3. tmp \notin NodesFrom(k + 1) \cup HeadersFrom(k + 1)
    BY <1>2, <1>4, <1>7 DEF NodesFrom, HeadersFrom
  <2> QED
    BY <2>1, <2>2, <2>3
<1>14. WalkUnshared'
  <2>1. \A i, j \in k + 1 .. n : i # j => node'[chain[i]].hdr # node'[chain[j]].hdr
    BY <1>2, <1>4, <1>6, <1>8
  <2>2. NodesFrom(k + 1) \cap HeadersFrom(k + 1) = {}
    BY <1>6, <1>13
  <2> QED
    BY <1>3, <1>5, <1>6, <1>12, <2>1, <2>2 DEF WalkUnshared
<1>15. WalkOwns'
  BY <1>5, <1>6, <1>12, <1>13 DEF WalkOwns
<1>16. InStep'
  BY <1>1, <1>2, <1>5, <1>10, <1>11, <1>14, <1>15 DEF InStep, Walking, Walk
<1>17. ClientTypeOK' /\ Honest'
  BY <1>1, <1>5 DEF ClientInv, ClientTypeOK, Honest, Unreported
<1> QED
  BY <1>5, <1>16, <1>17 DEF ClientInv

\* At the end of the list nothing is left of it, and the next call starts
\* from nothing.
LEMMA EndOfListStep ==
  ASSUME ClientInv, EndOfList
  PROVE  ClientInv'
<1>1. /\ main = "print" /\ main' = "read" /\ walker = NULL /\ visited' = <<>>
      /\ UNCHANGED <<left, status, walker, tmp, trouble>>
      /\ UNCHANGED <<live, node, header, out>>
      /\ pc' = "idle" /\ state' = Start /\ pos' = 1 /\ offset' = 0
      /\ length' = 0 /\ errorCode' = "ParserDefaultReject" /\ ret' = "none"
      /\ last_hdr' = NULL /\ hdr' = NULL /\ headers' = NULL
      /\ scope' = NULL /\ assigned' = {} /\ chain' = <<>>
  BY DEF EndOfList, Forget, heapVars
<1>2. /\ Walk /\ TypeInv
      /\ Len(chain) \in Nat /\ Len(visited) \in Nat
      /\ \A i \in 1 .. Len(chain) : chain[i] # NULL
  BY <1>1, WalkTypes DEF Walking
<1>3. FirstNode = Len(chain) + 1 /\ FirstHeader = Len(chain) + 1
  BY <1>1, <1>2 DEF Walk, WalkPlace, NodeAt, FirstNode, FirstHeader
<1>4. live = {}
  BY <1>2, <1>3 DEF Walk, WalkOwns, NodesFrom, HeadersFrom
<1>5. TypeInv'
  <2>1. TypeOK'
    BY <1>1, <1>2, ProgramAssumption DEF TypeInv, TypeOK, ErrorCodes
  <2>2. (Control /\ Placed)'
    BY <1>1 DEF Control, Placed, InExtract
  <2> QED
    BY <2>1, <2>2 DEF TypeInv
<1>6. HeapInv'
  BY <1>1, <1>4 DEF HeapInv, Linking, ListShape, Ownership, Unshared, Complete,
     ChainNodes, ChainHeaders, InFlight, Loading, Done
<1>7. ClientTypeOK' /\ Honest'
  BY <1>1 DEF ClientInv, ClientTypeOK, Honest, Unreported
<1>8. InStep'
  BY <1>1, <1>6 DEF InStep, Walking
<1> QED
  BY <1>5, <1>7, <1>8 DEF ClientInv

\* Nothing else happens.
LEMMA ClientFrame ==
  ASSUME ClientInv, UNCHANGED allVars
  PROVE  ClientInv'
<1>1. /\ UNCHANGED vars
      /\ UNCHANGED <<main, left, status, walker, tmp, visited, trouble>>
  BY DEF allVars, clientVars, walkVars
<1>2. UNCHANGED <<pc, ret, live, node, header, chain>>
  BY <1>1 DEF vars, callVars, heapVars
<1>3. /\ Walking' = Walking
      /\ FirstNode' = FirstNode /\ FirstHeader' = FirstHeader
  BY <1>1 DEF Walking, FirstNode, FirstHeader
<1>4. TypeInv' /\ (HeapInv => HeapInv')
  BY <1>1, ParserFrame DEF ClientInv
<1>5. WalkPlace => WalkPlace'
  BY <1>1, <1>2, <1>3 DEF WalkPlace, NodeAt
<1>6. WalkRest => WalkRest'
  BY <1>2, <1>3 DEF WalkRest, NodeAt, HeaderAt
<1>7. /\ NodesFrom(FirstNode)' = NodesFrom(FirstNode)
      /\ HeadersFrom(FirstNode)' = HeadersFrom(FirstNode)
      /\ HeadersFrom(FirstHeader)' = HeadersFrom(FirstHeader)
  BY <1>2, <1>3 DEF NodesFrom, HeadersFrom
<1>8. (WalkUnshared => WalkUnshared') /\ (WalkOwns => WalkOwns')
  BY <1>2, <1>3, <1>7 DEF WalkUnshared, WalkOwns
<1>9. InStep'
  BY <1>1, <1>2, <1>3, <1>4, <1>5, <1>6, <1>8 DEF ClientInv, InStep, Walk
<1>10. ClientTypeOK' /\ Honest'
  BY <1>1, <1>2 DEF ClientInv, ClientTypeOK, Honest, Unreported
<1> QED
  BY <1>4, <1>9, <1>10 DEF ClientInv

\* Every step of the program keeps the invariant.
LEMMA ClientStep == ClientInv /\ [ClientNext]_allVars => ClientInv'
<1> SUFFICES ASSUME ClientInv, [ClientNext]_allVars PROVE ClientInv'
  OBVIOUS
<1>1. CASE Open \/ ReadError \/ ReadEnd
  BY <1>1, MainStep
<1>2. CASE \E n \in Lens : ReadPacket(n)
  BY <1>2, ReadPacketStep
<1>3. CASE Parse
  BY <1>3, ParseStep
<1>4. CASE HandleResult
  BY <1>4, HandleResultStep
<1>5. CASE PrintHeader
  BY <1>5, PrintHeaderStep
<1>6. CASE NextNode
  BY <1>6, NextNodeStep
<1>7. CASE ReleaseHeader
  BY <1>7, ReleaseHeaderStep
<1>8. CASE ReleaseNode
  BY <1>8, ReleaseNodeStep
<1>9. CASE EndOfList
  BY <1>9, EndOfListStep
<1>10. CASE Exited \/ UNCHANGED allVars
  BY <1>10, ClientFrame DEF Exited
<1> QED
  BY <1>1, <1>2, <1>3, <1>4, <1>5, <1>6, <1>7, <1>8, <1>9, <1>10 DEF ClientNext

LEMMA ClientInvariant == ClientSpec => []ClientInv
  BY ClientStart, ClientStep, PTL DEF ClientSpec

-----------------------------------------------------------------------------
(* Theorems                                                                *)

\* The client's variables keep their types.
THEOREM ClientTypeCorrect == ClientSpec => []ClientTypeOK
<1>1. ClientInv => ClientTypeOK
  BY DEF ClientInv
<1> QED
  BY ClientInvariant, <1>1, PTL

\* Neither process_packet nor the parser dereferences or frees a block that
\* is not allocated, whichever of the allocations fail.
THEOREM SafeFrees == ClientSpec => []NoUseAfterFree
<1>1. ClientInv => NoUseAfterFree
  <2> SUFFICES ASSUME ClientInv PROVE NoUseAfterFree
    OBVIOUS
  <2> DEFINE n == Len(chain)
             k == Len(visited)
  <2>1. CASE Walking
    <3>1. /\ Walk /\ n \in Nat /\ k \in Nat /\ pc = "returned" /\ ~Loading
          /\ \A i \in 1 .. n : chain[i] # NULL
      BY <2>1, WalkTypes DEF Walk, Loading
    <3>2. ASSUME NEW i \in FirstNode .. n PROVE chain[i] \in live
      BY <3>1, <3>2 DEF Walk, WalkOwns, NodesFrom
    <3>3. ASSUME NEW i \in FirstHeader .. n PROVE node[chain[i]].hdr \in live
      BY <3>1, <3>3 DEF Walk, WalkOwns, HeadersFrom
    <3>4. CASE main = "print"
      <4>1. walker # NULL => walker = chain[k + 1] /\ k + 1 \in FirstNode .. n
        BY <3>1, <3>4 DEF Walk, WalkPlace, NodeAt, FirstNode
      <4>2. FirstHeader = FirstNode
        BY <3>4 DEF FirstHeader, FirstNode
      <4> QED
        BY <3>1, <3>2, <3>3, <3>4, <4>1, <4>2 DEF NoUseAfterFree
    <3>5. CASE main = "next"
      <4>1. walker = chain[k] /\ k \in FirstNode .. n
        BY <3>1, <3>5 DEF Walk, WalkPlace, NodeAt, FirstNode
      <4> QED
        BY <3>1, <3>2, <3>5, <4>1 DEF NoUseAfterFree
    <3>6. CASE main = "freeHeader"
      <4>1. /\ tmp = chain[k] /\ k \in FirstNode .. n /\ k \in FirstHeader .. n
        BY <3>1, <3>6 DEF Walk, WalkPlace, NodeAt, FirstNode, FirstHeader
      <4> QED
        BY <3>1, <3>2, <3>3, <3>6, <4>1 DEF NoUseAfterFree
    <3>7. CASE main = "freeNode"
      <4>1. tmp = chain[k] /\ k \in FirstNode .. n
        BY <3>1, <3>7 DEF Walk, WalkPlace, NodeAt, FirstNode
      <4> QED
        BY <3>1, <3>2, <3>7, <4>1 DEF NoUseAfterFree
    <3> QED
      BY <2>1, <3>4, <3>5, <3>6, <3>7 DEF Walking
  <2>2. CASE ~Walking
    <3>1. HeapInv /\ TypeInv /\ chain \in Seq(Blocks)
      BY <2>2 DEF ClientInv, InStep, TypeInv, TypeOK
    <3>2. chain # <<>> =>
            /\ Len(chain) \in 1 .. Len(chain)
            /\ chain[Len(chain)] \in live /\ node[chain[Len(chain)]].hdr \in live
      BY <3>1, ListAllocated
    <3>3. pc = "link" /\ out # NULL => last_hdr \in live
      BY <3>1, <3>2 DEF HeapInv, ListShape
    <3>4. Loading => headers \in live
      BY <3>1, <3>2 DEF HeapInv, Linking
    <3> QED
      BY <2>2, <3>3, <3>4 DEF NoUseAfterFree, Walking
  <2> QED
    BY <2>1, <2>2
<1> QED
  BY ClientInvariant, <1>1, PTL

\* Between two packets, and when the program exits, everything is freed.
THEOREM ClientFreesAll == ClientSpec => []NoLeak
<1>1. ClientInv => NoLeak
  <2> SUFFICES ASSUME ClientInv, main \in {"open", "read", "exit"}
               PROVE  live = {}
    BY DEF NoLeak
  <2>1. HeapInv /\ pc = "idle"
    BY DEF ClientInv, InStep, Walking
  <2>2. chain = <<>> /\ InFlight = {}
    BY <2>1 DEF HeapInv, Linking, InFlight
  <2> QED
    BY <2>1, <2>2 DEF HeapInv, Ownership, ChainNodes, ChainHeaders
<1> QED
  BY ClientInvariant, <1>1, PTL

\* process_packet prints all headers of the list, in their order, and none
\* that has not been loaded.
THEOREM ClientPrintsAll == ClientSpec => []PrintsTheChain
<1>1. ClientInv => PrintsTheChain
  <2> SUFFICES ASSUME ClientInv PROVE PrintsTheChain
    OBVIOUS
  <2>1. chain \in Seq(Blocks) /\ visited \in Seq(Blocks)
    BY DEF ClientInv, TypeInv, TypeOK, ClientTypeOK
  <2>2. CASE Walking
    <3>1. /\ Walk /\ Len(chain) \in Nat /\ Len(visited) \in Nat
          /\ \A i \in 1 .. Len(chain) : chain[i] # NULL
      BY <2>2, WalkTypes
    <3>2. visited = SubSeq(chain, 1, Len(visited))
      BY <2>1, <3>1 DEF Walk, WalkPlace
    <3>3. ASSUME main = "print", walker = NULL PROVE visited = chain
      <4>1. Len(visited) = Len(chain)
        BY <3>1, <3>3 DEF Walk, WalkPlace, NodeAt
      <4> QED
        BY <2>1, <3>1, <4>1 DEF Walk, WalkPlace
    <3>4. ASSUME main = "print", walker # NULL
          PROVE  /\ header[node[walker].hdr].fields = "loaded"
                 /\ header[node[walker].hdr].valid = "set"
      <4>1. walker = chain[Len(visited) + 1]
            /\ Len(visited) + 1 \in FirstHeader .. Len(chain)
        BY <3>1, <3>4 DEF Walk, WalkPlace, NodeAt, FirstHeader
      <4> QED
        BY <3>1, <4>1 DEF Walk, WalkRest, HeaderAt
    <3> QED
      BY <3>2, <3>3, <3>4 DEF PrintsTheChain
  <2>3. CASE ~Walking
    <3>1. visited = <<>> /\ main # "print"
      BY <2>3 DEF ClientInv, InStep, Walking
    <3>2. visited = SubSeq(chain, 1, Len(visited))
      BY <2>1, <3>1
    <3> QED
      BY <3>1, <3>2 DEF PrintsTheChain
  <2> QED
    BY <2>2, <2>3
<1> QED
  BY ClientInvariant, <1>1, PTL

\* The exit status is that of the whole run: 1 if anything failed at any
\* packet, 0 if not.
THEOREM HonestExit == ClientSpec => []ExitStatus
<1>1. ClientInv => ExitStatus
  BY DEF ClientInv, Honest, Unreported, ExitStatus
<1> QED
  BY ClientInvariant, <1>1, PTL
=============================================================================
