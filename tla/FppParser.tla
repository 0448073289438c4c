------------------------------ MODULE FppParser ------------------------------
(***************************************************************************)
(* The C function fpp_parse_packet as the backend emits it, for an         *)
(* arbitrary P4 parser.  The P4 program is a constant: a graph of states,  *)
(* each with a body of statements and a set of possible successors.  What  *)
(* a packet contains is left open: a select may take any of its targets    *)
(* and an advance may add any of the amounts its argument can evaluate to. *)
(* These may be negative, for the C expression an argument becomes can be  *)
(* a negative long where its P4 value is not: += then moves the offset     *)
(* back, below zero too.  A negative offset stands for the uint64_t near   *)
(* 2^64 it wraps to, and the offset a header records for its uint32_t.     *)
(*                                                                         *)
(* The step is one group of emitted C statements between two places where  *)
(* control can leave the function.  Names follow the emitted code: out,    *)
(* last_hdr, hdr and headers are its pointers, offset its                  *)
(* fpp_packetOffsetInBits, errorCode its fpp_errorCode.                    *)
(***************************************************************************)
EXTENDS Integers, Sequences

CONSTANTS
  Headers,      \* header types of the P4 program
  Listed,       \* those extracted as a member of the parameter `headers`
  Width,        \* Width[h]: width of header type h in bits
  Vars,         \* local variables of the parser that are not headers
  States,       \* parser states other than accept and reject
  Start,        \* the P4 state start
  Body,         \* Body[s]: the statements of state s, in order
  Targets,      \* Targets[s]: where the transition of state s may go
  SelectReads,  \* SelectReads[s]: headers and variables its select reads
  Lens,         \* packet lengths in bytes the caller may pass
  Blocks,       \* addresses of the heap
  Malloc,       \* Malloc[a]: what malloc may return when a is allocated
  NULL

\* What a P4 expression of the parser can name.
Names == Headers \cup Vars

Stmt ==
       [op : {"extract"}, hdr : Headers]
  \cup [op : {"advance"}, amounts : SUBSET Int, reads : SUBSET Names]
  \cup [op : {"lookahead"}, var : Vars]
  \cup [op : {"assign"}, var : Vars, reads : SUBSET Names]

\* The P4 program is well formed and the heap has no block called NULL.
ASSUME ProgramAssumption ==
  /\ Listed \subseteq Headers
  /\ Headers \cap Vars = {}
  /\ Width \in [Headers -> Nat]
  /\ Start \in States
  /\ States \cap {"accept", "reject"} = {}
  /\ Body \in [States -> Seq(Stmt)]
  /\ Targets \in [States -> SUBSET (States \cup {"accept", "reject"})]
  /\ \A s \in States : Targets[s] # {}
  /\ SelectReads \in [States -> SUBSET Names]

ASSUME HeapAssumption ==
  /\ NULL \notin Blocks
  /\ Malloc \in [SUBSET Blocks -> SUBSET Blocks]
  /\ \A a \in SUBSET Blocks : Malloc[a] \cap a = {}

ASSUME LensAssumption == Lens \subseteq Nat

\* What P4 says of advance, whose argument is a bit<32>, and what the emitted
\* argument is for an expression of which ExpressionProofs shows that C
\* computes its P4 value: the offset only moves forward.  It is not assumed
\* of the program, only where it is named.
Forward ==
  \A s \in States : \A p \in 1 .. Len(Body[s]) :
    Body[s][p].op = "advance" => Body[s][p].amounts \subseteq Nat

VARIABLES
  pc,         \* where the function is
  state,      \* the P4 state whose block is running
  pos,        \* index in Body[state] of the next statement
  offset,     \* fpp_packetOffsetInBits, as a signed number
  errorCode,  \* fpp_errorCode
  ret,        \* the value returned, "none" while the call runs
  length,     \* packet_len
  out,        \* *out: head of the list the caller receives
  last_hdr,   \* the last node of the list
  hdr,        \* the node allocated by the current extract
  headers,    \* the header allocated by the current extract
  scope,      \* header type `headers` points to in the current block
  assigned,   \* locals assigned since the call began
  live,       \* blocks allocated and not yet freed
  node,       \* contents of each block used as a packet_hdr_t
  header,     \* contents of each block used as a header struct
  chain       \* history: the nodes linked so far, in the order of linking

heapVars == <<live, node, header>>
listVars == <<out, last_hdr, hdr, headers>>
callVars == <<state, pos, offset, errorCode, ret, length, scope, assigned>>
vars == <<pc, callVars, listVars, heapVars, chain>>

\* A block that is not allocated; its contents do not exist.
FreeNode == [type |-> NULL, hdr |-> NULL, next |-> NULL]
FreeHeader == [offset |-> 0, fields |-> "junk", valid |-> "junk"]

ErrorCodes ==
  {"NoError", "PacketTooShort", "ParserDefaultReject", "OutOfMemory"}

\* The C macro BYTES.
Bytes(bits) == bits \div 8

AtStatement == pc = "statement" /\ pos <= Len(Body[state])
AtTransition == pc = "statement" /\ pos > Len(Body[state])

\* The statement that is running and the header type it extracts.
Current == Body[state][pos]
Extracted == Current.hdr

-----------------------------------------------------------------------------
(* Entering and leaving the function                                       *)

Init ==
  /\ pc = "idle"
  /\ state = Start /\ pos = 1 /\ offset = 0 /\ length = 0
  /\ errorCode = "ParserDefaultReject" /\ ret = "none"
  /\ out = NULL /\ last_hdr = NULL /\ hdr = NULL /\ headers = NULL
  /\ scope = NULL /\ assigned = {}
  /\ live = {}
  /\ node = [b \in Blocks |-> FreeNode]
  /\ header = [b \in Blocks |-> FreeHeader]
  /\ chain = <<>>

\* Variant of Call with fpp_errorCode left uninitialised.
CallNoErrorCode(n) ==
  /\ pc = "idle"
  /\ pc' = "statement"
  /\ state' = Start /\ pos' = 1 /\ offset' = 0 /\ length' = n
  /\ errorCode' = "uninitialised" /\ ret' = "none"
  /\ out' = NULL /\ last_hdr' = NULL /\ hdr' = NULL
  /\ scope' = NULL /\ assigned' = {}
  /\ UNCHANGED <<headers, heapVars, chain>>

\* The declarations at the top of the function, *out = NULL and goto start.
Call(n) ==
  /\ pc = "idle"
  /\ pc' = "statement"
  /\ state' = Start /\ pos' = 1 /\ offset' = 0 /\ length' = n
  /\ errorCode' = "ParserDefaultReject" /\ ret' = "none"
  /\ out' = NULL /\ last_hdr' = NULL /\ hdr' = NULL
  /\ scope' = NULL /\ assigned' = {}
  /\ UNCHANGED <<headers, heapVars, chain>>

Leave(code) ==
  /\ pc' = "returned"
  /\ ret' = code
  /\ UNCHANGED <<state, pos, offset, errorCode, length, scope, assigned,
                 listVars, heapVars, chain>>

AcceptState == pc = "accept" /\ Leave("NoError")
RejectState == pc = "reject" /\ Leave(errorCode)
EndLabel == pc = "fpp_end" /\ Leave(errorCode)

-----------------------------------------------------------------------------
(* packet.extract(h)                                                       *)

Extracting == AtStatement /\ Current.op = "extract"

\* The emitted length check.  The byte the header ends in is rounded down; a
\* negative end is a very large uint64_t, which no packet reaches.
TooShort ==
  LET end == offset + Width[Extracted]
  IN  end < 0 \/ length < Bytes(end)

Fits == ~TooShort

\* Variant of ExtractTooShort that jumps to reject without an error code.
TooShortSilently ==
  /\ Extracting
  /\ TooShort
  /\ pc' = "reject"
  /\ UNCHANGED <<state, pos, offset, errorCode, ret, length, scope, assigned,
                 listVars, heapVars, chain>>

ExtractTooShort ==
  /\ Extracting
  /\ TooShort
  /\ errorCode' = "PacketTooShort"
  /\ pc' = "reject"
  /\ UNCHANGED <<state, pos, offset, ret, length, scope, assigned,
                 listVars, heapVars, chain>>

\* Variant of ExtractFits that forgets the width of the header in its check.
FitsAtStart ==
  /\ Extracting
  /\ length >= Bytes(offset)
  /\ pc' = IF Extracted \in Listed THEN "allocHeader" ELSE "load"
  /\ UNCHANGED <<callVars, listVars, heapVars, chain>>

\* Only a member of the parameter `headers` is allocated and listed; any
\* other header is a local variable that the loads overwrite.
ExtractFits ==
  /\ Extracting
  /\ Fits
  /\ pc' = IF Extracted \in Listed THEN "allocHeader" ELSE "load"
  /\ UNCHANGED <<callVars, listVars, heapVars, chain>>

OutOfMemory ==
  /\ errorCode' = "OutOfMemory"
  /\ pc' = "fpp_end"
  /\ UNCHANGED <<state, pos, offset, ret, length, scope, assigned>>

\* struct h *headers = malloc(...): what the block holds is indeterminate.
AllocHeader ==
  /\ pc = "allocHeader"
  /\ UNCHANGED <<out, last_hdr, hdr, node, chain>>
  /\ \/ OutOfMemory /\ headers' = NULL /\ UNCHANGED <<live, header>>
     \/ \E b \in Malloc[live] :
          /\ headers' = b
          /\ live' = live \cup {b}
          /\ header' = [header EXCEPT ![b].fields = "junk", ![b].valid = "junk"]
          /\ scope' = Extracted
          /\ pc' = "allocNode"
          /\ UNCHANGED <<state, pos, offset, errorCode, ret, length, assigned>>

\* Variant of AllocNode that keeps the header when it fails.
AllocNodeLeaks ==
  /\ pc = "allocNode"
  /\ UNCHANGED <<out, last_hdr, headers, header, chain>>
  /\ \/ OutOfMemory /\ hdr' = NULL /\ UNCHANGED <<live, node>>
     \/ \E b \in Malloc[live] :
          /\ hdr' = b
          /\ live' = live \cup {b}
          /\ node' = [node EXCEPT ![b] =
                       [type |-> Extracted, hdr |-> headers, next |-> NULL]]
          /\ pc' = "link"
          /\ UNCHANGED callVars

\* hdr = malloc(...); a failure here gives the header back.
AllocNode ==
  /\ pc = "allocNode"
  /\ UNCHANGED <<out, last_hdr, headers, chain>>
  /\ \/ /\ OutOfMemory
        /\ hdr' = NULL
        /\ live' = live \ {headers}
        /\ header' = [header EXCEPT ![headers] = FreeHeader]
        /\ UNCHANGED node
     \/ \E b \in Malloc[live] :
          /\ hdr' = b
          /\ live' = live \cup {b}
          /\ node' = [node EXCEPT ![b] =
                       [type |-> Extracted, hdr |-> headers, next |-> NULL]]
          /\ pc' = "link"
          /\ UNCHANGED <<callVars, header>>

\* Variants of LinkNode: last_hdr set for the first node only, and the offset
\* recorded in bits.
LinkNodeStale ==
  /\ pc = "link"
  /\ IF out = NULL
       THEN out' = hdr /\ last_hdr' = hdr /\ UNCHANGED node
       ELSE /\ node' = [node EXCEPT ![last_hdr].next = hdr]
            /\ UNCHANGED <<out, last_hdr>>
  /\ header' = [header EXCEPT ![headers].offset = Bytes(offset)]
  /\ chain' = Append(chain, hdr)
  /\ pc' = "load"
  /\ UNCHANGED <<callVars, hdr, headers, live>>

LinkNodeBits ==
  /\ pc = "link"
  /\ IF out = NULL
       THEN out' = hdr /\ UNCHANGED node
       ELSE node' = [node EXCEPT ![last_hdr].next = hdr] /\ UNCHANGED out
  /\ last_hdr' = hdr
  /\ header' = [header EXCEPT ![headers].offset = offset]
  /\ chain' = Append(chain, hdr)
  /\ pc' = "load"
  /\ UNCHANGED <<callVars, hdr, headers, live>>

\* Append the node to the list and record where the header starts.
LinkNode ==
  /\ pc = "link"
  /\ IF out = NULL
       THEN out' = hdr /\ UNCHANGED node
       ELSE node' = [node EXCEPT ![last_hdr].next = hdr] /\ UNCHANGED out
  /\ last_hdr' = hdr
  /\ header' = [header EXCEPT ![headers].offset = Bytes(offset)]
  /\ chain' = Append(chain, hdr)
  /\ pc' = "load"
  /\ UNCHANGED <<callVars, hdr, headers, live>>

\* Variants of LoadFields: header_valid not set, the offset not moved for a
\* local, and a field of eight bits passed over.
LoadFieldsNotValid ==
  /\ pc = "load"
  /\ offset' = offset + Width[Extracted]
  /\ IF Extracted \in Listed
       THEN /\ header' = [header EXCEPT ![headers].fields = "loaded"]
            /\ UNCHANGED assigned
       ELSE assigned' = assigned \cup {Extracted} /\ UNCHANGED header
  /\ pos' = pos + 1
  /\ pc' = "statement"
  /\ UNCHANGED <<state, errorCode, ret, length, scope,
                 listVars, live, node, chain>>

LoadFieldsMoving(moved) ==
  /\ pc = "load"
  /\ offset' = offset + moved
  /\ IF Extracted \in Listed
       THEN /\ header' = [header EXCEPT ![headers].fields = "loaded",
                                        ![headers].valid = "set"]
            /\ UNCHANGED assigned
       ELSE assigned' = assigned \cup {Extracted} /\ UNCHANGED header
  /\ pos' = pos + 1
  /\ pc' = "statement"
  /\ UNCHANGED <<state, errorCode, ret, length, scope,
                 listVars, live, node, chain>>

LoadFieldsStuck ==
  LoadFieldsMoving(IF Extracted \in Listed THEN Width[Extracted] ELSE 0)
LoadFieldsOneShort == LoadFieldsMoving(Width[Extracted] - 8)

\* The loads of every field, each advancing the offset by its width, and
\* header_valid = 1.
LoadFields ==
  /\ pc = "load"
  /\ offset' = offset + Width[Extracted]
  /\ IF Extracted \in Listed
       THEN /\ header' = [header EXCEPT ![headers].fields = "loaded",
                                        ![headers].valid = "set"]
            /\ UNCHANGED assigned
       ELSE /\ assigned' = assigned \cup {Extracted}
            /\ UNCHANGED header
  /\ pos' = pos + 1
  /\ pc' = "statement"
  /\ UNCHANGED <<state, errorCode, ret, length, scope,
                 listVars, live, node, chain>>

-----------------------------------------------------------------------------
(* The other statements and the transition                                 *)

\* fpp_packetOffsetInBits += e, with no check against the packet's end or
\* its start.
Advance ==
  /\ AtStatement /\ Current.op = "advance"
  /\ \E n \in Current.amounts : offset' = offset + n
  /\ pos' = pos + 1
  /\ UNCHANGED <<pc, state, errorCode, ret, length, scope, assigned,
                 listVars, heapVars, chain>>

\* An assignment to a local variable.  A lookahead is one whose right side
\* loads at the offset without a check and without moving it.
Assign ==
  /\ AtStatement /\ Current.op \in {"assign", "lookahead"}
  /\ assigned' = assigned \cup {Current.var}
  /\ pos' = pos + 1
  /\ UNCHANGED <<pc, state, offset, errorCode, ret, length, scope,
                 listVars, heapVars, chain>>

\* goto, or the goto of one case of the switch.  A block's own `headers`
\* goes out of scope.
Transition ==
  /\ AtTransition
  /\ \E t \in Targets[state] :
       IF t \in States
         THEN state' = t /\ pos' = 1 /\ scope' = NULL /\ UNCHANGED pc
         ELSE pc' = t /\ UNCHANGED <<state, pos, scope>>
  /\ UNCHANGED <<offset, errorCode, ret, length, assigned,
                 listVars, heapVars, chain>>

ParserNext ==
  \/ ExtractTooShort
  \/ ExtractFits
  \/ AllocHeader
  \/ AllocNode
  \/ LinkNode
  \/ LoadFields
  \/ Advance
  \/ Assign
  \/ Transition
  \/ AcceptState
  \/ RejectState
  \/ EndLabel

-----------------------------------------------------------------------------
(* The caller, reduced to what the interface requires of it                *)

\* The caller is done with a list.  The locals of the function are gone; the
\* pointer the caller passed is not, and dangles.
Forget ==
  /\ pc = "returned"
  /\ pc' = "idle"
  /\ state' = Start /\ pos' = 1 /\ offset' = 0 /\ length' = 0
  /\ errorCode' = "ParserDefaultReject" /\ ret' = "none"
  /\ last_hdr' = NULL /\ hdr' = NULL /\ headers' = NULL
  /\ scope' = NULL /\ assigned' = {}
  /\ chain' = <<>>
  /\ UNCHANGED out

\* The caller has freed every node of the list and its header.
Release ==
  /\ Forget
  /\ live' = {}
  /\ node' = [b \in Blocks |-> FreeNode]
  /\ header' = [b \in Blocks |-> FreeHeader]

Next ==
  \/ \E n \in Lens : Call(n)
  \/ ParserNext
  \/ Release

Spec == Init /\ [][Next]_vars

\* The function runs once it is called; nothing obliges the caller.
FairSpec == Spec /\ WF_vars(ParserNext)

-----------------------------------------------------------------------------
(* Properties                                                              *)

\* The type invariant of the emitted function's variables and of the heap.
TypeOK ==
  /\ pc \in {"idle", "statement", "allocHeader", "allocNode", "link", "load",
             "accept", "reject", "fpp_end", "returned"}
  /\ state \in States /\ pos \in Nat \ {0} /\ offset \in Int
  /\ length \in Lens \cup {0}
  /\ errorCode \in ErrorCodes /\ ret \in ErrorCodes \cup {"none"}
  /\ {out, last_hdr, hdr, headers} \subseteq Blocks \cup {NULL}
  /\ scope \in Listed \cup {NULL}
  /\ assigned \subseteq Names
  /\ live \subseteq Blocks
  /\ node \in [Blocks -> [type : Listed \cup {NULL},
                          hdr : Blocks \cup {NULL},
                          next : Blocks \cup {NULL}]]
  /\ header \in [Blocks -> [offset : Int,
                            fields : {"junk", "loaded"},
                            valid : {"junk", "set"}]]
  /\ chain \in Seq(Blocks)

\* The function is inside an extract that has passed the length check.
InExtract == pc \in {"allocHeader", "allocNode", "link", "load"}

AtExtract == pos <= Len(Body[state]) /\ Current.op = "extract"

\* What must have happened for the function to report a code.
Reason(code) ==
  \/ code = "NoError" /\ pos > Len(Body[state]) /\ "accept" \in Targets[state]
  \/ /\ code = "ParserDefaultReject"
     /\ pos > Len(Body[state]) /\ "reject" \in Targets[state]
  \/ code = "PacketTooShort" /\ AtExtract /\ ~Fits
  \/ code = "OutOfMemory" /\ AtExtract /\ Fits /\ Extracted \in Listed

\* The value fpp_parse_packet returns tells its caller what stopped it: a
\* transition to accept, one to reject, an extract past the end of the
\* packet, or a failed malloc for a header that was there.
VerdictSound == pc = "returned" => Reason(ret)

\* Where the function is determines what fpp_errorCode holds.
Control ==
  /\ InExtract => AtExtract /\ Fits
  /\ pc \in {"allocHeader", "allocNode", "link"} => Extracted \in Listed
  /\ InExtract \/ pc \in {"statement", "accept"} =>
       errorCode = "ParserDefaultReject"
  /\ pc = "accept" => Reason("NoError")
  /\ pc = "reject" => Reason(errorCode) /\ errorCode # "OutOfMemory"
  /\ pc = "fpp_end" => Reason("OutOfMemory") /\ errorCode = "OutOfMemory"

\* The pointers an extract uses are set where it uses them.
Placed ==
  /\ pc \in {"allocNode", "link"} => headers \in Blocks
  /\ pc = "link" => hdr \in Blocks

\* The pointers *out, last_hdr and every next field describe the nodes linked
\* so far, in the order of the extracts, and end in NULL.
ListShape ==
  /\ pc # "idle" => (out = NULL <=> chain = <<>>)
  /\ chain # <<>> => out = chain[1] /\ last_hdr = chain[Len(chain)]
  /\ \A i \in 1 .. Len(chain) :
       node[chain[i]].next = IF i = Len(chain) THEN NULL ELSE chain[i + 1]

ChainNodes == {chain[i] : i \in 1 .. Len(chain)}
ChainHeaders == {node[chain[i]].hdr : i \in 1 .. Len(chain)}

\* Allocated, and not on the list yet.
InFlight ==
  IF pc = "allocNode" THEN {headers}
  ELSE IF pc = "link" THEN {headers, hdr}
  ELSE {}

\* No node is on the list twice, no two nodes share a header, and no block
\* serves as both.
Unshared ==
  /\ \A i, j \in 1 .. Len(chain) :
       i # j => /\ chain[i] # chain[j]
                /\ node[chain[i]].hdr # node[chain[j]].hdr
  /\ ChainNodes \cap ChainHeaders = {}
  /\ InFlight \cap (ChainNodes \cup ChainHeaders) = {}
  /\ pc = "link" => hdr # headers

\* Every allocated block is on the list the caller will walk, or is about to
\* be: no exit of the function, in particular none of the two out-of-memory
\* ones, leaks a block or leaves a freed one on the list.
Ownership ==
  /\ live = ChainNodes \cup ChainHeaders \cup InFlight
  /\ Unshared

\* The extract that is running has linked its node but not loaded the header.
Loading == pc = "load" /\ Extracted \in Listed

Done == IF Loading THEN Len(chain) - 1 ELSE Len(chain)
HeaderAt(i) == header[node[chain[i]].hdr]

\* Whatever the code, the caller never receives a header whose fields are the
\* indeterminate bytes malloc returned: a list that ends early still holds
\* only headers that were loaded and marked valid.
Complete ==
  \A i \in 1 .. Done :
    HeaderAt(i).fields = "loaded" /\ HeaderAt(i).valid = "set"

\* The blocks an extract is working on are the ones the list ends with.
Linking ==
  /\ pc = "idle" => chain = <<>>
  /\ pc = "link" =>
       node[hdr] = [type |-> Extracted, hdr |-> headers, next |-> NULL]
  /\ Loading => chain # <<>> /\ node[chain[Len(chain)]].hdr = headers
  /\ \A i \in 1 .. Len(chain) : node[chain[i]].hdr \in Blocks

\* The inductive invariant of the heap.
HeapInv == Linking /\ ListShape /\ Ownership /\ Complete

\* Where the header ends, in bits, and the byte it has to end by: the packet's
\* end, or the start of the next header.
EndBit(i) == 8 * HeaderAt(i).offset + Width[node[chain[i]].type]
Limit(i) == IF i = Len(chain) THEN length ELSE HeaderAt(i + 1).offset

\* The header ends by the byte b.  A header of whole bytes does so exactly; of
\* any other the length check leaves out the bits behind its last whole byte,
\* and these, at most seven, may hang over b.
EndsBy(i, b) ==
  \/ EndBit(i) <= 8 * b
  \/ Width[node[chain[i]].type] % 8 # 0 /\ EndBit(i) < 8 * b + 8

\* The headers of the list follow one another in the packet, at the offset
\* each one records, but for the odd bits of a header that is not of whole
\* bytes: those may lie behind the packet's end or in the next header.
Geometry ==
  /\ \A i \in 1 .. Len(chain) : EndsBy(i, Limit(i))
  /\ pc # "idle" /\ chain # <<>> =>
       IF Loading
         THEN /\ HeaderAt(Len(chain)).offset = Bytes(offset)
              /\ node[chain[Len(chain)]].type = Extracted
         ELSE EndsBy(Len(chain), Bytes(offset))

\* Every bit of every header of the list lies in the packet and before the
\* next header.  It holds of a P4 program whose listed headers are of whole
\* bytes and which advances forward only.
Inside == \A i \in 1 .. Len(chain) : EndBit(i) <= 8 * Limit(i)

\* An expression reads only what is there: a local that this call has
\* assigned, or the header that `headers` points to in this block.
ReadsDefined ==
  /\ AtStatement /\ Current.op \in {"assign", "advance"} =>
       Current.reads \subseteq assigned \cup {scope}
  /\ AtTransition => SelectReads[state] \subseteq assigned \cup {scope}

\* A call comes back to its caller, whatever the packet holds, as long as
\* every cycle of the P4 program extracts something and no advance takes the
\* offset back.
CallReturns == (pc \notin {"idle", "returned"}) ~> (pc = "returned")

\* What the caller can rely on so far: the headers loaded, and the outcome.
Delivered ==
  [i \in 1 .. Done |-> [type |-> node[chain[i]].type,
                       offset |-> HeaderAt(i).offset]]

Verdict ==
  IF pc = "idle" THEN "idle" ELSE IF pc = "returned" THEN ret ELSE "parsing"

Abstract == INSTANCE HeaderChain WITH
  delivered <- Delivered, verdict <- Verdict

\* The emitted function keeps the promise HeaderChain makes to the caller.
ImplementsHeaderChain == Abstract!Spec
=============================================================================
