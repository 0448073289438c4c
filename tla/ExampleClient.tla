---------------------------- MODULE ExampleClient ----------------------------
(***************************************************************************)
(* example/example.c: main reads the packets of a capture file, has        *)
(* fpp_parse_packet parse each one and hands the list of headers to        *)
(* process_packet, which prints a header, moves on and only then frees     *)
(* what it left.  The parser is FppParser, run here step by step inside    *)
(* the client's call; FppParser's Release is replaced by the walk itself.  *)
(***************************************************************************)
EXTENDS FppParser

CONSTANT MaxPackets  \* bound on the packets of the capture file

ASSUME MaxPacketsAssumption == MaxPackets \in Nat

VARIABLES
  main,     \* where the program is
  left,     \* packets of the file not read yet
  status,   \* what main returns
  walker,   \* process_packet's parameter headers
  tmp,      \* process_packet's tmp: the node to free
  visited,  \* history: the nodes printed for the current packet
  trouble   \* history: a read or an allocation has failed

walkVars == <<walker, tmp, visited>>
clientVars == <<main, left, status, walkVars, trouble>>
allVars == <<vars, clientVars>>

ClientInit ==
  /\ Init
  /\ main = "open"
  /\ left \in 0 .. MaxPackets
  /\ status = 0
  /\ walker = NULL /\ tmp = NULL /\ visited = <<>>
  /\ trouble = FALSE

-----------------------------------------------------------------------------
(* main                                                                    *)

\* pcap_open_offline; without a file main returns 1 at once.
Open ==
  /\ main = "open"
  /\ \/ main' = "read" /\ UNCHANGED <<status, trouble>>
     \/ main' = "exit" /\ status' = 1 /\ trouble' = TRUE
  /\ UNCHANGED <<vars, left, walkVars>>

\* Variants of ReadPacket: reading past the end, and the same packet again.
ReadPastEnd(n) ==
  /\ main = "read"
  /\ Call(n)
  /\ main' = "parse"
  /\ left' = left - 1
  /\ UNCHANGED <<status, walkVars, trouble>>

ReadAgain(n) ==
  /\ main = "read" /\ left > 0
  /\ Call(n)
  /\ main' = "parse"
  /\ UNCHANGED <<left, status, walkVars, trouble>>

\* pcap_next_ex returns 1: parse the packet.
ReadPacket(n) ==
  /\ main = "read" /\ left > 0
  /\ Call(n)
  /\ main' = "parse"
  /\ left' = left - 1
  /\ UNCHANGED <<status, walkVars, trouble>>

\* It returns -1, which it may do at any packet.
ReadError ==
  /\ main = "read"
  /\ main' = "exit"
  /\ status' = 1
  /\ trouble' = TRUE
  /\ UNCHANGED <<vars, left, walkVars>>

\* It returns -2, or 0: the loop ends and leaves status as it is.
ReadEnd ==
  /\ main = "read" /\ left = 0
  /\ main' = "exit"
  /\ UNCHANGED <<vars, left, status, walkVars, trouble>>

Parse ==
  /\ main = "parse"
  /\ ParserNext
  /\ trouble' = (trouble \/ pc' = "fpp_end")
  /\ UNCHANGED <<main, left, status, walkVars>>

\* Variant of HandleResult that forgets an earlier failure.
HandleResultAnew ==
  /\ main = "parse" /\ pc = "returned"
  /\ status' = IF ret = "OutOfMemory" THEN 1 ELSE 0
  /\ walker' = out /\ tmp' = out
  /\ main' = "print"
  /\ UNCHANGED <<vars, left, visited, trouble>>

\* The switch on the return value, whose every case goes on to print what
\* there is, and the entry of process_packet.
HandleResult ==
  /\ main = "parse" /\ pc = "returned"
  /\ status' = IF ret = "OutOfMemory" THEN 1 ELSE status
  /\ walker' = out /\ tmp' = out
  /\ main' = "print"
  /\ UNCHANGED <<vars, left, visited, trouble>>

-----------------------------------------------------------------------------
(* process_packet                                                          *)

Free(b) ==
  /\ live' = live \ {b}
  /\ node' = [node EXCEPT ![b] = FreeNode]
  /\ header' = [header EXCEPT ![b] = FreeHeader]
  /\ UNCHANGED <<pc, callVars, listVars, chain>>

\* The loop body up to the if chain's end: reads the node and its header.
PrintHeader ==
  /\ main = "print" /\ walker # NULL
  /\ visited' = Append(visited, walker)
  /\ main' = "next"
  /\ UNCHANGED <<vars, left, status, walker, tmp, trouble>>

NextNode ==
  /\ main = "next"
  /\ walker' = node[walker].next
  /\ main' = "freeHeader"
  /\ UNCHANGED <<vars, left, status, tmp, visited, trouble>>

ReleaseHeader ==
  /\ main = "freeHeader"
  /\ Free(node[tmp].hdr)
  /\ main' = "freeNode"
  /\ UNCHANGED <<left, status, walkVars, trouble>>

\* Variant of ReleaseNode without tmp = headers.
ReleaseNodeAgain ==
  /\ main = "freeNode"
  /\ Free(tmp)
  /\ main' = "print"
  /\ UNCHANGED <<left, status, walker, tmp, visited, trouble>>

ReleaseNode ==
  /\ main = "freeNode"
  /\ Free(tmp)
  /\ tmp' = walker
  /\ main' = "print"
  /\ UNCHANGED <<left, status, walker, visited, trouble>>

\* process_packet returns to the head of main's loop.
EndOfList ==
  /\ main = "print" /\ walker = NULL
  /\ Forget
  /\ main' = "read"
  /\ visited' = <<>>
  /\ UNCHANGED <<heapVars, left, status, walker, tmp, trouble>>

Exited == main = "exit" /\ UNCHANGED allVars

ClientNext ==
  \/ Open
  \/ \E n \in Lens : ReadPacket(n)
  \/ ReadError
  \/ ReadEnd
  \/ Parse
  \/ HandleResult
  \/ PrintHeader
  \/ NextNode
  \/ ReleaseHeader
  \/ ReleaseNode
  \/ EndOfList
  \/ Exited

\* One thread that keeps running.
ClientSpec == ClientInit /\ [][ClientNext]_allVars /\ WF_allVars(ClientNext)

-----------------------------------------------------------------------------
(* Properties                                                              *)

ClientTypeOK ==
  /\ main \in {"open", "read", "parse", "print", "next", "freeHeader",
               "freeNode", "exit"}
  /\ left \in 0 .. MaxPackets
  /\ status \in {0, 1}
  /\ {walker, tmp} \subseteq Blocks \cup {NULL}
  /\ visited \in Seq(Blocks)
  /\ trouble \in BOOLEAN

\* Every pointer the program is about to dereference or free is allocated:
\* the client frees a node only after it has left it, and the parser never
\* appends to a list of an earlier packet through the pointers it was left.
NoUseAfterFree ==
  /\ main = "print" /\ walker # NULL =>
       walker \in live /\ node[walker].hdr \in live
  /\ main = "next" => walker \in live
  /\ main = "freeHeader" => tmp \in live /\ node[tmp].hdr \in live
  /\ main = "freeNode" => tmp \in live
  /\ pc = "link" /\ out # NULL => last_hdr \in live
  /\ Loading => headers \in live

\* Between two packets nothing is allocated, also after a packet whose list
\* ended early for want of memory.
NoLeak == main \in {"open", "read", "exit"} => live = {}

\* process_packet prints the headers in the order of the packet, leaves none
\* out, and prints none that was not loaded.
PrintsTheChain ==
  /\ visited = SubSeq(chain, 1, Len(visited))
  /\ main = "print" =>
       IF walker = NULL THEN visited = chain
       ELSE LET h == header[node[walker].hdr]
            IN  h.fields = "loaded" /\ h.valid = "set"

\* The exit status reports a failure exactly if something failed, at any
\* packet: a later packet that parses does not clear it.
ExitStatus == main = "exit" => (status = 1 <=> trouble)

\* The program comes to its end.
Terminates == <>(main = "exit")
=============================================================================
