----------------------------- MODULE HeaderChain -----------------------------
(***************************************************************************)
(* What fpp_parse_packet promises its caller, without heap, pointers or    *)
(* the P4 program: for one packet it delivers headers one at a time, each  *)
(* in the packet and none before the end of the previous one, and then     *)
(* concludes with a verdict.  From the verdict on the delivered headers do *)
(* not change until the caller gives the list back.                        *)
(*                                                                         *)
(* The promise is weaker for a header that is not of whole bytes.  The     *)
(* length check counts whole bytes, so such a header may end with up to    *)
(* seven bits behind the packet, or in the byte where the next one starts. *)
(***************************************************************************)
EXTENDS Integers, Sequences

CONSTANTS
  Listed,   \* header types the caller receives
  Width,    \* Width[h]: size of a header of type h, in bits
  Lens      \* packet lengths in bytes

VARIABLES
  length,     \* length in bytes of the packet of the current call
  delivered,  \* the headers of the current packet, in packet order
  verdict     \* "idle", "parsing" or a return code

vars == <<length, delivered, verdict>>

ReturnCodes ==
  {"NoError", "PacketTooShort", "ParserDefaultReject", "OutOfMemory"}

\* First bit after the header d.
EndOf(d) == 8 * d.offset + Width[d.type]

\* d ends by the byte b: with its last bit if it is of whole bytes, otherwise
\* with its last whole byte, and fewer than eight bits more hang over b.
EndsBy(d, b) ==
  \/ EndOf(d) <= 8 * b
  \/ Width[d.type] % 8 # 0 /\ EndOf(d) < 8 * b + 8

\* A header may start at the byte o.
FreeFrom(o) == delivered # <<>> => EndsBy(delivered[Len(delivered)], o)

Init ==
  /\ length = 0
  /\ delivered = <<>>
  /\ verdict = "idle"

Begin(n) ==
  /\ verdict = "idle"
  /\ length' = n
  /\ delivered' = <<>>
  /\ verdict' = "parsing"

Deliver(h) ==
  /\ verdict = "parsing"
  /\ \E o \in 0 .. length :
       LET d == [type |-> h, offset |-> o]
       IN  /\ FreeFrom(o)
           /\ EndsBy(d, length)
           /\ delivered' = Append(delivered, d)
  /\ UNCHANGED <<length, verdict>>

Conclude(code) ==
  /\ verdict = "parsing"
  /\ verdict' = code
  /\ UNCHANGED <<length, delivered>>

Release ==
  /\ verdict \in ReturnCodes
  /\ verdict' = "idle"
  /\ delivered' = <<>>
  /\ length' = 0

Next ==
  \/ \E n \in Lens : Begin(n)
  \/ \E h \in Listed : Deliver(h)
  \/ \E code \in ReturnCodes : Conclude(code)
  \/ Release

Spec == Init /\ [][Next]_vars
=============================================================================
