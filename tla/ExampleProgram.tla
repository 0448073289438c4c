---------------------------- MODULE ExampleProgram ----------------------------
(***************************************************************************)
(* The parser the repository ships as its example, as the backend emitted  *)
(* it in example/parser.c: the program that FppParser runs.  One record    *)
(* per parser state gives its statements, the labels its switch or goto    *)
(* can reach and what the switch reads.                                    *)
(*                                                                         *)
(* A header is named by its C type when the caller receives it and by the  *)
(* variable that holds it otherwise.  Packet fields that decide how far an *)
(* advance goes take the values given by the constants; which case of a    *)
(* switch is taken is left open.                                           *)
(***************************************************************************)
EXTENDS Integers, Sequences

CONSTANTS
  Words,       \* values of ipv4_h.ihl and tcp_h.data_offset, in words
  SreLengths,  \* values of gre_sre_h.length
  OffsetSizes, \* values of the word looked ahead at in an L2TP header
  IdLengths,   \* values of teredo_auth_h.id_len + auth_len, in bytes
  Wrap         \* arithmetic on uint32_t is modulo this

\* The fields have 4, 8, 32 and twice 8 bits.
ASSUME FieldAssumption ==
  /\ Words \subseteq 0 .. 15
  /\ SreLengths \subseteq 0 .. 255
  /\ OffsetSizes \subseteq 0 .. Wrap - 1
  /\ IdLengths \subseteq 0 .. 510
  /\ Wrap \in Nat \ {0}

Extract(h) == [op |-> "extract", hdr |-> h]
Lookahead(v) == [op |-> "lookahead", var |-> v]
Set(v, names) == [op |-> "assign", var |-> v, reads |-> names]
Skip(amounts, names) ==
  [op |-> "advance", amounts |-> amounts, reads |-> names]
Block(statements, names, targets) ==
  [body |-> statements, reads |-> names, targets |-> targets]

\* A flag bit times the size of the field it announces.
Optional(bits) == {0, bits}

\* (uint32_t)(((int32_t)(uint32_t)words + -5) << 5)
OptionBits == {((w - 5) * 32) % Wrap : w \in Words}

Inner == {"parse_ipv4", "parse_ipv6"}
Mpls == {"parse_mpls", "reject"}

start == Block(<<>>, {}, {"parse_ethernet"})

parse_ethernet ==
  Block(<<Extract("ethernet_h")>>, {"ethernet_h"},
        Inner \cup Mpls \cup {"parse_vlan_q"})

\* Variant of parse_vlan_q whose default accepts.
VlanAccepts ==
  Block(<<Extract("vlan_q")>>, {"vlan_q"},
        Inner \cup {"parse_mpls", "parse_vlan_q", "accept"})

parse_vlan_q ==
  Block(<<Extract("vlan_q")>>, {"vlan_q"},
        Inner \cup Mpls \cup {"parse_vlan_q"})

parse_mpls ==
  Block(<<Extract("mpls")>>, {"mpls"}, Mpls \cup {"parse_mpls_end"})

\* Variant of parse_mpls_end that takes a label stack to carry UDP.
MplsCarriesUdp ==
  Block(<<Lookahead("tmp_13")>>, {"tmp_13"},
        Inner \cup {"parse_udp", "reject"})

parse_mpls_end ==
  Block(<<Lookahead("tmp_13")>>, {"tmp_13"},
        Inner \cup {"parse_eompls", "reject"})

parse_eompls == Block(<<Extract("eompls")>>, {}, {"parse_ethernet"})

parse_pptp ==
  Block(<<Lookahead("tmp_14")>>, {"tmp_14"},
        {"parse_pptp_uncomp_addr_cntrl", "parse_pptp_comp_addr_cntrl"})

PptpProto ==
  {"parse_pptp_uncomp_proto", "parse_pptp_comp_proto", "reject"}

parse_pptp_uncomp_addr_cntrl ==
  Block(<<Skip({16}, {}), Lookahead("tmp_15"), Set("tmp_16", {"tmp_15"})>>,
        {"tmp_16"}, PptpProto)

parse_pptp_comp_addr_cntrl ==
  Block(<<Lookahead("tmp_17"), Set("tmp_18", {"tmp_17"})>>,
        {"tmp_18"}, PptpProto)

parse_pptp_uncomp_proto ==
  Block(<<Extract("pptp_uncomp_proto")>>, {"pptp_uncomp_proto"},
        Inner \cup {"accept", "reject"})

parse_pptp_comp_proto ==
  Block(<<Extract("pptp_comp_proto")>>, {"pptp_comp_proto"},
        Inner \cup {"accept", "reject"})

IpPayload ==
  Inner \cup {"parse_tcp", "parse_udp", "parse_gre", "accept", "reject"}

\* A header length below 5 wraps: the advance then goes past any packet.
parse_ipv4 ==
  Block(<<Extract("ipv4_h"), Skip(OptionBits, {"ipv4_h"})>>,
        {"ipv4_h"}, IpPayload)

parse_ipv6 == Block(<<Extract("ipv6_h")>>, {"ipv6_h"}, IpPayload)

parse_gre ==
  Block(<<Extract("gre")>>, {"gre"}, {"parse_gre_v0", "parse_gre_v1", "reject"})

parse_gre_v0 ==
  Block(<<Skip(Optional(32), {"gre"}), Skip(Optional(32), {"gre"}),
          Skip(Optional(32), {"gre"})>>,
        {"gre"}, {"parse_gre_sre", "parse_gre_v0_fin", "reject"})

GrePayload == Inner \cup Mpls \cup {"parse_pptp", "parse_ethernet"}

parse_gre_v0_fin == Block(<<>>, {"gre"}, GrePayload)

parse_gre_v1 ==
  Block(<<Skip({32}, {}), Skip(Optional(32), {"gre"}),
          Skip(Optional(32), {"gre"})>>,
        {"gre"}, GrePayload)

\* The length is a number of bytes on the wire and is added as bits.
parse_gre_sre ==
  Block(<<Extract("gre_sre"), Skip(SreLengths, {"gre_sre"})>>,
        {"gre_sre"}, {"parse_gre_v0_fin", "parse_gre_sre"})

parse_l2tp == Block(<<Extract("l2tp")>>, {"l2tp"}, {"parse_l2tp_v2", "reject"})

parse_l2tp_v2 ==
  Block(<<Skip(Optional(16), {"l2tp"}), Skip({32}, {}),
          Skip(Optional(32), {"l2tp"}),
          Lookahead("tmp_19"), Set("tmp_20", {"l2tp", "tmp_19"}),
          Set("tmp_21", {"tmp_20"}), Set("tmp_22", {"tmp_21"}),
          Skip({0} \cup {(w * 8) % Wrap : w \in OffsetSizes}, {"tmp_22"}),
          Skip(Optional(16), {"l2tp"})>>,
        {"l2tp"}, {"parse_pptp", "reject"})

Teredo == {"parse_ipv6", "parse_teredo_hdr", "reject"}

parse_teredo == Block(<<Lookahead("tmp_23")>>, {"tmp_23"}, Teredo)

parse_teredo_hdr ==
  Block(<<Lookahead("tmp_24")>>, {"tmp_24"},
        {"parse_teredo_auth_hdr", "parse_teredo_origin_hdr", "reject"})

parse_teredo_auth_hdr ==
  Block(<<Extract("teredo_auth"),
          Skip({8 * n + 72 : n \in IdLengths}, {"teredo_auth"}),
          Lookahead("tmp_25")>>,
        {"tmp_25"}, Teredo)

\* Variant of parse_teredo_origin_hdr without its extract.
OriginNotExtracted ==
  Block(<<Lookahead("tmp_26")>>, {"tmp_26"}, Teredo)

parse_teredo_origin_hdr ==
  Block(<<Extract("teredo_origin"), Lookahead("tmp_26")>>,
        {"tmp_26"}, Teredo)

parse_tcp ==
  Block(<<Extract("tcp_h"), Skip(OptionBits, {"tcp_h"})>>,
        {}, {"parse_payload"})

\* Variant of parse_udp that does not keep the source port.
UdpPortNotKept ==
  Block(<<Extract("udp_h")>>,
        {"udp_h"}, {"parse_l2tp", "parse_teredo", "parse_udp_2"})

parse_udp ==
  Block(<<Extract("udp_h"), Set("udp_src_port", {"udp_h"})>>,
        {"udp_h"}, {"parse_l2tp", "parse_teredo", "parse_udp_2"})

parse_udp_2 ==
  Block(<<>>, {"udp_src_port"}, {"parse_l2tp", "parse_teredo", "parse_payload"})

parse_payload == Block(<<Extract("payload_h")>>, {}, {"accept"})

-----------------------------------------------------------------------------

Program ==
  [start |-> start,
   parse_ethernet |-> parse_ethernet,
   parse_vlan_q |-> parse_vlan_q,
   parse_mpls |-> parse_mpls,
   parse_mpls_end |-> parse_mpls_end,
   parse_eompls |-> parse_eompls,
   parse_pptp |-> parse_pptp,
   parse_pptp_uncomp_addr_cntrl |-> parse_pptp_uncomp_addr_cntrl,
   parse_pptp_comp_addr_cntrl |-> parse_pptp_comp_addr_cntrl,
   parse_pptp_uncomp_proto |-> parse_pptp_uncomp_proto,
   parse_pptp_comp_proto |-> parse_pptp_comp_proto,
   parse_ipv4 |-> parse_ipv4,
   parse_ipv6 |-> parse_ipv6,
   parse_gre |-> parse_gre,
   parse_gre_v0 |-> parse_gre_v0,
   parse_gre_v0_fin |-> parse_gre_v0_fin,
   parse_gre_v1 |-> parse_gre_v1,
   parse_gre_sre |-> parse_gre_sre,
   parse_l2tp |-> parse_l2tp,
   parse_l2tp_v2 |-> parse_l2tp_v2,
   parse_teredo |-> parse_teredo,
   parse_teredo_hdr |-> parse_teredo_hdr,
   parse_teredo_auth_hdr |-> parse_teredo_auth_hdr,
   parse_teredo_origin_hdr |-> parse_teredo_origin_hdr,
   parse_tcp |-> parse_tcp,
   parse_udp |-> parse_udp,
   parse_udp_2 |-> parse_udp_2,
   parse_payload |-> parse_payload]

ProgramStates == DOMAIN Program
ProgramBody == [s \in ProgramStates |-> Program[s].body]
ProgramTargets == [s \in ProgramStates |-> Program[s].targets]
ProgramReads == [s \in ProgramStates |-> Program[s].reads]

\* The header structs the caller receives, then those it does not, and the
\* widths in bits that the extracts check for.
ListedWidth ==
  [ethernet_h |-> 112, ipv4_h |-> 160, ipv6_h |-> 320, tcp_h |-> 160,
   udp_h |-> 64, payload_h |-> 0]

\* Variant of LocalWidth in which gre_h lacks its four flags.
LocalWidthNoFlags ==
  [vlan_q |-> 32, mpls |-> 32, eompls |-> 32, gre |-> 28, gre_sre |-> 32,
   l2tp |-> 16, teredo_auth |-> 32, teredo_origin |-> 64,
   pptp_uncomp_proto |-> 16, pptp_comp_proto |-> 8]

LocalWidth ==
  [vlan_q |-> 32, mpls |-> 32, eompls |-> 32, gre |-> 32, gre_sre |-> 32,
   l2tp |-> 16, teredo_auth |-> 32, teredo_origin |-> 64,
   pptp_uncomp_proto |-> 16, pptp_comp_proto |-> 8]

ProgramListed == DOMAIN ListedWidth
ProgramLocals == DOMAIN LocalWidth
ProgramHeaders == ProgramListed \cup ProgramLocals
ProgramWidth ==
  [h \in ProgramHeaders |->
     IF h \in ProgramListed THEN ListedWidth[h] ELSE LocalWidth[h]]

ProgramVars ==
  {"udp_src_port", "tmp_13", "tmp_14", "tmp_15", "tmp_16", "tmp_17", "tmp_18",
   "tmp_19", "tmp_20", "tmp_21", "tmp_22", "tmp_23", "tmp_24", "tmp_25",
   "tmp_26"}
=============================================================================
