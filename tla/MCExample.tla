------------------------------ MODULE MCExample ------------------------------
(***************************************************************************)
(* The emitted function running the example's parser.                      *)
(***************************************************************************)
EXTENDS FppFlow, ExampleProgram

\* The blocks are numbered and malloc returns the first free one: which of
\* them it is makes no difference here.
FirstFree ==
  [a \in SUBSET Blocks |-> {b \in Blocks \ a : \A c \in Blocks \ a : b <= c}]

\* The protocol a header may directly follow on the list: what the states
\* between two listed extracts can connect.
ExampleUnder ==
  [ethernet_h |-> {NULL, "ethernet_h", "ipv4_h", "ipv6_h"},
   ipv4_h |-> {"ethernet_h", "ipv4_h", "ipv6_h", "udp_h"},
   ipv6_h |-> {"ethernet_h", "ipv4_h", "ipv6_h", "udp_h"},
   tcp_h |-> {"ipv4_h", "ipv6_h"},
   udp_h |-> {"ipv4_h", "ipv6_h"},
   payload_h |-> {"tcp_h", "udp_h"}]

\* An accepted packet ends with a payload, an IP header that carries a control
\* protocol, or a PPP frame inside a tunnel.
ExampleFinal == {"payload_h", "ipv4_h", "ipv6_h", "udp_h"}

\* The length of a source route entry, a number of bytes, is advanced by as
\* bits: the one thing that moves the offset off a byte boundary.
ExampleOdd == {"gre_sre"}

-----------------------------------------------------------------------------
(* What holds at the entry of each state                                   *)

ExampleBefore ==
  [s \in States |->
     CASE s \in {"parse_gre_v0", "parse_gre_v0_fin", "parse_gre_v1", "parse_gre_sre"} -> {"gre"}
       [] s = "parse_l2tp_v2" -> {"l2tp"}
       [] s = "parse_udp_2" -> {"udp_src_port"}
       [] OTHER -> {}]

Ip == {"ipv4_h", "ipv6_h"}
ExampleAbove ==
  [s \in States |->
     CASE s = "start" -> {NULL}
       [] s = "parse_ethernet" -> {NULL, "ethernet_h"} \cup Ip
       [] s \in {"parse_vlan_q"} -> {"ethernet_h"}
       [] s \in {"parse_mpls", "parse_mpls_end", "parse_eompls"} -> {"ethernet_h"} \cup Ip
       [] s \in {"parse_ipv4", "parse_ipv6"} -> {"ethernet_h", "udp_h"} \cup Ip
       [] s \in {"parse_tcp", "parse_udp", "parse_gre", "parse_gre_v0", "parse_gre_v0_fin",
                 "parse_gre_v1", "parse_gre_sre"} -> Ip
       [] s = "parse_payload" -> {"tcp_h", "udp_h"}
       [] s \in {"parse_l2tp", "parse_l2tp_v2", "parse_teredo", "parse_teredo_hdr",
                 "parse_teredo_auth_hdr", "parse_teredo_origin_hdr", "parse_udp_2"} -> {"udp_h"}
       [] OTHER -> {"udp_h"} \cup Ip]
=============================================================================
