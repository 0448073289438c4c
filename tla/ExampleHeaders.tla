---------------------------- MODULE ExampleHeaders ----------------------------
(***************************************************************************)
(* The headers of the example, example/p4-16/headers.p4, as the widths of  *)
(* their fields in bits, loaded by FieldLoad.  Only those that parser.p4   *)
(* extracts are here.  The structs they are stored in, example/parser.h,   *)
(* follow as the bytes of their members.                                   *)
(***************************************************************************)
EXTENDS FieldLoad, TLC

ethernet_h == <<48, 48, 16>>
ieee802_1q_h == <<3, 1, 12, 16>>
mpls_h == <<20, 3, 1, 8>>
eompls_h == <<4, 12, 16>>
pptp_uncomp_proto_h == <<16>>
pptp_comp_proto_h == <<8>>
ipv4_h == <<4, 4, 8, 16, 16, 3, 13, 8, 8, 16, 32, 32>>
ipv6_h == <<4, 8, 20, 16, 8, 8, 128, 128>>
gre_h == <<1, 1, 1, 1, 1, 3, 1, 4, 3, 16>>
gre_sre_h == <<16, 8, 8>>
l2tp_h == <<1, 1, 2, 1, 1, 1, 1, 4, 4>>
tcp_h == <<16, 16, 32, 32, 4, 4, 8, 16, 16, 16>>
udp_h == <<16, 16, 16, 16>>
teredo_auth_h == <<8, 8, 8, 8>>
teredo_origin_h == <<8, 8, 16, 32>>
payload_h == <<>>

\* The headers in which no field crosses the boundary of its load.
StraightHeaders ==
  {ethernet_h, ieee802_1q_h, mpls_h, eompls_h, pptp_uncomp_proto_h,
   pptp_comp_proto_h, ipv4_h, gre_h, gre_sre_h, l2tp_h, tcp_h, udp_h,
   teredo_auth_h, teredo_origin_h, payload_h}

AllHeaders == StraightHeaders \cup {ipv6_h}

\* The widths of the lookaheads in parser.p4.
ExampleLookaheads == {4, 8, 16, 32}

-----------------------------------------------------------------------------
(* The loads in example/parser.c                                           *)

\* example/parser.c loads a narrow field as a lookahead is loaded.
ShippedField == StoreField(MaskFirst(alignment, NextWidth, AtByte))

ShippedSpec == Init /\ [][ShippedField]_vars

-----------------------------------------------------------------------------
(* The structs of example/parser.h                                         *)

struct_ethernet_h == <<6, 6, 2>>
struct_ieee802_1q_h == <<1, 1, 2, 2>>
struct_mpls_h == <<4, 1, 1, 1>>
struct_eompls_h == <<1, 2, 2>>
struct_pptp_uncomp_proto_h == <<2>>
struct_pptp_comp_proto_h == <<1>>
struct_ipv4_h == <<1, 1, 1, 2, 2, 1, 2, 1, 1, 2, 4, 4>>
struct_ipv6_h == <<1, 1, 4, 2, 1, 1, 16, 16>>
struct_gre_h == <<1, 1, 1, 1, 1, 1, 1, 1, 1, 2>>
struct_gre_sre_h == <<2, 1, 1>>
struct_l2tp_h == <<1, 1, 1, 1, 1, 1, 1, 1, 1>>
struct_tcp_h == <<2, 2, 4, 4, 1, 1, 1, 2, 2, 2>>
struct_udp_h == <<2, 2, 2, 2>>
struct_teredo_auth_h == <<1, 1, 1, 1>>
struct_teredo_origin_h == <<1, 1, 2, 4>>
struct_payload_h == <<>>

\* The struct a header is extracted to.
Struct ==
  ethernet_h :> struct_ethernet_h @@ ieee802_1q_h :> struct_ieee802_1q_h @@
  mpls_h :> struct_mpls_h @@ eompls_h :> struct_eompls_h @@
  pptp_uncomp_proto_h :> struct_pptp_uncomp_proto_h @@
  pptp_comp_proto_h :> struct_pptp_comp_proto_h @@
  ipv4_h :> struct_ipv4_h @@ ipv6_h :> struct_ipv6_h @@
  gre_h :> struct_gre_h @@ gre_sre_h :> struct_gre_sre_h @@
  l2tp_h :> struct_l2tp_h @@ tcp_h :> struct_tcp_h @@ udp_h :> struct_udp_h @@
  teredo_auth_h :> struct_teredo_auth_h @@
  teredo_origin_h :> struct_teredo_origin_h @@ payload_h :> struct_payload_h

\* parser.h has the members the backend declares for headers.p4.
ASSUME StructsAgree ==
  \A l \in AllHeaders : Struct[l] = [k \in DOMAIN l |-> Declared(l[k])]

-----------------------------------------------------------------------------
(* Agreement with the emitted program                                      *)

CONSTANTS Words, SreLengths, OffsetSizes, IdLengths, Wrap

P == INSTANCE ExampleProgram

\* The bits of a header before each of its fields, and all of them.
Positions(l) ==
  LET before[k \in 0 .. Len(l)] == IF k = 0 THEN 0 ELSE before[k - 1] + l[k]
  IN  before

Bitsize(l) == Positions(l)[Len(l)]

\* The width each extract of parser.c checks for is the width of the header
\* as headers.p4 declares it.
ASSUME WidthsAgree ==
  P!ProgramWidth =
    [ethernet_h |-> Bitsize(ethernet_h), ipv4_h |-> Bitsize(ipv4_h),
     ipv6_h |-> Bitsize(ipv6_h), tcp_h |-> Bitsize(tcp_h),
     udp_h |-> Bitsize(udp_h), payload_h |-> Bitsize(payload_h),
     vlan_q |-> Bitsize(ieee802_1q_h), mpls |-> Bitsize(mpls_h),
     eompls |-> Bitsize(eompls_h), gre |-> Bitsize(gre_h),
     gre_sre |-> Bitsize(gre_sre_h), l2tp |-> Bitsize(l2tp_h),
     teredo_auth |-> Bitsize(teredo_auth_h),
     teredo_origin |-> Bitsize(teredo_origin_h),
     pptp_uncomp_proto |-> Bitsize(pptp_uncomp_proto_h),
     pptp_comp_proto |-> Bitsize(pptp_comp_proto_h)]

-----------------------------------------------------------------------------
(* Properties                                                              *)

OfTheExample ==
  layout \in AllHeaders /\ (FieldLoaded \/ width \in ExampleLookaheads)

\* Of all fields of the example's headers, and its lookaheads, one does not
\* have the value P4 gives it: the traffic_class of an IPv6 header, whose bits
\* lie in two bytes.
OnlyTrafficClassIsLost ==
  OfTheExample /\ width > 0 /\ ~Exact => layout = ipv6_h /\ field = 2

\* The loads of a header read no byte behind it: the one length check of an
\* extract, of the header's own width, covers them all, although a field is
\* loaded with a load that may be wider than it.
LoadsInHeader ==
  OfTheExample /\ FieldLoaded => bytes \subseteq 0 .. Bitsize(layout) \div 8 - 1
=============================================================================
