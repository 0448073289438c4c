------------------------- MODULE ExampleHeadersProofs -------------------------
(***************************************************************************)
(* Proofs about the sixteen headers of the example: where each of their    *)
(* fields lies, and from that which are loaded with the value P4 gives     *)
(* them and that no load reads behind its header.                          *)
(***************************************************************************)
EXTENDS ExampleHeaders, FieldLoadProofs, WellFoundedInduction

-----------------------------------------------------------------------------
(* Where the fields lie                                                    *)

\* Field k of l, loaded at bit o, is loaded whole, unless it is the traffic
\* class, and from the bytes of the header, which has n bits.
LoadedWell(l, k, o, n) ==
  /\ (Straight(o % 8, l[k]) \/ (l = ipv6_h /\ k = 2))
  /\ BytesRead(o % 8, l[k], o \div 8) \subseteq 0 .. n \div 8 - 1

\* Each field follows the one before it and is loaded well.
Known(l) ==
  /\ Positions(l)[0] = 0
  /\ \A k \in 1 .. Len(l) :
       /\ Positions(l)[k] = Positions(l)[k - 1] + l[k]
       /\ LoadedWell(l, k, Positions(l)[k - 1], Bitsize(l))

\* q lists where the fields of l lie, and its end.
Lists(q, l) ==
  /\ Len(l) \in Nat /\ q[1] = 0
  /\ \A k \in 1 .. Len(l) : /\ q[k + 1] = q[k] + l[k]
                            /\ LoadedWell(l, k, q[k], q[Len(l) + 1])

\* A set of numbers that is not empty has a least.
LEMMA Smallest ==
  ASSUME NEW T, T \subseteq Nat, T # {}
  PROVE  \E m \in T : \A k \in T : ~(k < m)
<1>1. PICK m \in T : \A k \in T : <<k, m>> \notin OpToRel(<, Nat)
  BY WFMin, NatLessThanWellFounded
<1>2. \A k \in T : k \in Nat /\ m \in Nat
  OBVIOUS
<1>3. \A k \in T : ~(k < m)
  BY <1>1, <1>2 DEF OpToRel
<1> QED
  BY <1>3

\* The recursive definition of Positions defines a function, the one whose
\* values are listed.
LEMMA Listing ==
  ASSUME NEW l, NEW q, Lists(q, l)
  PROVE  Known(l)
<1> PICK n \in Nat : n = Len(l)
  BY DEF Lists
<1> DEFINE Defines(f) ==
             f = [k \in 0 .. n |-> IF k = 0 THEN 0 ELSE f[k - 1] + l[k]]
           p == [k \in 0 .. n |-> q[k + 1]]
<1>1. Positions(l) = CHOOSE f : Defines(f)
  BY DEF Positions
<1>2. Defines(p)
  <2>1. ASSUME NEW k \in 0 .. n
        PROVE  p[k] = IF k = 0 THEN 0 ELSE p[k - 1] + l[k]
    <3>1. CASE k = 0
      BY <3>1 DEF Lists
    <3>2. CASE k # 0
      <4>1. k \in 1 .. n /\ k - 1 \in 0 .. n /\ k - 1 + 1 = k
        BY <3>2
      <4> QED
        BY <3>2, <4>1 DEF Lists
    <3> QED
      BY <3>1, <3>2
  <2> QED
    BY <2>1
<1>3. Defines(Positions(l))
  BY <1>1, <1>2
<1> DEFINE T == {k \in 0 .. n : Positions(l)[k] # p[k]}
<1>4. T = {}
  <2> SUFFICES ASSUME T # {} PROVE FALSE
    OBVIOUS
  <2>1. PICK m \in T : \A k \in T : ~(k < m)
    <3>1. T \subseteq Nat
      OBVIOUS
    <3> HIDE DEF T
    <3> QED
      BY <3>1, Smallest
  <2> HIDE DEF p
  <2>2. p[0] = 0
    BY DEF p, Lists
  <2>3. m # 0
    BY <1>2, <1>3, <2>2
  <2>4. m - 1 \in 0 .. n /\ m - 1 < m
    BY <2>1, <2>3
  <2>5. Positions(l)[m - 1] = p[m - 1]
    BY <2>1, <2>4
  <2>6. Positions(l)[m] = p[m - 1] + l[m] /\ p[m] = p[m - 1] + l[m]
    BY <1>2, <1>3, <2>3, <2>5
  <2> QED
    BY <2>6
<1>5. \A k \in 0 .. n : Positions(l)[k] = q[k + 1]
  BY <1>4
<1>6. Bitsize(l) = q[n + 1]
  BY <1>5 DEF Bitsize
<1>7. ASSUME NEW k \in 1 .. n
      PROVE  /\ Positions(l)[k] = Positions(l)[k - 1] + l[k]
             /\ LoadedWell(l, k, Positions(l)[k - 1], Bitsize(l))
  <2>1. k \in 0 .. n /\ k - 1 \in 0 .. n /\ k - 1 + 1 = k
    OBVIOUS
  <2> QED
    BY <1>5, <1>6, <2>1 DEF Lists
<1>8. Positions(l)[0] = 0
  BY <1>3
<1> QED
  BY <1>7, <1>8 DEF Known

\* So it is for each header of the example.
LEMMA ExampleKnown == \A l \in AllHeaders : Known(l)
<1>1. Known(ethernet_h)
  <2>1. Lists(<<0, 48, 96, 112>>, ethernet_h)
    BY DEF Lists, ethernet_h, LoadedWell, Straight, BytesRead, LoadSize
  <2> QED
    BY <2>1, Listing
<1>2. Known(ieee802_1q_h)
  <2>1. Lists(<<0, 3, 4, 16, 32>>, ieee802_1q_h)
    BY DEF Lists, ieee802_1q_h, LoadedWell, Straight, BytesRead, LoadSize
  <2> QED
    BY <2>1, Listing
<1>3. Known(mpls_h)
  <2>1. Lists(<<0, 20, 23, 24, 32>>, mpls_h)
    BY DEF Lists, mpls_h, LoadedWell, Straight, BytesRead, LoadSize
  <2> QED
    BY <2>1, Listing
<1>4. Known(eompls_h)
  <2>1. Lists(<<0, 4, 16, 32>>, eompls_h)
    BY DEF Lists, eompls_h, LoadedWell, Straight, BytesRead, LoadSize
  <2> QED
    BY <2>1, Listing
<1>5. Known(pptp_uncomp_proto_h)
  <2>1. Lists(<<0, 16>>, pptp_uncomp_proto_h)
    BY DEF Lists, pptp_uncomp_proto_h, LoadedWell, Straight, BytesRead, LoadSize
  <2> QED
    BY <2>1, Listing
<1>6. Known(pptp_comp_proto_h)
  <2>1. Lists(<<0, 8>>, pptp_comp_proto_h)
    BY DEF Lists, pptp_comp_proto_h, LoadedWell, Straight, BytesRead, LoadSize
  <2> QED
    BY <2>1, Listing
<1>7. Known(ipv4_h)
  <2>1. Lists(<<0, 4, 8, 16, 32, 48, 51, 64, 72, 80, 96, 128, 160>>, ipv4_h)
    BY DEF Lists, ipv4_h, LoadedWell, Straight, BytesRead, LoadSize
  <2> QED
    BY <2>1, Listing
<1>8. Known(ipv6_h)
  <2>1. Lists(<<0, 4, 12, 32, 48, 56, 64, 192, 320>>, ipv6_h)
    BY DEF Lists, ipv6_h, LoadedWell, Straight, BytesRead, LoadSize
  <2> QED
    BY <2>1, Listing
<1>9. Known(gre_h)
  <2>1. Lists(<<0, 1, 2, 3, 4, 5, 8, 9, 13, 16, 32>>, gre_h)
    BY DEF Lists, gre_h, LoadedWell, Straight, BytesRead, LoadSize
  <2> QED
    BY <2>1, Listing
<1>10. Known(gre_sre_h)
  <2>1. Lists(<<0, 16, 24, 32>>, gre_sre_h)
    BY DEF Lists, gre_sre_h, LoadedWell, Straight, BytesRead, LoadSize
  <2> QED
    BY <2>1, Listing
<1>11. Known(l2tp_h)
  <2>1. Lists(<<0, 1, 2, 4, 5, 6, 7, 8, 12, 16>>, l2tp_h)
    BY DEF Lists, l2tp_h, LoadedWell, Straight, BytesRead, LoadSize
  <2> QED
    BY <2>1, Listing
<1>12. Known(tcp_h)
  <2>1. Lists(<<0, 16, 32, 64, 96, 100, 104, 112, 128, 144, 160>>, tcp_h)
    BY DEF Lists, tcp_h, LoadedWell, Straight, BytesRead, LoadSize
  <2> QED
    BY <2>1, Listing
<1>13. Known(udp_h)
  <2>1. Lists(<<0, 16, 32, 48, 64>>, udp_h)
    BY DEF Lists, udp_h, LoadedWell, Straight, BytesRead, LoadSize
  <2> QED
    BY <2>1, Listing
<1>14. Known(teredo_auth_h)
  <2>1. Lists(<<0, 8, 16, 24, 32>>, teredo_auth_h)
    BY DEF Lists, teredo_auth_h, LoadedWell, Straight, BytesRead, LoadSize
  <2> QED
    BY <2>1, Listing
<1>15. Known(teredo_origin_h)
  <2>1. Lists(<<0, 8, 16, 32, 64>>, teredo_origin_h)
    BY DEF Lists, teredo_origin_h, LoadedWell, Straight, BytesRead, LoadSize
  <2> QED
    BY <2>1, Listing
<1>16. Known(payload_h)
  <2>1. Lists(<<0>>, payload_h)
    BY DEF Lists, payload_h, LoadedWell, Straight, BytesRead, LoadSize
  <2> QED
    BY <2>1, Listing
<1> QED
  BY <1>1, <1>2, <1>3, <1>4, <1>5, <1>6, <1>7, <1>8, <1>9,
     <1>10, <1>11, <1>12, <1>13, <1>14, <1>15, <1>16
  DEF AllHeaders, StraightHeaders

-----------------------------------------------------------------------------
(* The loads one after the other                                           *)

\* In a header of the example the offset is where the next field lies, and
\* what was loaded last is the field before it.
Following ==
  /\ start <= offset
  /\ layout \in AllHeaders =>
       /\ offset = Positions(layout)[field]
       /\ FieldLoaded =>
            /\ field \in 1 .. Len(layout)
            /\ width = layout[field] /\ start = Positions(layout)[field - 1]
            /\ bytes = BytesRead(start % 8, width, start \div 8)

ExampleInv == LoadInv /\ Following

LEMMA ExampleInit == Init => ExampleInv
<1> SUFFICES ASSUME Init PROVE ExampleInv
  OBVIOUS
<1>1. layout \in AllHeaders => Positions(layout)[0] = 0
  BY ExampleKnown DEF Known
<1>2. field = 0 /\ offset = 0 /\ start = 0 /\ ~FieldLoaded
  BY DEF Init, FieldLoaded
<1> QED
  BY <1>1, <1>2, LoadInit DEF ExampleInv, Following

LEMMA ExampleStep == ExampleInv /\ [Next]_vars => ExampleInv'
<1> SUFFICES ASSUME ExampleInv, [Next]_vars PROVE Following'
  BY LoadStep DEF ExampleInv
<1>1. CASE ExtractField
  <2>1. start' <= offset' /\ layout' = layout
    BY <1>1
    DEF ExtractField, StoreField, NextWidth, ExampleInv, LoadInv, Placed
  <2> SUFFICES ASSUME layout \in AllHeaders PROVE Following'
    BY <2>1 DEF Following
  <2>2. PICK k \in 1 .. Len(layout) :
          k = field + 1 /\ field = k - 1 /\ k - 1 \in Nat
    BY <1>1 DEF ExtractField, StoreField, ExampleInv, LoadInv, Placed
  <2>3. /\ field' = k /\ width' = layout[k] /\ layout' = layout
        /\ start' = offset /\ offset' = offset + layout[k]
        /\ bytes' = BytesRead(offset % 8, layout[k], offset \div 8)
    BY <1>1, <2>2
    DEF ExtractField, StoreField, NextWidth, AtByte, ExampleInv, LoadInv, Placed
  <2>4. Positions(layout)[k] = Positions(layout)[k - 1] + layout[k]
    BY ExampleKnown DEF Known
  <2>5. offset = Positions(layout)[k - 1]
    BY <2>2 DEF ExampleInv, Following
  <2> QED
    BY <2>1, <2>2, <2>3, <2>4, <2>5 DEF Following
<1>2. CASE \E w \in Lookaheads : Lookahead(w)
  BY <1>2 DEF Lookahead, ExampleInv, Following, FieldLoaded, LoadInv, Placed
<1>3. CASE UNCHANGED vars
  BY <1>3 DEF vars, ExampleInv, Following, FieldLoaded
<1> QED
  BY <1>1, <1>2, <1>3 DEF Next

LEMMA ExampleInvariant == Spec => []ExampleInv
  BY ExampleInit, ExampleStep, PTL DEF Spec

\* Every load of a field of the example's headers is among those listed.
LEMMA EachLoaded ==
  ASSUME ExampleInv, layout \in AllHeaders, FieldLoaded
  PROVE  /\ Straight(start % 8, width) \/ (layout = ipv6_h /\ field = 2)
         /\ bytes \subseteq 0 .. Bitsize(layout) \div 8 - 1
<1>1. LoadedWell(layout, field, start, Bitsize(layout))
  BY ExampleKnown DEF Known, ExampleInv, Following
<1> QED
  BY <1>1 DEF LoadedWell, ExampleInv, Following

\* The one length check of an extract covers every load of the header, and so
\* no field of the example is loaded from behind its header.
THEOREM LoadsCovered == Spec => []LoadsInHeader
<1>1. ExampleInv => LoadsInHeader
  BY EachLoaded DEF LoadsInHeader, OfTheExample
<1> QED
  BY <1>1, ExampleInvariant, PTL

\* Of all fields and lookaheads of the example only the traffic class of an
\* IPv6 header is not what P4 says.
THEOREM TrafficClassAlone == Spec => []OnlyTrafficClassIsLost
<1>1. ExampleInv => OnlyTrafficClassIsLost
  <2> SUFFICES ASSUME ExampleInv, OfTheExample, width > 0, ~Exact
               PROVE  layout = ipv6_h /\ field = 2
    BY DEF OnlyTrafficClassIsLost
  <2>1. CASE FieldLoaded
    BY <2>1, EachLoaded
    DEF OfTheExample, ExampleInv, LoadInv, StraightFieldsExact
  <2>2. CASE ~FieldLoaded /\ width \in ExampleLookaheads
    <3>1. width \in 1 .. 8 \cup {16, 32}
      BY <2>2 DEF ExampleLookaheads
    <3>2. LookedAhead
      BY <2>2, <3>1
      DEF LookedAhead, FieldLoaded, ExampleInv, Following, LoadInv, Placed
    <3> QED
      BY <3>1, <3>2 DEF ExampleInv, LoadInv, LookaheadsExact
  <2> QED
    BY <2>1, <2>2 DEF OfTheExample
<1> QED
  BY <1>1, ExampleInvariant, PTL
=============================================================================
