------------------------ MODULE Ipv4FragmentProofs ------------------------
(***************************************************************************)
(* Proofs about Ipv4Fragment, for every MTU and every set of packets: the  *)
(* fragments of a packet that holds a whole datagram reassemble to that    *)
(* datagram, nothing of it is missing, and each fits the MTU.              *)
(***************************************************************************)
EXTENDS Ipv4Fragment, TLAPS

-----------------------------------------------------------------------------
(* The fragments of one packet.                                            *)

(* The fields of a packet.                                                 *)
LEMMA FieldTypes ==
  ASSUME NEW p \in Packet
  PROVE  /\ p.d \in Datagram /\ p.ver \in {4, 6} /\ p.ihl \in Nat /\ p.len \in Nat
         /\ p.total_len \in 0..U16Max /\ p.flags \in SUBSET {"DF", "MF"}
         /\ p.off \in Nat /\ p.from \in Nat
<1>1. \A n : n \in 0..8191 => n \in Nat  OBVIOUS
<1> QED  BY <1>1 DEF Packet

(* The bounds are naturals.                                                *)
LEMMA BoundsNat == Mtu \in Nat /\ U16Max \in Nat /\ MaxPackets \in Nat
BY MtuAssumption DEF U16Max

(* A fragment's payload is a positive multiple of 8, and with the header   *)
(* it fits the MTU.                                                        *)
LEMMA MaxPayload ==
  ASSUME NEW p \in Packet, Fragmentable(p)
  PROVE  \E u \in Nat \ {0} : max_payload(p) = 8 * u /\ p.ihl + 8 * u <= Mtu
<1>1. p.ihl \in Nat  BY FieldTypes
<1>2. Mtu \in Nat  BY BoundsNat
<1>3. Mtu > p.ihl /\ max_payload(p) # 0  BY DEF Fragmentable
<1> DEFINE room == Mtu - p.ihl
           u == room \div 8
<1>4. room \in Nat  BY <1>1, <1>2, <1>3
<1>5. u \in Nat /\ 8 * u <= room
  <2> HIDE DEF room
  <2> QED  BY <1>4
<1>6. max_payload(p) = 8 * u  BY DEF max_payload
<1> HIDE DEF u
<1> QED  BY <1>1, <1>2, <1>3, <1>5, <1>6

(* What a packet that may be split holds of its datagram.                  *)
LEMMA DataLenType ==
  ASSUME NEW p \in Packet, Fragmentable(p)
  PROVE  /\ DataLen(p) \in Nat
         /\ p.ihl + DataLen(p) <= U16Max
<1>1. p.ihl \in Nat /\ p.len \in Nat /\ p.total_len \in 0..U16Max  BY FieldTypes
<1>2. p.len >= p.ihl /\ p.total_len > p.ihl  BY DEF Fragmentable
<1>3. U16Max \in Nat  BY DEF U16Max
<1>4. p.total_len \in Nat /\ p.total_len <= U16Max  BY <1>1, <1>3
<1>5. CASE p.total_len < p.len  BY <1>1, <1>2, <1>3, <1>4, <1>5 DEF DataLen
<1>6. CASE ~ p.total_len < p.len  BY <1>1, <1>2, <1>3, <1>4, <1>6 DEF DataLen
<1> QED  BY <1>5, <1>6

(* A multiple of 8u is eight times a number of units.                      *)
LEMMA MultipleOfEight ==
  ASSUME NEW u \in Nat \ {0}, NEW o \in Nat, o % (8 * u) = 0
  PROVE  8 * (o \div 8) = o
<1> DEFINE m == 8 * u
           q == o \div m
           v == u * q
<1>1. m \in Nat /\ m > 0  OBVIOUS
<1>2. q \in Nat /\ o = m * q
  <2>1. o % m = 0  OBVIOUS
  <2> HIDE DEF m
  <2> QED  BY <1>1, <2>1
<1>3. v \in Nat /\ o = 8 * v
  <2> HIDE DEF q
  <2> QED  BY <1>2
<1> HIDE DEF v
<1> QED  BY <1>3

(* The type of an offset.                                                  *)
LEMMA OffsetType ==
  ASSUME NEW p \in Packet, Fragmentable(p), NEW o \in Offsets(p)
  PROVE  /\ o \in Nat /\ o < DataLen(p)
         /\ o % max_payload(p) = 0
         /\ 8 * (o \div 8) = o
<1>1. DataLen(p) \in Nat  BY DataLenType
<1>2. o \in 0..DataLen(p) - 1 /\ o % max_payload(p) = 0  BY DEF Offsets
<1>3. o \in Nat /\ o < DataLen(p)  BY <1>1, <1>2
<1>4. PICK u \in Nat \ {0} : max_payload(p) = 8 * u  BY MaxPayload
<1>5. 8 * (o \div 8) = o  BY <1>2, <1>3, <1>4, MultipleOfEight
<1> QED  BY <1>2, <1>3, <1>5

(* What a fragment says in its header is what it holds.                    *)
LEMMA FragmentFields ==
  ASSUME NEW p \in Packet, Fragmentable(p), NEW o \in Offsets(p),
         NEW f, f = Fragment(p, o)
  PROVE  /\ f \in Packet
         /\ f.d = p.d /\ f.ver = 4 /\ f.ihl = p.ihl /\ f.ihl >= 20
         /\ f.total_len = f.len /\ f.ihl <= f.len /\ f.len <= Mtu
         /\ 8 * f.off = o /\ f.from = p.from + o
         /\ DataLen(f) \in Nat /\ o + DataLen(f) <= DataLen(p)
         /\ DataLen(f) = max_payload(p) \/ o + DataLen(f) = DataLen(p)
         /\ f.flags = IF o + DataLen(f) < DataLen(p) THEN {"MF"} ELSE {}
<1> DEFINE remaining == DataLen(p) - o
           n == IF remaining > max_payload(p) THEN max_payload(p) ELSE remaining
<1>1. /\ p.d \in Datagram /\ p.ver = 4 /\ p.ihl \in Nat /\ p.ihl >= 20 /\ p.from \in Nat
  BY FieldTypes DEF Fragmentable
<1>2. o \in Nat /\ o < DataLen(p) /\ 8 * (o \div 8) = o  BY OffsetType
<1>3. PICK u \in Nat \ {0} : max_payload(p) = 8 * u /\ p.ihl + 8 * u <= Mtu
  BY MaxPayload
<1>4. DataLen(p) \in Nat /\ p.ihl + DataLen(p) <= U16Max  BY DataLenType
<1>5. U16Max = 65535 /\ Mtu \in Nat  BY MtuAssumption DEF U16Max
<1>6. n \in Nat /\ n <= 8 * u /\ o + n <= DataLen(p) /\ (n = max_payload(p) \/ o + n = DataLen(p))
  BY <1>2, <1>3, <1>4
<1>7. (p.ihl + n) % (U16Max + 1) = p.ihl + n
  <2>1. p.ihl + n \in Nat /\ p.ihl + n < 65536
    BY <1>1, <1>2, <1>4, <1>5, <1>6
  <2> HIDE DEF n
  <2> QED  BY <2>1, <1>5
<1>8. (o \div 8) % 8192 = o \div 8 /\ o \div 8 \in 0..8191
  <2>1. o < 65536  BY <1>1, <1>2, <1>4, <1>5
  <2>2. o \div 8 \in Nat /\ o \div 8 < 8192  BY <2>1, <1>2
  <2> DEFINE v == o \div 8
  <2> HIDE DEF v
  <2>3. v \in Nat /\ v < 8192 => v % 8192 = v /\ v \in 0..8191  OBVIOUS
  <2> QED  BY <2>2, <2>3 DEF v
<1> DEFINE flags == IF o + n < DataLen(p) THEN {"MF"} ELSE {}
<1>9. f = [d |-> p.d, ver |-> 4, ihl |-> p.ihl, len |-> p.ihl + n,
           total_len |-> (p.ihl + n) % (U16Max + 1), flags |-> flags,
           off |-> (o \div 8) % 8192, from |-> p.from + o]
  BY Zenon DEF Fragment
<1>10. p.ihl + n \in 0..U16Max /\ p.ihl + n \in Nat /\ p.from + o \in Nat
  <2>1. U16Max \in Nat  BY <1>5
  <2> HIDE DEF n
  <2> QED  BY <1>1, <1>2, <1>4, <1>6, <2>1
<1>11. flags \in SUBSET {"DF", "MF"}
  OBVIOUS
<1> HIDE DEF n, flags
<1>12. /\ f \in Packet
       /\ f.d = p.d /\ f.ver = 4 /\ f.ihl = p.ihl /\ f.len = p.ihl + n
       /\ f.total_len = p.ihl + n /\ f.flags = flags /\ f.off = o \div 8 /\ f.from = p.from + o
  <2>1. f = [d |-> p.d, ver |-> 4, ihl |-> p.ihl, len |-> p.ihl + n,
             total_len |-> p.ihl + n, flags |-> flags,
             off |-> o \div 8, from |-> p.from + o]
    BY <1>7, <1>8, <1>9
  <2> DEFINE len == p.ihl + n
             off == o \div 8
             from == p.from + o
  <2>2. len \in Nat /\ len \in 0..U16Max /\ off \in 0..8191 /\ from \in Nat
    BY <1>8, <1>10
  <2> HIDE DEF len, off, from
  <2>3. f = [d |-> p.d, ver |-> 4, ihl |-> p.ihl, len |-> len, total_len |-> len,
             flags |-> flags, off |-> off, from |-> from]
    BY <2>1 DEF len, off, from
  <2>4. f \in Packet
    BY <1>1, <1>11, <2>2, <2>3 DEF Packet
  <2>5. /\ f.d = p.d /\ f.ver = 4 /\ f.ihl = p.ihl /\ f.len = len
        /\ f.total_len = len /\ f.flags = flags /\ f.off = off /\ f.from = from
    BY <2>3
  <2> QED  BY <2>4, <2>5 DEF len, off, from
<1>13. DataLen(f) = n
  BY <1>1, <1>6, <1>12 DEF DataLen
<1>14. p.ihl + n <= Mtu /\ p.ihl <= p.ihl + n
  BY <1>1, <1>3, <1>5, <1>6
<1> QED  BY <1>1, <1>2, <1>6, <1>12, <1>13, <1>14 DEF flags

(* The fragments of a packet cover its payload.                            *)
LEMMA FragmentsCover ==
  ASSUME NEW p \in Packet, Fragmentable(p), NEW pos \in 0..DataLen(p) - 1
  PROVE  \E o \in Offsets(p) : /\ o <= pos
                               /\ pos < o + DataLen(Fragment(p, o))
<1>1. DataLen(p) \in Nat  BY DataLenType
<1>2. PICK u \in Nat \ {0} : max_payload(p) = 8 * u  BY MaxPayload
<1> DEFINE m == max_payload(p)
           o == m * (pos \div m)
<1>3. m \in Nat /\ m > 0  BY <1>2
<1>4. pos \in Nat /\ pos < DataLen(p)  BY <1>1
<1>5. o \in Nat /\ o <= pos /\ pos < o + m /\ o % m = 0
  <2> HIDE DEF m
  <2>1. pos \div m \in Nat  BY <1>3, <1>4
  <2>2. o + (pos % m) = pos /\ pos % m \in 0..m - 1  BY <1>3, <1>4
  <2>3. o \in Nat  BY <1>3, <2>1
  <2>4. o % m = 0  BY <1>3, <2>1
  <2> HIDE DEF o
  <2> QED  BY <1>3, <1>4, <2>2, <2>3, <2>4
<1> HIDE DEF o
<1>6. o \in Offsets(p)  BY <1>1, <1>4, <1>5 DEF Offsets
<1>7. DataLen(Fragment(p, o)) \in Nat
      /\ (DataLen(Fragment(p, o)) = m \/ o + DataLen(Fragment(p, o)) = DataLen(p))
  BY <1>6, FragmentFields
<1> QED  BY <1>1, <1>3, <1>4, <1>5, <1>6, <1>7

-----------------------------------------------------------------------------
(* Type correctness.                                                       *)

(* What the pump writes for a packet: packets, each of the datagram that   *)
(* packet is of.                                                           *)
LEMMA FramesType ==
  ASSUME NEW p \in Packet
  PROVE  \A f \in Frames(p) : f \in Packet /\ f.d = p.d
<1>1. CASE Fragmentable(p)
  <2> SUFFICES ASSUME NEW o \in Offsets(p)
               PROVE  Fragment(p, o) \in Packet /\ Fragment(p, o).d = p.d
    BY <1>1 DEF Frames
  <2> QED  BY <1>1, FragmentFields
<1>2. CASE ~ Fragmentable(p)
  BY <1>2 DEF Frames
<1> QED  BY <1>1, <1>2

(* The head and the rest of the channel.                                   *)
LEMMA RxType ==
  ASSUME TypeOK, rx # <<>>
  PROVE  Head(rx) \in Input /\ Head(rx) \in Packet /\ Tail(rx) \in Seq(Input)
<1>1. rx \in Seq(Input)  BY DEF TypeOK
<1> QED  BY <1>1, InputAssumption

(* The variables of the pump keep their types, and the frames that wait    *)
(* are of one packet (TypeOK).                                             *)
THEOREM TypeCorrect == Spec => []TypeOK
<1>1. Init => TypeOK
  <2> SUFFICES ASSUME Init PROVE TypeOK
    OBVIOUS
  <2>1. 0 \in 0..MaxPackets  BY BoundsNat
  <2>2. <<>> \in Seq(Input)  OBVIOUS
  <2>3. /\ rx = <<>> /\ pending = {} /\ stopped = FALSE /\ received = 0
        /\ taken = {} /\ written = {} /\ respect_df \in BOOLEAN
    BY Zenon DEF Init
  <2> QED  BY <2>1, <2>2, <2>3, Zenon DEF TypeOK
<1>2. TypeOK /\ [Next]_vars => TypeOK'
  <2> SUFFICES ASSUME TypeOK, [Next]_vars PROVE TypeOK'
    OBVIOUS
  <2>1. ASSUME NEW p \in Input, Receive(p) PROVE TypeOK'
    <3>1. Append(rx, p) \in Seq(Input)  BY DEF TypeOK
    <3>2. received + 1 \in 0..MaxPackets  BY <2>1, MtuAssumption DEF TypeOK, Receive
    <3> QED  BY <2>1, <3>1, <3>2 DEF TypeOK, Receive
  <2>2. CASE Take
    <3>1. /\ Head(rx) \in Input /\ Head(rx) \in Packet /\ Tail(rx) \in Seq(Input)
      BY <2>2, RxType DEF Take
    <3>2. \A f \in Frames(Head(rx)) : f \in Packet /\ f.d = Head(rx).d
      BY <3>1, FramesType
    <3>3. pending' \subseteq Packet /\ \A f, g \in pending' : f.d = g.d
      BY <2>2, <3>2 DEF Take
    <3>4. taken' \subseteq Input
      BY <2>2, <3>1 DEF TypeOK, Take
    <3> QED  BY <2>2, <3>1, <3>3, <3>4 DEF TypeOK, Take
  <2>3. ASSUME NEW f \in pending, WriteFrame(f) PROVE TypeOK'
    BY <2>3 DEF TypeOK, WriteFrame
  <2>4. CASE WriteFails
    BY <2>4 DEF TypeOK, WriteFails
  <2>5. CASE UNCHANGED vars
    BY <2>5 DEF TypeOK, vars
  <2> QED  BY <2>1, <2>2, <2>3, <2>4, <2>5 DEF Next
<1> QED  BY <1>1, <1>2, PTL DEF Spec

-----------------------------------------------------------------------------
(* Fragments fit.                                                          *)

(* A frame over the MTU is the packet itself.                              *)
LEMMA FramesFit ==
  ASSUME NEW p \in Packet, NEW f \in Frames(p), f.len > Mtu
  PROVE  f = p
<1>1. CASE Fragmentable(p)
  <2>1. PICK o \in Offsets(p) : f = Fragment(p, o)  BY <1>1 DEF Frames
  <2>2. f.len <= Mtu /\ f \in Packet  BY <1>1, <2>1, FragmentFields
  <2>3. f.len \in Nat /\ Mtu \in Nat  BY <2>2, FieldTypes, BoundsNat
  <2> QED  BY <2>2, <2>3
<1>2. CASE ~ Fragmentable(p)
  BY <1>2 DEF Frames
<1> QED  BY <1>1, <1>2

(* No fragment is over the MTU, whatever the header's length (max_payload, *)
(* routing.rs 181 to 185).                                                 *)
THEOREM FragmentsFitMtu == Spec => []FragmentsFit
<1>1. Init => FragmentsFit
  BY DEF Init, FragmentsFit
<1>2. TypeOK /\ FragmentsFit /\ [Next]_vars => FragmentsFit'
  <2> SUFFICES ASSUME TypeOK, FragmentsFit, [Next]_vars PROVE FragmentsFit'
    OBVIOUS
  <2>1. ASSUME NEW p \in Input, Receive(p) PROVE FragmentsFit'
    BY <2>1 DEF FragmentsFit, Receive
  <2>2. CASE Take
    <3>1. Head(rx) \in Packet  BY <2>2, RxType DEF Take
    <3>2. \A f \in pending' : f.len > Mtu => f \in taken'
      BY <2>2, <3>1, FramesFit DEF Take
    <3>3. \A f \in written' : f.len > Mtu => f \in taken'
      BY <2>2 DEF FragmentsFit, Take
    <3> QED  BY <3>2, <3>3 DEF FragmentsFit
  <2>3. ASSUME NEW f \in pending, WriteFrame(f) PROVE FragmentsFit'
    BY <2>3 DEF FragmentsFit, WriteFrame
  <2>4. CASE WriteFails
    BY <2>4 DEF FragmentsFit, WriteFails
  <2>5. CASE UNCHANGED vars
    BY <2>5 DEF FragmentsFit, vars
  <2> QED  BY <2>1, <2>2, <2>3, <2>4, <2>5 DEF Next
<1> QED  BY <1>1, <1>2, TypeCorrect, PTL DEF Spec

-----------------------------------------------------------------------------
(* Reassembly.  Datagrams must arrive whole; ones that were split by their *)
(* sender do not survive a second time.                                    *)

OnlyWhole == \A p \in Input : p.ver = 4 => Whole(p)

(* A frame claims the place its bytes have in the datagram, and to be the  *)
(* last one only if it is.                                                 *)
InPlace(f) ==
  /\ f.from = 8 * f.off
  /\ "MF" \notin f.flags => f.from + DataLen(f) = Size[f.d]

PlaceInv ==
  \A f \in written \cup pending : f \in Packet /\ (f.ver = 4 => f.ihl >= 20 /\ InPlace(f))

(* What a whole packet holds.                                              *)
LEMMA WholeLen ==
  ASSUME NEW p \in Packet, Whole(p)
  PROVE  DataLen(p) = Size[p.d] /\ DataLen(p) \in Nat
<1>1. p.d \in Datagram /\ p.ihl \in Nat /\ p.len \in Nat  BY FieldTypes
<1>2. Size[p.d] \in Nat  BY <1>1, SizeAssumption
<1>3. p.total_len = p.ihl + Size[p.d] /\ p.total_len <= p.len  BY DEF Whole
<1>4. CASE p.total_len < p.len  BY <1>1, <1>2, <1>3, <1>4 DEF DataLen
<1>5. CASE ~ p.total_len < p.len  BY <1>1, <1>2, <1>3, <1>5 DEF DataLen
<1> QED  BY <1>4, <1>5

(* The frames of a whole packet are in place.                              *)
LEMMA FramesInPlace ==
  ASSUME OnlyWhole, NEW p \in Input, NEW f \in Frames(p), f.ver = 4
  PROVE  f.ihl >= 20 /\ InPlace(f)
<1>1. p \in Packet  BY InputAssumption
<1>2. CASE Fragmentable(p)
  <2>1. Whole(p)  BY <1>2 DEF OnlyWhole, Fragmentable
  <2>2. PICK o \in Offsets(p) : f = Fragment(p, o)  BY <1>2 DEF Frames
  <2>3. /\ f.d = p.d /\ f.ihl >= 20 /\ 8 * f.off = o /\ f.from = p.from + o
        /\ DataLen(f) \in Nat /\ o + DataLen(f) <= DataLen(p)
        /\ f.flags = IF o + DataLen(f) < DataLen(p) THEN {"MF"} ELSE {}
    BY <1>1, <1>2, <2>2, FragmentFields
  <2>4. o \in Nat  BY <1>1, <1>2, OffsetType
  <2>5. p.from = 0 /\ DataLen(p) = Size[p.d] /\ DataLen(p) \in Nat
    BY <1>1, <2>1, WholeLen DEF Whole
  <2>6. f.from = 8 * f.off  BY <2>3, <2>4, <2>5
  <2>7. ASSUME "MF" \notin f.flags PROVE f.from + DataLen(f) = Size[f.d]
    BY <2>3, <2>4, <2>5, <2>7
  <2> QED  BY <2>3, <2>6, <2>7 DEF InPlace
<1>3. CASE ~ Fragmentable(p)
  <2>1. f = p  BY <1>3 DEF Frames
  <2>2. Whole(p)  BY <2>1 DEF OnlyWhole
  <2>3. DataLen(p) = Size[p.d] /\ DataLen(p) \in Nat  BY <1>1, <2>2, WholeLen
  <2> QED  BY <2>1, <2>2, <2>3 DEF InPlace, Whole
<1> QED  BY <1>2, <1>3

(* Every frame written, or about to be, is in place.                       *)
LEMMA PlaceInductive == ASSUME OnlyWhole PROVE Spec => []PlaceInv
<1>1. Init => PlaceInv
  BY DEF Init, PlaceInv
<1>2. TypeOK /\ PlaceInv /\ [Next]_vars => PlaceInv'
  <2> SUFFICES ASSUME TypeOK, PlaceInv, [Next]_vars PROVE PlaceInv'
    OBVIOUS
  <2>1. ASSUME NEW p \in Input, Receive(p) PROVE PlaceInv'
    BY <2>1 DEF PlaceInv, Receive
  <2>2. CASE Take
    <3>1. Head(rx) \in Packet /\ Head(rx) \in Input  BY <2>2, RxType DEF Take
    <3>2. \A f \in Frames(Head(rx)) : f \in Packet /\ (f.ver = 4 => f.ihl >= 20 /\ InPlace(f))
      BY <3>1, FramesType, FramesInPlace
    <3> QED  BY <2>2, <3>2 DEF PlaceInv, Take
  <2>3. ASSUME NEW f \in pending, WriteFrame(f) PROVE PlaceInv'
    BY <2>3 DEF PlaceInv, WriteFrame
  <2>4. CASE WriteFails
    BY <2>4 DEF PlaceInv, WriteFails
  <2>5. CASE UNCHANGED vars
    BY <2>5 DEF PlaceInv, vars
  <2> QED  BY <2>1, <2>2, <2>3, <2>4, <2>5 DEF Next
<1> QED  BY <1>1, <1>2, TypeCorrect, PTL DEF Spec

(* Frames that are in place make up the datagram that was sent.            *)
LEMMA PlacedReassembles ==
  ASSUME PlaceInv
  PROVE  ReassembledAsSent
<1> SUFFICES ASSUME NEW d \in Datagram, NEW e \in Ends(d)
             PROVE  e = Size[d] /\ \A pos \in 0..e - 1 : Bytes(d, pos) = {pos}
  BY DEF ReassembledAsSent
<1>1. \A f \in Accepted(d) : /\ f \in Packet /\ f.d = d /\ InPlace(f)
  BY DEF PlaceInv, Accepted
<1>2. e = Size[d]
  <2>1. PICK f \in Accepted(d) : "MF" \notin f.flags /\ e = 8 * f.off + DataLen(f)
    BY DEF Ends
  <2> QED  BY <1>1, <2>1 DEF InPlace
<1>3. Size[d] \in Nat  BY SizeAssumption
<1>4. ASSUME NEW pos \in 0..e - 1 PROVE Bytes(d, pos) = {pos}
  <2>1. pos \in Nat  BY <1>2, <1>3
  <2>2. Bytes(d, pos) # {}  BY DEF Ends
  <2>3. ASSUME NEW f \in Accepted(d) PROVE f.from + pos - 8 * f.off = pos
    <3>1. f \in Packet /\ f.from = 8 * f.off  BY <1>1 DEF InPlace
    <3>2. f.off \in Nat  BY <3>1, FieldTypes
    <3> QED  BY <2>1, <3>1, <3>2
  <2> QED  BY <2>2, <2>3 DEF Bytes
<1> QED  BY <1>2, <1>4

(* If every datagram arrives whole, then whatever the receiver completes   *)
(* is what was sent, for every MTU, with the packets of any number of      *)
(* datagrams among each other (ipv4_fragment_if_needed).                   *)
THEOREM WholeReassembles == ASSUME OnlyWhole PROVE Spec => []ReassembledAsSent
BY PlaceInductive, PlacedReassembles, PTL

-----------------------------------------------------------------------------
(* Nothing is missing.                                                     *)

(* The frames of each packet taken are written or wait to be.              *)
WrittenInv == \A p \in taken : Frames(p) \subseteq written \cup pending

LEMMA FramesUnchanged ==
  ASSUME UNCHANGED respect_df
  PROVE  \A p \in Packet : Frames(p)' = Frames(p)
BY DEF Frames, Fragmentable, Fragment, Offsets, max_payload, DataLen

LEMMA WrittenInductive == Spec => []WrittenInv
<1>1. Init => WrittenInv
  BY DEF Init, WrittenInv
<1>2. TypeOK /\ WrittenInv /\ [Next]_vars => WrittenInv'
  <2> SUFFICES ASSUME TypeOK, WrittenInv, [Next]_vars PROVE WrittenInv'
    OBVIOUS
  <2>1. UNCHANGED respect_df
    BY DEF Next, Receive, Take, WriteFrame, WriteFails, vars
  <2>2. taken \subseteq Packet
    BY InputAssumption DEF TypeOK
  <2>3. \A p \in Packet : Frames(p)' = Frames(p)
    BY <2>1, FramesUnchanged
  <2>4. CASE Take
    <3>1. Head(rx) \in Packet  BY <2>4, RxType DEF Take
    <3> QED  BY <2>2, <2>3, <2>4, <3>1 DEF WrittenInv, Take
  <2>5. ASSUME written' \cup pending' = written \cup pending, taken' = taken
        PROVE  WrittenInv'
    BY <2>2, <2>3, <2>5 DEF WrittenInv
  <2>6. ASSUME NEW p \in Input, Receive(p) PROVE WrittenInv'
    BY <2>5, <2>6 DEF Receive
  <2>7. ASSUME NEW f \in pending, WriteFrame(f) PROVE WrittenInv'
    BY <2>5, <2>7 DEF WriteFrame
  <2>8. CASE WriteFails
    BY <2>5, <2>8 DEF WriteFails
  <2>9. CASE UNCHANGED vars
    BY <2>5, <2>9 DEF vars
  <2> QED  BY <2>4, <2>6, <2>7, <2>8, <2>9 DEF Next
<1> QED  BY <1>1, <1>2, TypeCorrect, PTL DEF Spec

(* A frame that is written, and covers a position, offers a byte for it.   *)
LEMMA CoverOffersByte ==
  ASSUME NEW d \in Datagram, NEW f \in Accepted(d), NEW pos, Covers(f, pos)
  PROVE  Bytes(d, pos) # {}
BY DEF Bytes

(* The frames of a whole packet suffice to complete its datagram.          *)
LEMMA FramesComplete ==
  ASSUME NEW p \in Packet, Whole(p), Frames(p) \subseteq written
  PROVE  Ends(p.d) # {}
<1>1. p.d \in Datagram /\ p.ihl \in Nat /\ p.len \in Nat /\ p.from = 0 /\ p.off = 0
      /\ p.ver = 4 /\ p.ihl >= 20 /\ p.total_len <= p.len /\ "MF" \notin p.flags
  BY FieldTypes DEF Whole
<1>2. DataLen(p) \in Nat /\ DataLen(p) = Size[p.d] /\ p.total_len = p.ihl + DataLen(p)
  BY WholeLen DEF Whole
<1> DEFINE e == DataLen(p)
<1>3. CASE ~ Fragmentable(p)
  <2>1. p \in written  BY <1>3 DEF Frames
  <2>2. p.total_len >= p.ihl  BY <1>1, <1>2
  <2>3. p \in Accepted(p.d)  BY <1>1, <2>1, <2>2 DEF Accepted
  <2>4. \A pos \in 0..e - 1 : Covers(p, pos)  BY <1>1, <1>2 DEF Covers
  <2>5. \A pos \in 0..e - 1 : Bytes(p.d, pos) # {}
    BY <1>1, <2>3, <2>4, CoverOffersByte
  <2>6. e = 8 * p.off + DataLen(p)  BY <1>1, <1>2
  <2>7. e \in Ends(p.d)
    BY <1>1, <2>3, <2>5, <2>6 DEF Ends
  <2> QED  BY <2>7
<1>4. CASE Fragmentable(p)
  <2>1. ASSUME NEW o \in Offsets(p), NEW f, f = Fragment(p, o)
        PROVE  f \in Accepted(p.d)
    <3>1. f \in written  BY <1>4, <2>1 DEF Frames
    <3>2. /\ f \in Packet /\ f.d = p.d /\ f.ver = 4 /\ f.ihl >= 20
          /\ f.total_len = f.len /\ f.ihl <= f.len
      BY <1>4, <2>1, FragmentFields
    <3>3. f.len \in Nat /\ f.ihl \in Nat  BY <3>2, FieldTypes
    <3> QED  BY <3>1, <3>2, <3>3 DEF Accepted
  <2>2. ASSUME NEW pos \in 0..e - 1
        PROVE  \E f \in Accepted(p.d) :
                 /\ Covers(f, pos)
                 /\ pos = e - 1 => "MF" \notin f.flags /\ e = 8 * f.off + DataLen(f)
    <3>1. PICK o \in Offsets(p) : o <= pos /\ pos < o + DataLen(Fragment(p, o))
      BY <1>4, FragmentsCover
    <3> DEFINE f == Fragment(p, o)
    <3>2. f \in Accepted(p.d)  BY <2>1
    <3>3. /\ 8 * f.off = o /\ DataLen(f) \in Nat /\ o + DataLen(f) <= e
          /\ f.flags = IF o + DataLen(f) < e THEN {"MF"} ELSE {}
      BY <1>4, FragmentFields
    <3>4. o \in Nat /\ pos \in Nat  BY <1>2, <1>4, OffsetType
    <3>5. pos < o + DataLen(f)  BY <3>1
    <3> HIDE DEF f
    <3>6. Covers(f, pos)  BY <3>1, <3>3, <3>5 DEF Covers
    <3>7. ASSUME pos = e - 1 PROVE "MF" \notin f.flags /\ e = 8 * f.off + DataLen(f)
      <4>1. o + DataLen(f) = e  BY <1>2, <3>3, <3>4, <3>5, <3>7
      <4> QED  BY <1>2, <3>3, <4>1
    <3> QED  BY <3>2, <3>6, <3>7
  <2>3. \A pos \in 0..e - 1 : Bytes(p.d, pos) # {}
    BY <1>1, <2>2, CoverOffersByte
  <2>4. e - 1 \in 0..e - 1
    <3>1. p.total_len > p.ihl  BY <1>4 DEF Fragmentable
    <3> QED  BY <1>1, <1>2, <3>1
  <2>5. PICK f \in Accepted(p.d) : "MF" \notin f.flags /\ e = 8 * f.off + DataLen(f)
    BY <2>2, <2>4
  <2>6. e \in Ends(p.d)
    BY <2>3, <2>5 DEF Ends
  <2> QED  BY <2>6
<1> QED  BY <1>3, <1>4

(* Once the frames of a packet that holds a whole datagram are written,    *)
(* the receiver can complete it: the loop over the payload leaves no byte  *)
(* out, and its last round clears MF (routing.rs 202 to 236).              *)
THEOREM NoneMissing == Spec => []NothingMissing
<1>1. TypeOK /\ WrittenInv => NothingMissing
  <2> SUFFICES ASSUME TypeOK, WrittenInv, NEW p \in taken, Whole(p),
                      \A f \in pending : f.d # p.d
               PROVE  Ends(p.d) # {}
    BY DEF NothingMissing
  <2>1. p \in Packet  BY InputAssumption DEF TypeOK
  <2>2. \A f \in Frames(p) : f.d = p.d  BY <2>1, FramesType
  <2>3. Frames(p) \subseteq written  BY <2>2 DEF WrittenInv
  <2> QED  BY <2>1, <2>3, FramesComplete
<1> QED  BY <1>1, TypeCorrect, WrittenInductive, PTL
=============================================================================
