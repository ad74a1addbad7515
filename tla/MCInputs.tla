------------------------------ MODULE MCInputs ------------------------------
(***************************************************************************)
(* The pure functions of the node over every input of bounded length: the  *)
(* address helpers, the derivation of the virtual address, the format of a *)
(* batch and the checksum of a header.  An input grows by one part at a    *)
(* time, in any order.                                                     *)
(***************************************************************************)
EXTENDS Multiaddr, Ipam, BatchCodec, Ipv4Checksum

VARIABLES input, kind

vars == <<input, kind>>

\* Octets next to a boundary of some reserved block.
First  == {0, 1, 9, 10, 11, 99, 100, 101, 126, 127, 128, 169, 172, 173, 192, 193,
           198, 199, 203, 204, 223, 224, 239, 240, 255}
Second == {0, 1, 2, 3, 15, 16, 18, 19, 20, 31, 32, 50, 51, 52, 63, 64, 95, 96, 127, 128,
           167, 168, 169, 253, 254, 255}
Third  == {0, 1, 2, 100, 113}

PlainComponents == {Ip4(o) : o \in First \X Second \X Third} \cup {Udp(<<1>>), QuicV1}
MixedComponents == {Ip4(<<8, 8, 8>>), Ip4(<<10, 0, 0>>), Udp(<<1>>), Udp(<<2>>), Tcp(<<1>>),
                    QuicV1, P2p(<<"p">>), P2pCircuit}

\* Bytes are bits here, and a u16 counts to 3.
Packets == UNION {[1..n -> Bytes] : n \in 0..u16_max}
CO1     == <<1, 0, 1>>

(* What an input of a kind may go on with, and how long it gets: addresses *)
(* of one component of each kind, with octets around every block, and of   *)
(* any components, repetitions included; an address, a prefix and a hash,  *)
(* which is wider than an address; the packets of a batch; any bytes; and  *)
(* the words of a header, with a checksum of its own.                      *)
MaxLen == [plain |-> 3, mixed |-> 5, net |-> 3, batch |-> u16_max, bytes |-> 11,
           header |-> 10]

Parts ==
  CASE kind = "plain" -> {c \in PlainComponents : ~ Has(input, c.proto)}
    [] kind = "mixed" -> MixedComponents
    [] kind = "net"   -> CASE Len(input) = 0 -> 0..(NumAddrs - 1)
                           [] Len(input) = 1 -> 0..AddrBits
                           [] OTHER -> 0..(2 * NumAddrs)
    [] kind = "batch" -> Packets
    [] kind = "bytes" -> Bytes
    [] kind = "header" -> IF Len(input) < 6 THEN {0, 1, 65535} ELSE {0, 65535}

Init == input = <<>> /\ kind \in DOMAIN MaxLen
Next ==
  /\ Len(input) < MaxLen[kind]
  /\ \E part \in Parts : input' = Append(input, part)
  /\ UNCHANGED kind
Spec == Init /\ [][Next]_vars

(* The reserved blocks the comment above is_public_ipv4 lists.             *)
Reserved(octets) ==
  LET a == octets[1]
      b == octets[2]
  IN  \/ a \in {0, 10, 127}
      \/ a = 100 /\ b \in 64..127
      \/ a = 169 /\ b = 254
      \/ a = 172 /\ b \in 16..31
      \/ octets \in {<<192, 0, 0>>, <<192, 0, 2>>, <<198, 51, 100>>, <<203, 0, 113>>}
      \/ a = 192 /\ b = 168
      \/ a = 198 /\ b \in {18, 19}
      \/ a \in 224..239 \/ a \in 240..255

-----------------------------------------------------------------------------
NamesOneIp(a) ==
  \A i, j \in DOMAIN a : a[i].proto = "ip4" /\ a[j].proto = "ip4" => i = j

(* No direct dial that Identify makes goes to a block the comment at       *)
(* p2p.rs 192 lists, however the peer orders the components of an address, *)
(* repeats them or leaves them out.  The addresses are those of the run    *)
(* that name one host at most.                                             *)
ReservedNeverDialed ==
  kind \in {"plain", "mixed"} /\ NamesOneIp(input) =>
    \A t \in identify_target(input) : ~ is_circuit(t) =>
      \A i \in DOMAIN t : t[i].proto = "ip4" => ~ Reserved(t[i].val)

(* One node's announcements suit the others: what it announces for any     *)
(* address the swarm reports is what a peer that learns it by identify or  *)
(* by announce dials, unchanged, so both file it under one cooldown key.   *)
AnnouncedIsDialed ==
  kind \in {"plain", "mixed"} =>
    \A r \in announceable(input) : is_public_udp_quic(r) /\ identify_target(r) = {r}

(* The virtual address of a node is a host address of the network, for     *)
(* every prefix and hash, and every host address is that of some hash.     *)
Base4(ip, prefix) == <<AddrBits - prefix, Network(ip, prefix), Broadcast(ip, prefix)>>

DerivedIsHost ==
  kind = "net" /\ Len(input) = 3 =>
    LET n == Base4(input[1], input[2]) IN IsHost(n[1], n[2], n[3], input[3])

EveryHostDerived ==
  kind = "net" /\ Len(input) = 2 =>
    LET n == Base4(input[1], input[2]) IN AllHosts(n[1], n[2], n[3])

(* A batch is read as it was written, and cut short it gives the first of  *)
(* its packets; but a request that is cut short, whatever it holds, is no  *)
(* request, and is neither unpacked nor acknowledged.  Bytes of any kind   *)
(* are read without leaving them.                                          *)
BatchReadsAsWritten ==
  kind = "batch" /\ input # <<>> => ReadsAsWritten(input) /\ CutGivesPrefix(input)
RequestWholeOrNot   ==
  /\ kind = "batch" /\ input # <<>> => WholeOrNot(Batch(input))
  /\ kind = "bytes" => WholeOrNot(input)
AnyBytesStayInside  == kind = "bytes" => StaysInside(input)

(* A fragment's header passes the receiver's test, whatever was in the     *)
(* checksum of the packet it comes from and however often the sum carries. *)
FragmentHeaderVerifies ==
  kind = "header" /\ Len(input) = MaxLen.header => Verifies(WithChecksum(input))
=============================================================================
