---------------------------- MODULE Ipv4Fragment ----------------------------
(***************************************************************************)
(* The way of a packet from the node to the TUN device: pump_p2p_to_tun    *)
(* takes packets from rx, splits IPv4 packets over the MTU, and writes the *)
(* result one frame at a time (src/src/routing.rs, lines 64 to 239).       *)
(*                                                                         *)
(* A packet stands for a part of some datagram's payload, which it holds   *)
(* from byte `from` on; its header says where the receiver is to put it.   *)
(* The two must agree, and `from` is what the code never reads.  The       *)
(* receiver, which reassembles, is the kernel behind the device: it is     *)
(* external, and defined here by RFC 791 alone.                            *)
(***************************************************************************)
EXTENDS Integers, Sequences

CONSTANTS
  Datagram,          \* source, destination, protocol and id of a datagram
  Size,              \* per datagram, the length of its payload
  Input,             \* the packets that peers may send
  Mtu,               \* mtu
  MaxPackets         \* bound of the packets received

U16Max == 65535

(* ver, ihl (in bytes), total_len, flags and off (in units of 8 bytes) are *)
(* the header's fields; len is what pkt.len() returns.                     *)
Packet == [d : Datagram, ver : {4, 6}, ihl : Nat, len : Nat, total_len : 0..U16Max,
           flags : SUBSET {"DF", "MF"}, off : 0..8191, from : Nat]

\* payload.len(): what the packet holds of the datagram
DataLen(p) == (IF p.total_len < p.len THEN p.total_len ELSE p.len) - p.ihl

(* p is an IPv4 packet that holds the whole payload of its datagram, with  *)
(* or without bytes after it.                                              *)
Whole(p) ==
  /\ p.ver = 4 /\ p.ihl >= 20
  /\ p.off = 0 /\ p.from = 0 /\ "MF" \notin p.flags
  /\ p.total_len = p.ihl + Size[p.d] /\ p.total_len <= p.len

ASSUME SizeAssumption == Size \in [Datagram -> Nat]
ASSUME InputAssumption == Input \subseteq Packet
ASSUME MtuAssumption == Mtu \in 0..U16Max /\ MaxPackets \in Nat

VARIABLES
  respect_df,        \* COCONET_RESPECT_DF, FALSE unless it is set
  rx,                \* the channel of packets to write
  pending,           \* frames of the packet at hand that are not written yet
  stopped,           \* a write failed, and the pump has returned
  received,          \* history: packets put into rx
  taken,             \* history: packets taken from rx
  written            \* history: frames written

vars == <<respect_df, rx, pending, stopped, received, taken, written>>

(* The types; and the frames that wait belong to one datagram, since a     *)
(* packet is written to its end before the next is taken.                  *)
TypeOK ==
  /\ respect_df \in BOOLEAN
  /\ rx \in Seq(Input)
  /\ pending \subseteq Packet /\ \A f, g \in pending : f.d = g.d
  /\ stopped \in BOOLEAN
  /\ received \in 0..MaxPackets
  /\ taken \subseteq Input
  /\ written \subseteq Packet

Init ==
  /\ respect_df \in BOOLEAN
  /\ rx = <<>> /\ pending = {} /\ stopped = FALSE
  /\ received = 0 /\ taken = {} /\ written = {}

-----------------------------------------------------------------------------
(* ipv4_fragment_if_needed.                                                *)

max_payload_unaligned(p) == Mtu - p.ihl                            \* mutant

max_payload_rounded_up(p) == 8 * ((Mtu - p.ihl + 7) \div 8)         \* mutant

max_payload(p) == 8 * ((Mtu - p.ihl) \div 8)

(* None of the early returns applies.                                      *)
Fragmentable(p) ==
  /\ p.ver = 4
  /\ p.len > 20 /\ p.ihl >= 20 /\ p.len >= p.ihl
  /\ p.len > Mtu
  /\ ~ ("DF" \in p.flags /\ respect_df)
  /\ Mtu > p.ihl /\ max_payload(p) # 0
  /\ p.total_len > p.ihl

Offsets_full_only(p) ==                                            \* mutant
  {o \in 0..DataLen(p) - 1 : o % max_payload(p) = 0 /\ o + max_payload(p) <= DataLen(p)}

Offsets(p) == {o \in 0..DataLen(p) - 1 : o % max_payload(p) = 0}

(* The fragment at offset o of the packet's payload.  Its flags and its    *)
(* offset are made anew: those of p are not looked at.                     *)
Fragment(p, o) ==
  LET remaining == DataLen(p) - o
      n == IF remaining > max_payload(p) THEN max_payload(p) ELSE remaining
  IN  [d |-> p.d, ver |-> 4, ihl |-> p.ihl,
       len |-> p.ihl + n, total_len |-> (p.ihl + n) % (U16Max + 1),
       flags |-> IF o + n < DataLen(p) THEN {"MF"} ELSE {},
       off |-> (o \div 8) % 8192, from |-> p.from + o]

Frames(p) ==
  IF Fragmentable(p) THEN {Fragment(p, o) : o \in Offsets(p)} ELSE {p}

-----------------------------------------------------------------------------
(* The pump.                                                               *)

(* The event loop sends a packet; sending fails once the pump is gone.     *)
Receive(p) ==
  /\ received < MaxPackets /\ ~ stopped
  /\ received' = received + 1
  /\ rx' = Append(rx, p)
  /\ UNCHANGED <<respect_df, pending, stopped, taken, written>>

Take_overlapping ==                                                \* mutant
  /\ ~ stopped /\ rx # <<>>
  /\ pending' = pending \cup Frames(Head(rx))
  /\ taken' = taken \cup {Head(rx)}
  /\ rx' = Tail(rx)
  /\ UNCHANGED <<respect_df, stopped, received, written>>

(* One round of the pump: the next packet, split if need be.               *)
Take ==
  /\ ~ stopped /\ pending = {} /\ rx # <<>>
  /\ pending' = Frames(Head(rx))
  /\ taken' = taken \cup {Head(rx)}
  /\ rx' = Tail(rx)
  /\ UNCHANGED <<respect_df, stopped, received, written>>

(* write_all, one await per frame, lowest offset first.                    *)
WriteFrame(f) ==
  /\ ~ stopped
  /\ f \in pending
  /\ \A g \in pending : f.from <= g.from
  /\ pending' = pending \ {f}
  /\ written' = written \cup {f}
  /\ UNCHANGED <<respect_df, rx, stopped, received, taken>>

(* write_all returns an error: the bridge is gone, and the pump returns.   *)
WriteFails ==
  /\ ~ stopped /\ pending # {}
  /\ stopped' = TRUE
  /\ UNCHANGED <<respect_df, rx, pending, received, taken, written>>

Next ==
  \/ \E p \in Input : Receive(p)
  \/ Take
  \/ \E f \in pending : WriteFrame(f)
  \/ WriteFails

Spec == Init /\ [][Next]_vars

-----------------------------------------------------------------------------
(* Reassembly, by RFC 791.                                                 *)

(* The frames of d a receiver takes: IPv4, and whole.                      *)
Accepted(d) ==
  {f \in written : f.d = d /\ f.ver = 4 /\ f.ihl >= 20 /\ f.total_len >= f.ihl
                           /\ f.total_len <= f.len}

Covers(f, pos) == 8 * f.off <= pos /\ pos < 8 * f.off + DataLen(f)

\* the payload bytes the receiver may put at pos
Bytes(d, pos) == {f.from + pos - 8 * f.off : f \in {g \in Accepted(d) : Covers(g, pos)}}

\* the lengths at which the receiver may find the datagram complete
Ends(d) ==
  {e \in {8 * f.off + DataLen(f) : f \in {g \in Accepted(d) : "MF" \notin g.flags}} :
     \A pos \in 0..e - 1 : Bytes(d, pos) # {}}

(* Whatever frames have come, of whatever packets and in whatever order: a *)
(* datagram the receiver finds complete is the one that was sent, with its *)
(* length, and with each byte at its place.                                *)
ReassembledAsSent ==
  \A d \in Datagram : \A e \in Ends(d) :
    /\ e = Size[d]
    /\ \A pos \in 0..e - 1 : Bytes(d, pos) = {pos}

(* Nothing is cut off at the end: once every frame of a packet that holds  *)
(* a whole datagram is written, the receiver finds it complete.            *)
NothingMissing ==
  \A p \in taken :
    Whole(p) /\ (\A f \in pending : f.d # p.d) => Ends(p.d) # {}

(* No fragment is over the MTU: a frame that is was received as it stands. *)
FragmentsFit == \A f \in written \cup pending : f.len > Mtu => f \in taken
=============================================================================
