---------------------------- MODULE PacketBatch ----------------------------
(***************************************************************************)
(* The outgoing half of the data plane: packets read from the TUN device   *)
(* wait in the channel rx_from_tun, are gathered by BatchBuilder, and are  *)
(* handed over in batches, to the gossipsub mesh while no peer is direct   *)
(* and to every direct peer once one is (src/src/p2p.rs, lines 273 to 376).*)
(* A packet of more than half a batch is handed to the mesh by itself.     *)
(*                                                                         *)
(* What becomes of a message after it is handed over is not modelled here: *)
(* publish and send_request may fail, which the code only logs.            *)
(***************************************************************************)
EXTENDS Integers, Sequences

CONSTANTS
  Peer,              \* the PeerIds of other nodes
  PktLen,            \* the lengths of packets, in bytes
  MaxBatchBytes,     \* max_batch_bytes
  MaxBatchPkts,      \* max_batch_pkts
  U16Max,            \* u16::MAX, the most packets a batch can count
  MaxPackets         \* bound of the packets read from TUN

(* Both limits come from the environment and may be any number.            *)
ASSUME BatchAssumption ==
  /\ MaxBatchBytes \in Nat
  /\ MaxBatchPkts \in Nat
  /\ U16Max \in Nat \ {0}
ASSUME PktLenAssumption == PktLen \subseteq Nat
ASSUME MaxPacketsAssumption == MaxPackets \in Nat

VARIABLES
  rx_from_tun,       \* the channel
  batch,             \* BatchBuilder: the packets in buf, in order
  payload,           \* payload_size(): bytes in buf after the header
  direct_peers,
  input,             \* history: the packets read from TUN
  out                \* history: the packets handed over, with their destination

vars == <<rx_from_tun, batch, payload, direct_peers, input, out>>

Mesh      == {}                              \* the destination of a publish
Packet    == [n : Nat, len : PktLen]
HandedOver == [pkt : Packet, to : SUBSET Peer]

(* The types; and the buffer holds bytes exactly when the count, by which  *)
(* is_empty() goes, is not 0.                                              *)
TypeOK ==
  /\ rx_from_tun \in Seq(Packet)
  /\ batch \in Seq(Packet)
  /\ payload \in Nat
  /\ (payload = 0) = (batch = <<>>)
  /\ direct_peers \subseteq Peer
  /\ input \in Seq(Packet)
  /\ out \in Seq(HandedOver)

Init ==
  /\ rx_from_tun = <<>> /\ batch = <<>> /\ payload = 0
  /\ direct_peers = {}
  /\ input = <<>> /\ out = <<>>

-----------------------------------------------------------------------------
\* pkts, each with its destination
Addressed(pkts, to) == [i \in 1..Len(pkts) |-> [pkt |-> pkts[i], to |-> to]]

IsLarge(pkt) == pkt.len > MaxBatchBytes \div 2

BatchFull_pkts_only(pkt) == Len(batch) >= MaxBatchPkts             \* mutant

BatchFull(pkt) ==
  \/ Len(batch) >= MaxBatchPkts
  \/ payload + pkt.len + 2 >= MaxBatchBytes

Flushed_to_one ==                                                  \* mutant
  out \o Addressed(batch, {p \in direct_peers : p = CHOOSE q \in direct_peers : TRUE})

(* flush_batch: hand the batch over, and leave the builder empty.          *)
Flushed == out \o Addressed(batch, direct_peers)

(* A packet written by pump_tun_to_p2p to the channel.                     *)
PacketRead(len) ==
  /\ Len(input) < MaxPackets
  /\ LET pkt == [n |-> Len(input) + 1, len |-> len]
     IN  /\ rx_from_tun' = Append(rx_from_tun, pkt)
         /\ input' = Append(input, pkt)
  /\ UNCHANGED <<batch, payload, direct_peers, out>>

IntervalTick_when_full ==                                          \* mutant
  /\ Len(batch) >= MaxBatchPkts
  /\ out' = Flushed
  /\ batch' = <<>> /\ payload' = 0
  /\ UNCHANGED <<rx_from_tun, direct_peers, input>>

IntervalTick_keeps_buf ==                                          \* mutant
  /\ out' = Flushed
  /\ batch' = <<>>
  /\ UNCHANGED <<rx_from_tun, payload, direct_peers, input>>

(* The interval.tick() arm.                                                *)
IntervalTick ==
  /\ out' = Flushed
  /\ batch' = <<>> /\ payload' = 0
  /\ UNCHANGED <<rx_from_tun, direct_peers, input>>

TakeLarge_unflushed ==                                             \* mutant
  /\ rx_from_tun # <<>>
  /\ IsLarge(Head(rx_from_tun))
  /\ rx_from_tun' = Tail(rx_from_tun)
  /\ out' = out \o Addressed(<<Head(rx_from_tun)>>, Mesh)
  /\ UNCHANGED <<batch, payload, direct_peers, input>>

(* The rx_from_tun.recv() arm, for a large packet: what was gathered       *)
(* before it is handed over before it.                                     *)
TakeLarge ==
  /\ rx_from_tun # <<>>
  /\ IsLarge(Head(rx_from_tun))
  /\ rx_from_tun' = Tail(rx_from_tun)
  /\ out' = Flushed \o Addressed(<<Head(rx_from_tun)>>, Mesh)
  /\ batch' = <<>> /\ payload' = 0
  /\ UNCHANGED <<direct_peers, input>>

(* The rx_from_tun.recv() arm, for any other packet: flush if it does not  *)
(* fit, then add it.  add refuses it when the count is at its limit.       *)
TakeSmall ==
  /\ rx_from_tun # <<>>
  /\ LET pkt == Head(rx_from_tun)
         flush == BatchFull(pkt)
         kept == IF flush THEN <<>> ELSE batch
         size == IF flush THEN 0 ELSE payload
         added == Len(kept) # U16Max
     IN  /\ ~ IsLarge(pkt)
         /\ out' = IF flush THEN Flushed ELSE out
         /\ batch' = IF added THEN Append(kept, pkt) ELSE kept
         /\ payload' = IF added THEN size + 2 + pkt.len ELSE size
  /\ rx_from_tun' = Tail(rx_from_tun)
  /\ UNCHANGED <<direct_peers, input>>

(* ConnectionEstablished of a direct connection, as far as the data plane  *)
(* sees it: EventLoop has it in full.  No other event changes direct_peers.*)
Connect(p) ==
  /\ direct_peers' = direct_peers \cup {p}
  /\ UNCHANGED <<rx_from_tun, batch, payload, input, out>>

Next ==
  \/ \E len \in PktLen : PacketRead(len)
  \/ IntervalTick
  \/ TakeLarge
  \/ TakeSmall
  \/ \E p \in Peer : Connect(p)

Spec == Init /\ [][Next]_vars

(* select! polls its ready arms in random order, so an arm that stays      *)
(* ready runs: a tick that is due, a packet that waits.                    *)
Fairness ==
  /\ WF_vars(IntervalTick)
  /\ WF_vars(TakeLarge \/ TakeSmall)

FairSpec == Spec /\ Fairness

-----------------------------------------------------------------------------
Packets(entries) == [i \in 1..Len(entries) |-> entries[i].pkt]

(* Limits that fit: a packet of at most half the bytes, with its length,   *)
(* stays below the first; a batch's u16 can count up to the second.        *)
BytesFit  == MaxBatchBytes >= 5
CountFits == MaxBatchPkts <= U16Max

(* Every packet read from TUN is handed over at most once, none is skipped *)
(* and none overtakes another, though large packets go past the batch and  *)
(* three arms of the loop flush it: what was handed over, what is gathered *)
(* and what waits make up what was read.  (Given CountFits: without it add *)
(* refuses a packet when the count is at U16Max, p2p.rs 299, line 368 does *)
(* not look at what add returns, and the packet is lost.)                  *)
HandedOverInOrder == Packets(out) \o batch \o rx_from_tun = input

(* A batch never reaches MaxBatchBytes of payload, and holds no more than  *)
(* MaxBatchPkts packets, nor more than its u16 can count; one packet may   *)
(* be added even when MaxBatchPkts is 0.  (Given BytesFit.)                *)
BatchWithinLimits ==
  /\ payload < MaxBatchBytes
  /\ Len(batch) <= MaxBatchPkts \/ Len(batch) = 1
  /\ Len(batch) <= U16Max

(* No packet stays behind in a batch that nothing fills: each one read is  *)
(* handed over at last.  (Given CountFits.)                                *)
EventuallyHandedOver ==
  \A n \in 1..MaxPackets : (Len(input) >= n) ~> (Len(out) >= n)

(* Seen from outside, with what waits in the channel and in the batch      *)
(* hidden, the data plane only ever forwards the packets that are next, to *)
(* the mesh or to all of the direct peers of that moment.  (CountFits.)    *)
Forward == INSTANCE Forwarding WITH read <- input, sent <- out, direct <- direct_peers

ImplementsForwarding == Forward!Spec
=============================================================================
