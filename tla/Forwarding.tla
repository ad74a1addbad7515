----------------------------- MODULE Forwarding -----------------------------
(***************************************************************************)
(* What the outgoing data plane promises to the TUN device, without its    *)
(* channel, its batches and their limits: every packet goes out once, in   *)
(* the order of the device, to the mesh or to all the peers that are       *)
(* direct at that moment, and at last.  PacketBatch implements this        *)
(* (src/src/p2p.rs, lines 273 to 376).                                     *)
(***************************************************************************)
EXTENDS Integers, Sequences

CONSTANTS
  Peer,              \* the PeerIds of other nodes
  PktLen             \* the lengths of packets, in bytes

VARIABLES
  read,              \* the packets read from TUN
  sent,              \* the packets handed over, with their destination
  direct             \* the peers with a direct connection

fwdVars == <<read, sent, direct>>

Mesh == {}                                   \* the destination of a publish

Init == read = <<>> /\ sent = <<>> /\ direct = {}

Read(len) ==
  /\ read' = Append(read, [n |-> Len(read) + 1, len |-> len])
  /\ UNCHANGED <<sent, direct>>

Upgrade(p) ==
  /\ direct' = direct \cup {p}
  /\ UNCHANGED <<read, sent>>

(* Some of the packets that are next.                                      *)
HandOver ==
  /\ \E n \in 1..(Len(read) - Len(sent)) : \E to \in [1..n -> {Mesh, direct}] :
       sent' = sent \o [i \in 1..n |-> [pkt |-> read[Len(sent) + i], to |-> to[i]]]
  /\ UNCHANGED <<read, direct>>

Next ==
  \/ \E len \in PktLen : Read(len)
  \/ \E p \in Peer : Upgrade(p)
  \/ HandOver

Safety == Init /\ [][Next]_fwdVars

Spec == Safety /\ WF_fwdVars(HandOver)
=============================================================================
