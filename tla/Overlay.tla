------------------------------ MODULE Overlay ------------------------------
(***************************************************************************)
(* Batches between nodes: what flush_batch and the inbound handlers of     *)
(* src/src/p2p.rs (lines 329 to 346, 356 to 363, 378 to 400 and 550 to     *)
(* 579) make of a network that loses connections, requests and answers.    *)
(* PacketBatch says which packets are in a batch, BatchCodec how they are  *)
(* written, and EventLoop how a node comes to have direct peers.           *)
(*                                                                         *)
(* Of libp2p, request_response carries a request to one peer and its       *)
(* answer back, or reports a failure, at a timeout or when the connection  *)
(* goes; and gossipsub floods: a node that publishes sends to each of its  *)
(* neighbours, a node that gets a message for the first time passes it on. *)
(***************************************************************************)
EXTENDS Integers, Sequences

CONSTANTS
  Node,              \* the PeerIds
  MaxBatches         \* bound of the batches handed over

ASSUME MaxBatchesAssumption == MaxBatches \in Nat

VARIABLES
  linked,            \* the pairs of nodes with a connection between them
  direct_peers,      \* per node
  sent,              \* the batches handed over: [from, to], to = {} for the mesh
  wire,              \* requests on their way: <<batch, peer>>
  acks,              \* responses on their way back
  waiting,           \* requests the sender has not heard of
  acked, failed,     \* those of which it has heard, and how
  copies,            \* gossipsub messages on their way: [batch, from, to]
  seen,              \* per node: the MessageIds in gossipsub's duplicate cache
  refused,           \* batches that publish refused as duplicates
  tun                \* per node and batch: how often tx_to_tun was sent it

rrVars   == <<wire, acks, waiting, acked, failed>>
meshVars == <<copies, seen, refused>>
vars == <<linked, direct_peers, sent, rrVars, meshVars, tun>>

BatchNo == 1..MaxBatches
Request == BatchNo \X Node
Link    == {{n, m} : n, m \in Node} \ {{n} : n \in Node}

(* The id of a message is made of its source and its sequence number, and  *)
(* MessageAuthenticity::Anonymous leaves both out (p2p.rs 84 to 93).       *)
MessageId(b) == <<"no source", "no sequence number">>

(* The types; and a request is settled once, one way or the other.         *)
TypeOK ==
  /\ linked \subseteq Link
  /\ direct_peers \in [Node -> SUBSET Node]
  /\ sent \in Seq([from : Node, to : SUBSET Node]) /\ Len(sent) <= MaxBatches
  /\ wire \subseteq Request /\ acks \subseteq Request
  /\ waiting \subseteq Request /\ acked \subseteq Request /\ failed \subseteq Request
  /\ acked \cap failed = {}
  /\ copies \subseteq [batch : BatchNo, from : Node, to : Node]
  /\ seen \in [Node -> SUBSET {MessageId(b) : b \in BatchNo}]
  /\ refused \subseteq BatchNo
  /\ tun \in [Node -> [BatchNo -> Nat]]

Init ==
  /\ linked = {} /\ direct_peers = [n \in Node |-> {}]
  /\ sent = <<>>
  /\ wire = {} /\ acks = {} /\ waiting = {} /\ acked = {} /\ failed = {}
  /\ copies = {} /\ seen = [n \in Node |-> {}] /\ refused = {}
  /\ tun = [n \in Node |-> [b \in BatchNo |-> 0]]

-----------------------------------------------------------------------------
Neighbours(n) == {m \in Node : {n, m} \in linked}

CopiesFrom(n, b, peers) == {[batch |-> b, from |-> n, to |-> m] : m \in peers}

Delivered(n, b) == tun' = [tun EXCEPT ![n][b] = @ + 1]

Joined(x) == {sent[x[1]].from, x[2]} \in linked

-----------------------------------------------------------------------------
(* Connections.                                                            *)

Connect(link) ==
  /\ linked' = linked \cup {link}
  /\ UNCHANGED <<direct_peers, sent, rrVars, meshVars, tun>>

(* ConnectionEstablished at node n, for a direct connection.               *)
SeesDirect(n, m) ==
  /\ {n, m} \in linked /\ n # m
  /\ direct_peers' = [direct_peers EXCEPT ![n] = @ \cup {m}]
  /\ UNCHANGED <<linked, sent, rrVars, meshVars, tun>>

(* A connection goes, with all that is on it.  direct_peers stays.         *)
Disconnect(link) ==
  /\ linked' = linked \ {link}
  /\ wire' = {x \in wire : {sent[x[1]].from, x[2]} # link}
  /\ acks' = {x \in acks : {sent[x[1]].from, x[2]} # link}
  /\ copies' = {c \in copies : {c.from, c.to} # link}
  /\ UNCHANGED <<direct_peers, sent, waiting, acked, failed, seen, refused, tun>>

-----------------------------------------------------------------------------
(* Sending.                                                                *)

(* gsub.publish: refused as a duplicate, failed for want of peers, or sent *)
(* to the neighbours.                                                      *)
Publish(n, b) ==
  \/ /\ MessageId(b) \in seen[n]
     /\ refused' = refused \cup {b}
     /\ UNCHANGED <<copies, seen>>
  \/ /\ MessageId(b) \notin seen[n] /\ Neighbours(n) = {}
     /\ UNCHANGED meshVars
  \/ /\ MessageId(b) \notin seen[n] /\ Neighbours(n) # {}
     /\ copies' = copies \cup CopiesFrom(n, b, Neighbours(n))
     /\ seen' = [seen EXCEPT ![n] = @ \cup {MessageId(b)}]
     /\ UNCHANGED refused

(* flush_batch of a batch, or a large packet by itself: a request to each  *)
(* direct peer, or one publish if there is none or the packet is large.    *)
HandOver(n, is_large) ==
  LET b == Len(sent) + 1
      to == IF is_large THEN {} ELSE direct_peers[n]
  IN  /\ b <= MaxBatches
      /\ sent' = Append(sent, [from |-> n, to |-> to])
      /\ wire' = wire \cup ({b} \X to) /\ waiting' = waiting \cup ({b} \X to)
      /\ IF to = {} THEN Publish(n, b) ELSE UNCHANGED meshVars
      /\ UNCHANGED <<linked, direct_peers, acks, acked, failed, tun>>

-----------------------------------------------------------------------------
(* Receiving.                                                              *)

(* gossipsub drops a message whose id it has seen; any other it passes on  *)
(* and gives to the loop, which sends it to TUN: message.source is None,   *)
(* so the loop's test for a message of its own never holds.                *)
GossipMessage(c) ==
  /\ c \in copies
  /\ \/ /\ MessageId(c.batch) \in seen[c.to]
        /\ copies' = copies \ {c}
        /\ UNCHANGED <<seen, tun>>
     \/ /\ MessageId(c.batch) \notin seen[c.to]
        /\ copies' = (copies \ {c}) \cup CopiesFrom(c.to, c.batch, Neighbours(c.to) \ {c.from})
        /\ seen' = [seen EXCEPT ![c.to] = @ \cup {MessageId(c.batch)}]
        /\ Delivered(c.to, c.batch)
  /\ UNCHANGED <<linked, direct_peers, sent, rrVars, refused>>

(* An id leaves the duplicate cache a minute after it came, long after the *)
(* last copy has arrived.                                                  *)
Forget(n) ==
  /\ copies = {}
  /\ seen[n] # {}
  /\ seen' = [seen EXCEPT ![n] = {}]
  /\ UNCHANGED <<linked, direct_peers, sent, rrVars, copies, refused, tun>>

RrRequest_acks_unread(x) ==                                        \* mutant
  /\ x \in wire /\ Joined(x)
  /\ wire' = wire \ {x}
  /\ acks' = acks \cup {x}
  /\ UNCHANGED tun
  /\ UNCHANGED <<linked, direct_peers, sent, waiting, acked, failed, meshVars>>

(* RrMessage::Request: the packets are sent to TUN, then the request is    *)
(* acknowledged, whether or not anyone reads them there.                   *)
RrRequest(x) ==
  /\ x \in wire /\ Joined(x)
  /\ wire' = wire \ {x}
  /\ Delivered(x[2], x[1])
  /\ acks' = acks \cup {x}
  /\ UNCHANGED <<linked, direct_peers, sent, waiting, acked, failed, meshVars>>

(* RrMessage::Response: ignored.                                           *)
RrResponse(x) ==
  /\ x \in acks \cap waiting /\ Joined(x)
  /\ acks' = acks \ {x}
  /\ waiting' = waiting \ {x}
  /\ acked' = acked \cup {x}
  /\ UNCHANGED <<linked, direct_peers, sent, wire, failed, meshVars, tun>>

OutboundFailure_resends(x) ==                                      \* mutant
  /\ x \in waiting
  /\ wire' = wire \cup {x}
  /\ UNCHANGED <<linked, direct_peers, sent, waiting, acks, acked, failed, meshVars, tun>>

OutboundFailure_repeated(x) ==                                     \* mutant
  /\ x \in waiting \cup acked
  /\ waiting' = waiting \ {x}
  /\ failed' = failed \cup {x}
  /\ wire' = IF Joined(x) THEN wire ELSE wire \ {x}
  /\ UNCHANGED <<linked, direct_peers, sent, acks, acked, meshVars, tun>>

OutboundFailure_to_mesh(x) ==                                      \* mutant
  /\ x \in waiting
  /\ waiting' = waiting \ {x}
  /\ failed' = failed \cup {x}
  /\ wire' = wire \ {x}
  /\ Publish(sent[x[1]].from, x[1])
  /\ UNCHANGED <<linked, direct_peers, sent, acks, acked, tun>>

(* RrEvent::OutboundFailure, logged and no more: the peer could not be     *)
(* reached, or did not answer in time, and may yet get the request, or     *)
(* have got it.                                                            *)
OutboundFailure(x) ==
  /\ x \in waiting
  /\ waiting' = waiting \ {x}
  /\ failed' = failed \cup {x}
  /\ wire' = IF Joined(x) THEN wire ELSE wire \ {x}
  /\ UNCHANGED <<linked, direct_peers, sent, acks, acked, meshVars, tun>>

Next ==
  \/ \E link \in Link \ linked : Connect(link)
  \/ \E n, m \in Node : SeesDirect(n, m)
  \/ \E link \in linked : Disconnect(link)
  \/ \E n \in Node, is_large \in BOOLEAN : HandOver(n, is_large)
  \/ \E c \in copies : GossipMessage(c)
  \/ \E n \in Node : Forget(n)
  \/ \E x \in Request : RrRequest(x) \/ RrResponse(x) \/ OutboundFailure(x)

Spec == Init /\ [][Next]_vars

-----------------------------------------------------------------------------
(* A batch gets to the TUN device of each other node at most once, and     *)
(* never to its sender's, though the mesh brings copies along every path,  *)
(* a node turns to requests while they are under way, and a request that   *)
(* is reported as failed may have arrived.                                 *)
DeliveredOnce ==
  \A n \in Node, b \in 1..Len(sent) :
    tun[n][b] <= (IF n = sent[b].from THEN 0 ELSE 1)

(* No batch is lost in silence on the direct path: each peer it was for    *)
(* has it, or the sender still waits, or has been told of a failure; and   *)
(* what was acknowledged has been sent to TUN.                             *)
LossIsReported ==
  /\ \A b \in 1..Len(sent) : \A m \in sent[b].to :
       tun[m][b] > 0 \/ <<b, m>> \in waiting \cup failed
  /\ \A x \in acked : tun[x[2]][x[1]] > 0

(* Seen from the TUN devices, requests and messages are one service: they  *)
(* lose batches, but give none to a node it is not for, though direct      *)
(* peers change while batches are under way, and report each request once. *)
Service == INSTANCE Datagrams WITH got <- tun, open <- waiting

ImplementsDatagrams == Service!Spec

(* README.md 26: what is read from TUN goes to the mesh as a message of    *)
(* its own.  So no batch is taken for one that was published before.       *)
NoneTakenForAnother == refused = {}
=============================================================================
