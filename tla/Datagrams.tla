----------------------------- MODULE Datagrams -----------------------------
(***************************************************************************)
(* What a batch may count on between two TUN devices, without connections, *)
(* requests, gossipsub and its cache: it may be lost, but it gets to each  *)
(* node it is for once at most, and to no other; and the sender is told at *)
(* most once of each peer it names, with success only after delivery.      *)
(* Overlay implements this (src/src/p2p.rs, lines 329 to 346, 378 to 400   *)
(* and 550 to 579).                                                        *)
(***************************************************************************)
EXTENDS Integers, Sequences

CONSTANTS
  Node,              \* the PeerIds
  MaxBatches         \* bound of the batches sent

VARIABLES
  sent,              \* the batches: [from, to], to = {} for all other nodes
  got,               \* per node and batch: how often it has come
  open,              \* pairs <<batch, peer>> of which the sender hears yet
  acked, failed      \* those of which it has heard

dataVars == <<sent, got, open, acked, failed>>

Init ==
  /\ sent = <<>> /\ got = [n \in Node |-> [b \in 1..MaxBatches |-> 0]]
  /\ open = {} /\ acked = {} /\ failed = {}

Send ==
  /\ Len(sent) < MaxBatches
  /\ UNCHANGED <<got, acked, failed>>
  /\ \E n \in Node : \E to \in SUBSET (Node \ {n}) :
       /\ sent' = Append(sent, [from |-> n, to |-> to])
       /\ open' = open \cup ({Len(sent) + 1} \X to)

IsFor(b, n) == n # sent[b].from /\ (sent[b].to = {} \/ n \in sent[b].to)

Deliver ==
  /\ UNCHANGED <<sent, open, acked, failed>>
  /\ \E b \in 1..Len(sent), n \in Node :
       IsFor(b, n) /\ got[n][b] = 0 /\ got' = [got EXCEPT ![n][b] = 1]

Confirm ==
  /\ UNCHANGED <<sent, got, failed>>
  /\ \E x \in open :
       got[x[2]][x[1]] = 1 /\ open' = open \ {x} /\ acked' = acked \cup {x}

GiveUp ==
  /\ UNCHANGED <<sent, got, acked>>
  /\ \E x \in open : open' = open \ {x} /\ failed' = failed \cup {x}

Next == Send \/ Deliver \/ Confirm \/ GiveUp

Spec == Init /\ [][Next]_dataVars
=============================================================================
