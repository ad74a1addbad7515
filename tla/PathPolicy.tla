----------------------------- MODULE PathPolicy -----------------------------
(***************************************************************************)
(* What the event loop promises about the paths to its peers, without its  *)
(* books: a peer is upgraded by its first direct connection; at that       *)
(* instant every relayed connection to it is on its way out, and so is     *)
(* each one that comes later.  EventLoop implements this with              *)
(* direct_peers, relayed_conns and close_connection (src/src/p2p.rs, lines *)
(* 616 to 650).                                                            *)
(***************************************************************************)

CONSTANTS
  Peer,              \* the PeerIds of other nodes
  ConnId             \* ConnectionIds; libp2p never gives one out twice

VARIABLES
  direct,            \* direct connections: [id, peer]
  relayed,           \* relayed connections that may stay
  leaving,           \* connections to be closed
  upgraded,          \* peers that have had a direct connection
  given              \* ConnectionIds given out so far

pathVars == <<direct, relayed, leaving, upgraded, given>>

Link == [id : ConnId, peer : Peer]

Init == direct = {} /\ relayed = {} /\ leaving = {} /\ upgraded = {} /\ given = {}

Fresh(id) == id \notin given /\ given' = given \cup {id}

(* A relayed connection stays only if the peer has not been upgraded.      *)
RelayedUp(link) ==
  /\ Fresh(link.id)
  /\ \/ /\ link.peer \notin upgraded
        /\ relayed' = relayed \cup {link}
        /\ UNCHANGED leaving
     \/ /\ link.peer \in upgraded
        /\ leaving' = leaving \cup {link}
        /\ UNCHANGED relayed
  /\ UNCHANGED <<direct, upgraded>>

(* A direct connection upgrades its peer, and all relayed ones must go.    *)
DirectUp(link) ==
  LET surplus == {l \in relayed : l.peer = link.peer}
  IN  /\ Fresh(link.id)
      /\ direct' = direct \cup {link}
      /\ upgraded' = upgraded \cup {link.peer}
      /\ relayed' = relayed \ surplus
      /\ leaving' = leaving \cup surplus

(* Any connection may be lost at any time.                                 *)
Lost(link) ==
  /\ link \in direct \cup relayed \cup leaving
  /\ direct' = direct \ {link}
  /\ relayed' = relayed \ {link}
  /\ leaving' = leaving \ {link}
  /\ UNCHANGED <<upgraded, given>>

Next == \E link \in Link : RelayedUp(link) \/ DirectUp(link) \/ Lost(link)

Leave(link) == link \in leaving /\ Lost(link)

Safety == Init /\ [][Next]_pathVars

Spec == Safety /\ \A link \in Link : WF_pathVars(Leave(link))
=============================================================================
