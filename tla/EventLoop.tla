----------------------------- MODULE EventLoop -----------------------------
(***************************************************************************)
(* The control plane of one node: the swarm-event arm of the select! loop  *)
(* that P2pNode::new spawns (src/src/p2p.rs, lines 166 to 655).  One       *)
(* action per event handler; the loop runs one handler at a time, to its   *)
(* end, so a handler is one step.                                          *)
(*                                                                         *)
(* libp2p's Swarm is external.  It is modelled by the connections that are *)
(* open, the close requests it was given, and the addresses it was told;   *)
(* it establishes and loses connections, and delivers events, at will.     *)
(* Batches of packets, the other arms of the loop, are in PacketBatch.     *)
(***************************************************************************)
EXTENDS Multiaddr

CONSTANTS
  Local,             \* local_peer
  Peer,              \* the PeerIds of other nodes
  ConnId,            \* ConnectionIds; libp2p never gives one out twice
  Addr,              \* every multiaddr that occurs
  IdentifyInfo,      \* what identify may report: [listen_addrs, observed_addr]
  AnnounceAddrs,     \* the sets of addresses an announce message may carry
  MdnsAddr,          \* the addresses mDNS may discover
  OwnAddr,           \* the addresses the swarm may report for this node
  DialCooldown,      \* dial_cooldown, in ticks of now
  AnnounceCooldown,  \* announce_cooldown, in ticks of now
  MaxTime            \* bound of now

AnyPeer == Peer \cup {Local}

ASSUME LocalAssumption == Local \notin Peer
ASSUME CooldownAssumption ==
  /\ DialCooldown \in Nat \ {0}
  /\ AnnounceCooldown \in Nat \ {0}
  /\ MaxTime \in Nat
ASSUME AddrAssumption ==
  /\ MdnsAddr \subseteq Addr
  /\ OwnAddr \subseteq Addr
  /\ AnnounceAddrs \subseteq SUBSET Addr
  /\ IdentifyInfo \subseteq [listen_addrs : SUBSET Addr, observed_addr : Addr]
  /\ \A a \in Addr : rebuild_udp_quic(a) \subseteq Addr /\ identify_target(a) \subseteq Addr

VARIABLES
  \* the swarm
  now,               \* the clock Instant::now() reads
  open,              \* established connections: [id, peer, relayed]
  used,              \* ConnectionIds given out so far
  closing,           \* open connections close_connection was called on, by id
  external_addrs,    \* add_external_address
  kad_addrs,         \* kad.add_address, per peer
  \* the loop's local variables
  relayed_conns,     \* per peer; an absent entry is {}
  direct_peers,
  recent_dials,      \* per peer and address; an absent entry is Never
  my_addrs,
  last_announce,
  announced_once,
  kad_bootstrapped,
  \* history, read by properties only
  dials,             \* instants of the dials under the cooldown, per peer and address
  announced          \* the announce messages gossipsub took: [at, addrs]

connVars == <<open, used, closing, relayed_conns, direct_peers>>
dialVars == <<recent_dials, dials>>
addrVars == <<external_addrs, my_addrs>>
annVars  == <<last_announce, announced>>
kadVars  == <<kad_addrs, kad_bootstrapped>>
vars == <<now, connVars, dialVars, addrVars, annVars, announced_once, kadVars>>

Never == -1                                  \* None, for an Option<Instant>
Time  == 0..MaxTime
Conn  == [id : ConnId, peer : Peer, relayed : BOOLEAN]

(* The types of the state; and only connections that are open are closing. *)
TypeOK ==
  /\ now \in Time
  /\ open \subseteq Conn
  /\ used \subseteq ConnId
  /\ closing \subseteq {c.id : c \in open}
  /\ external_addrs \subseteq Addr
  /\ kad_addrs \in [AnyPeer -> SUBSET Addr]
  /\ relayed_conns \in [Peer -> SUBSET ConnId]
  /\ direct_peers \subseteq Peer
  /\ recent_dials \in [AnyPeer -> [Addr -> Time \cup {Never}]]
  /\ my_addrs \subseteq Addr
  /\ last_announce \in Time \cup {Never}
  /\ announced_once \in BOOLEAN
  /\ kad_bootstrapped \in BOOLEAN
  /\ dials \in [AnyPeer -> [Addr -> Seq(Time)]]
  /\ announced \in Seq([at : Time, addrs : SUBSET Addr])

Init ==
  /\ now = 0
  /\ open = {} /\ used = {} /\ closing = {}
  /\ external_addrs = {} /\ my_addrs = {}
  /\ kad_addrs = [p \in AnyPeer |-> {}]
  /\ relayed_conns = [p \in Peer |-> {}]
  /\ direct_peers = {}
  /\ recent_dials = [p \in AnyPeer |-> [a \in Addr |-> Never]]
  /\ last_announce = Never
  /\ announced_once = FALSE
  /\ kad_bootstrapped = FALSE
  /\ dials = [p \in AnyPeer |-> [a \in Addr |-> <<>>]]
  /\ announced = <<>>

-----------------------------------------------------------------------------
(* Helpers of the handlers.                                                *)

AnnounceDue_early ==                                               \* mutant
  last_announce = Never \/ now - last_announce >= AnnounceCooldown - 1

AnnounceDue == last_announce = Never \/ now - last_announce >= AnnounceCooldown

(* publish_announce: nothing during the cooldown or without a public       *)
(* address; last_announce moves only when gossipsub's publish returns Ok,  *)
(* which it need not do.  mine is my_addrs as the caller has just left it. *)
publish_announce(mine) ==
  LET addrs == {a \in mine : is_public_udp_quic(a)}
  IN  \/ /\ AnnounceDue
         /\ addrs # {}
         /\ last_announce' = now
         /\ announced' = Append(announced, [at |-> now, addrs |-> addrs])
      \/ UNCHANGED annVars

Cooling(p, a) ==
  /\ recent_dials[p][a] # Never
  /\ now - recent_dials[p][a] < DialCooldown

(* Dial those of the targets that are not cooling down, and stamp them.    *)
(* An address listed twice is stamped at its first occurrence and cooling  *)
(* down at the second.  known is recent_dials as the caller has left it.   *)
Fresh(p, targets) == {a \in targets : ~ Cooling(p, a)}

dial_fresh_sliding(p, targets, known) ==                           \* mutant
  LET fresh == Fresh(p, targets)
  IN  /\ recent_dials' = [known EXCEPT
           ![p] = [a \in Addr |-> IF a \in targets THEN now ELSE known[p][a]]]
      /\ dials' = [dials EXCEPT
           ![p] = [a \in Addr |-> IF a \in fresh THEN Append(dials[p][a], now)
                                                 ELSE dials[p][a]]]

dial_fresh(p, targets, known) ==
  LET fresh == Fresh(p, targets)
  IN  /\ recent_dials' = [known EXCEPT
           ![p] = [a \in Addr |-> IF a \in fresh THEN now ELSE known[p][a]]]
      /\ dials' = [dials EXCEPT
           ![p] = [a \in Addr |-> IF a \in fresh THEN Append(dials[p][a], now)
                                                 ELSE dials[p][a]]]

retained_inverted(p) ==                                            \* mutant
  [recent_dials EXCEPT
     ![p] = [a \in Addr |-> IF Cooling(p, a) THEN Never ELSE recent_dials[p][a]]]

(* map.retain: forget the dials of p whose cooldown is over.               *)
retained(p) ==
  [recent_dials EXCEPT
     ![p] = [a \in Addr |-> IF Cooling(p, a) THEN recent_dials[p][a] ELSE Never]]

(* What the Identify handler dials for a peer that lists addrs: nothing    *)
(* once the peer is direct.                                                *)
identify_targets(p, addrs) ==
  IF p \in direct_peers THEN {} ELSE UNION {identify_target(a) : a \in addrs}

Connected(p) == \E c \in open : c.peer = p

surplus_last(p) ==                                                 \* mutant
  LET ids == {c.id : c \in {d \in open : d.id \in relayed_conns[p]}}
  IN  IF ids = {} THEN {} ELSE {CHOOSE id \in ids : TRUE}

surplus_of_peer(p) ==                                              \* mutant
  {c.id : c \in {d \in open : d.peer = p}}

surplus_of_all(p) ==                                               \* mutant
  {c.id : c \in {d \in open : \E q \in Peer : d.id \in relayed_conns[q]}}

surplus_gone(p) == relayed_conns[p]                                \* mutant

(* The connections close_connection closes when relayed_conns[p] is        *)
(* drained: it does nothing on an id that is gone.                         *)
surplus(p) == {c.id : c \in {d \in open : d.id \in relayed_conns[p]}}

-----------------------------------------------------------------------------
(* The handlers.                                                           *)

(* SwarmEvent::ConnectionEstablished                                       *)
ConnectionEstablished(p, id, is_relayed) ==
  /\ id \notin used
  /\ used' = used \cup {id}
  /\ open' = open \cup {[id |-> id, peer |-> p, relayed |-> is_relayed]}
  /\ announced_once' = TRUE
  /\ IF announced_once THEN UNCHANGED annVars ELSE publish_announce(my_addrs)
  /\ \/ /\ is_relayed /\ p \in direct_peers
        /\ closing' = closing \cup {id}
        /\ UNCHANGED <<relayed_conns, direct_peers>>
     \/ /\ is_relayed /\ p \notin direct_peers
        /\ relayed_conns' = [relayed_conns EXCEPT ![p] = @ \cup {id}]
        /\ UNCHANGED <<closing, direct_peers>>
     \/ /\ ~ is_relayed
        /\ direct_peers' = direct_peers \cup {p}
        /\ closing' = closing \cup surplus(p)
        /\ relayed_conns' = [relayed_conns EXCEPT ![p] = {}]
  /\ UNCHANGED <<now, dialVars, addrVars, kadVars>>

(* SwarmEvent::ConnectionClosed is only logged.  The connection went away  *)
(* by itself or because the loop asked for it.                             *)
ConnectionClosed(c) ==
  /\ c \in open
  /\ open' = open \ {c}
  /\ closing' = closing \ {c.id}
  /\ UNCHANGED <<now, used, relayed_conns, direct_peers, dialVars, addrVars,
                 annVars, announced_once, kadVars>>

(* identify::Event::Received.  bootstrap() fails only on an empty routing  *)
(* table; kad may hold peers it learned by itself.                         *)
IdentifyReceived(p, info) ==
  /\ Connected(p)
  /\ dial_fresh(p, identify_targets(p, info.listen_addrs), retained(p))
  /\ kad_addrs' = [kad_addrs EXCEPT ![p] = @ \cup info.listen_addrs]
  /\ external_addrs' = external_addrs \cup {info.observed_addr}
  /\ publish_announce(my_addrs)
  /\ \/ kad_bootstrapped' = TRUE
     \/ /\ \A q \in AnyPeer : kad_addrs'[q] = {}
        /\ UNCHANGED kad_bootstrapped
  /\ UNCHANGED <<now, connVars, my_addrs, announced_once>>

(* gossipsub::Event::Message on coconet/announce, from a message that      *)
(* parses.  It is dialled whether or not p is direct already.              *)
AnnounceMessage(p, addrs) ==
  LET targets == {a \in addrs : is_public_udp_quic(a)}
  IN  /\ p # Local
      /\ dial_fresh(p, targets, recent_dials)
      /\ kad_addrs' = [kad_addrs EXCEPT ![p] = @ \cup Fresh(p, targets)]
      /\ UNCHANGED <<now, connVars, addrVars, annVars, announced_once, kad_bootstrapped>>

(* mdns::Event::Discovered: every address of the list is dialled, private  *)
(* or not, and recent_dials is neither read nor written.                   *)
MdnsDiscovered(list) ==
  /\ kad_addrs' = [p \in AnyPeer |->
                     kad_addrs[p] \cup {x[2] : x \in {y \in list : y[1] = p}}]
  /\ UNCHANGED <<now, connVars, dialVars, addrVars, annVars, announced_once,
                 kad_bootstrapped>>

(* SwarmEvent::NewListenAddr.  The UPnP task it spawns shares no state     *)
(* with the loop.                                                          *)
NewListenAddr(a) ==
  /\ external_addrs' = external_addrs \cup {a}
  /\ my_addrs' = my_addrs \cup announceable(a)
  /\ publish_announce(my_addrs')
  /\ UNCHANGED <<now, connVars, dialVars, announced_once, kadVars>>

(* SwarmEvent::ExternalAddrConfirmed.  The events that take addresses away *)
(* (ExternalAddrExpired, ListenerClosed) are only logged.                  *)
ExternalAddrConfirmed(a) ==
  /\ my_addrs' = my_addrs \cup announceable(a)
  /\ publish_announce(my_addrs')
  /\ UNCHANGED <<now, connVars, dialVars, external_addrs, announced_once, kadVars>>

(* NetBehaviourEvent::Autonat                                              *)
AutonatEvent ==
  /\ publish_announce(my_addrs)
  /\ UNCHANGED <<now, connVars, dialVars, addrVars, announced_once, kadVars>>

Tick ==
  /\ now < MaxTime
  /\ now' = now + 1
  /\ UNCHANGED <<connVars, dialVars, addrVars, annVars, announced_once, kadVars>>

Next ==
  \/ \E p \in Peer, id \in ConnId, r \in BOOLEAN : ConnectionEstablished(p, id, r)
  \/ \E c \in open : ConnectionClosed(c)
  \/ \E p \in Peer, info \in IdentifyInfo : IdentifyReceived(p, info)
  \/ \E p \in AnyPeer, addrs \in AnnounceAddrs : AnnounceMessage(p, addrs)
  \/ \E list \in SUBSET (Peer \X MdnsAddr) \ {{}} : MdnsDiscovered(list)
  \/ \E a \in OwnAddr : NewListenAddr(a) \/ ExternalAddrConfirmed(a)
  \/ AutonatEvent
  \/ Tick

Spec == Init /\ [][Next]_vars

(* The swarm carries out every close request, and time passes.  Nothing    *)
(* else is fair: no peer need connect, identify or announce itself.        *)
CloseRequested(c) == c.id \in closing /\ ConnectionClosed(c)

Fairness ==
  /\ \A c \in Conn : WF_vars(CloseRequested(c))
  /\ WF_vars(Tick)

FairSpec == Spec /\ Fairness

-----------------------------------------------------------------------------
(* Connections: direct first.                                              *)

(* Once a peer is in direct_peers, no relayed connection to it stays: each *)
(* one open has been given to close_connection, whichever of the two was   *)
(* established first.  (Arms of ConnectionEstablished, p2p.rs 626-646.)    *)
NoRelayBesideDirect ==
  \A c \in open : c.relayed /\ c.peer \in direct_peers => c.id \in closing

(* The loop never closes a direct connection, although relayed_conns keeps *)
(* the ids of connections that are long gone and closes them all.          *)
DirectNeverClosed == \A c \in open : c.id \in closing => c.relayed

(* A relayed connection beside a direct one does go away.                  *)
RelayGivesWay ==
  \A c \in Conn :
    (c \in open /\ c.relayed /\ c.peer \in direct_peers) ~> (c \notin open)

(* The loop does what PathPolicy promises: the change of paths looks like  *)
(* one step from outside, whatever ids relayed_conns has kept or lost, and *)
(* no connection but those is ever asked to close.                         *)
LinkOf(c) == [id |-> c.id, peer |-> c.peer]
Links(conns) == {LinkOf(c) : c \in conns}
Staying(is_relayed) == {c \in open : c.relayed = is_relayed /\ c.id \notin closing}
Going == {c \in open : c.id \in closing}

Policy == INSTANCE PathPolicy WITH
  direct   <- Links(Staying(FALSE)),
  relayed  <- Links(Staying(TRUE)),
  leaving  <- Links(Going),
  upgraded <- direct_peers,
  given    <- used

ImplementsPathPolicy == Policy!Spec

(* A connection is closed only while another, direct and not itself being  *)
(* closed, still joins the node to that peer: README.md 139 says of the    *)
(* relay fallback that it keeps the two connected.                         *)
NeverCutsLastPath ==
  [][\A c \in open' : c.id \in closing' \ closing =>
       \E d \in open' : d.peer = c.peer /\ ~ d.relayed /\ d.id \notin closing']_vars

-----------------------------------------------------------------------------
(* Dialling.                                                               *)

(* Two dials of one address of one peer, by Identify or by Announce in any *)
(* order, are DialCooldown apart.  The two handlers share recent_dials,    *)
(* and Identify also removes entries from it.  (mDNS dials without it.)    *)
DialsRespectCooldown ==
  \A p \in AnyPeer, a \in Addr : \A i \in 1..(Len(dials[p][a]) - 1) :
    dials[p][a][i + 1] - dials[p][a][i] >= DialCooldown

(* A dial is held back only by a dial: when the loop has heard of an       *)
(* address it would dial, from Identify or from Announce, that address was *)
(* dialled less than DialCooldown ago.  An entry of recent_dials that      *)
(* stands for no dial (the placeholder of or_insert), or that is renewed   *)
(* without one, would keep off a peer that is heard of again and again.    *)
(* The dials of mDNS are not in dials, and keep nothing back.              *)
DialedLately(p, a) ==
  \E i \in 1..Len(dials[p][a]) : now - dials[p][a][i] < DialCooldown

HeardIsDialed ==
  [][/\ \A p \in Peer, info \in IdentifyInfo : IdentifyReceived(p, info) =>
          \A a \in identify_targets(p, info.listen_addrs) : DialedLately(p, a)'
     /\ \A p \in AnyPeer, addrs \in AnnounceAddrs : AnnounceMessage(p, addrs) =>
          \A a \in addrs : is_public_udp_quic(a) => DialedLately(p, a)']_vars

-----------------------------------------------------------------------------
(* Announcing.                                                             *)

(* Two announcements are AnnounceCooldown apart, whichever of the five     *)
(* handlers publishes them.                                                *)
AnnouncesRespectCooldown ==
  \A i \in 1..(Len(announced) - 1) :
    announced[i + 1].at - announced[i].at >= AnnounceCooldown

(* A node announces addresses a peer can dial as they stand: public, not   *)
(* relayed, and bare of the suffixes under which the swarm reported them   *)
(* (the Announce handler takes an address raw as the key of its cooldown). *)
AnnouncesArePublic ==
  \A i \in 1..Len(announced) :
    /\ announced[i].addrs # {}
    /\ \A a \in announced[i].addrs : is_public_udp_quic(a) /\ canonical(a) = a
=============================================================================
