-------------------------- MODULE EventLoopProofs --------------------------
(***************************************************************************)
(* Proofs about EventLoop, for every value of its constants: its type      *)
(* invariant, that direct and relayed connections are kept apart, and that *)
(* the two cooldowns hold whatever the order of events.                    *)
(***************************************************************************)
EXTENDS EventLoop, MultiaddrProofs, TLAPS

-----------------------------------------------------------------------------
(* Type correctness.                                                       *)

(* What identify dials is an address of the model.                         *)
LEMMA TargetsInAddr ==
  ASSUME NEW p \in Peer, NEW addrs \in SUBSET Addr
  PROVE  identify_targets(p, addrs) \subseteq Addr
BY AddrAssumption DEF identify_targets

(* What the node may announce is an address of the model.                  *)
LEMMA AnnounceableInAddr ==
  ASSUME NEW a \in OwnAddr
  PROVE  announceable(a) \subseteq Addr
BY AddrAssumption DEF announceable

(* publish_announce leaves the announcing state well typed, whichever of   *)
(* its early returns it takes.                                             *)
LEMMA PublishType ==
  ASSUME NEW mine \in SUBSET Addr, TypeOK, publish_announce(mine)
  PROVE  /\ last_announce' \in Time \cup {Never}
         /\ announced' \in Seq([at : Time, addrs : SUBSET Addr])
<1> DEFINE addrs == {a \in mine : is_public_udp_quic(a)}
<1>1. CASE /\ last_announce' = now
           /\ announced' = Append(announced, [at |-> now, addrs |-> addrs])
  <2>1. [at |-> now, addrs |-> addrs] \in [at : Time, addrs : SUBSET Addr]
    BY DEF TypeOK
  <2> HIDE DEF addrs
  <2> QED  BY <1>1, <2>1 DEF TypeOK
<1>2. CASE UNCHANGED annVars
  BY <1>2 DEF annVars, TypeOK
<1> QED  BY <1>1, <1>2 DEF publish_announce

(* retained keeps the type of recent_dials.                                *)
LEMMA RetainedType ==
  ASSUME NEW p \in AnyPeer, TypeOK
  PROVE  retained(p) \in [AnyPeer -> [Addr -> Time \cup {Never}]]
BY DEF retained, TypeOK

(* Dialling leaves the dial records well typed.                            *)
LEMMA DialType ==
  ASSUME NEW p \in AnyPeer, NEW targets \in SUBSET Addr, TypeOK,
         NEW known \in [AnyPeer -> [Addr -> Time \cup {Never}]],
         dial_fresh(p, targets, known)
  PROVE  /\ recent_dials' \in [AnyPeer -> [Addr -> Time \cup {Never}]]
         /\ dials' \in [AnyPeer -> [Addr -> Seq(Time)]]
<1> DEFINE fresh == Fresh(p, targets)
<1>1. now \in Time  BY DEF TypeOK
<1>2. [a \in Addr |-> IF a \in fresh THEN now ELSE known[p][a]] \in [Addr -> Time \cup {Never}]
  BY <1>1
<1>3. [a \in Addr |-> IF a \in fresh THEN Append(dials[p][a], now) ELSE dials[p][a]]
        \in [Addr -> Seq(Time)]
  BY <1>1 DEF TypeOK
<1>4. recent_dials' \in [AnyPeer -> [Addr -> Time \cup {Never}]]
  BY <1>2 DEF dial_fresh
<1>5. dials' \in [AnyPeer -> [Addr -> Seq(Time)]]
  BY <1>3 DEF dial_fresh, TypeOK
<1> QED  BY <1>4, <1>5 DEF dial_fresh

(* The initial state is well typed.                                        *)
LEMMA TypeInit == Init => TypeOK
<1> SUFFICES ASSUME Init PROVE TypeOK
  OBVIOUS
<1>1. now \in Time
  BY CooldownAssumption DEF Init, Time
<1>2. dials \in [AnyPeer -> [Addr -> Seq(Time)]] /\ announced \in Seq([at : Time, addrs : SUBSET Addr])
  BY DEF Init
<1>3. /\ recent_dials \in [AnyPeer -> [Addr -> Time \cup {Never}]]
      /\ kad_addrs \in [AnyPeer -> SUBSET Addr]
      /\ relayed_conns \in [Peer -> SUBSET ConnId]
  BY DEF Init
<1> QED  BY <1>1, <1>2, <1>3 DEF Init, TypeOK

(* Every variable keeps its type, and a close request always concerns a    *)
(* connection that is open (ConnectionEstablished, p2p.rs 626 to 646).     *)
THEOREM TypeCorrect == Spec => []TypeOK
<1>1. TypeOK /\ [Next]_vars => TypeOK'
  <2> SUFFICES ASSUME TypeOK, [Next]_vars PROVE TypeOK'
    OBVIOUS
  <2>1. ASSUME NEW p \in Peer, NEW id \in ConnId, NEW r \in BOOLEAN,
               ConnectionEstablished(p, id, r)
        PROVE  TypeOK'
    <3>1. /\ last_announce' \in Time \cup {Never}
          /\ announced' \in Seq([at : Time, addrs : SUBSET Addr])
      <4>1. CASE announced_once
        BY <2>1, <4>1 DEF ConnectionEstablished, annVars, TypeOK
      <4>2. CASE ~ announced_once
        BY <2>1, <4>2, PublishType DEF ConnectionEstablished, TypeOK
      <4> QED  BY <4>1, <4>2
    <3>2. /\ open' \subseteq Conn
          /\ used' \subseteq ConnId
          /\ relayed_conns' \in [Peer -> SUBSET ConnId]
          /\ direct_peers' \subseteq Peer
          /\ announced_once' \in BOOLEAN
      <4>1. direct_peers' \subseteq Peer  BY <2>1 DEF ConnectionEstablished, TypeOK
      <4>2. open' \subseteq Conn  BY <2>1 DEF ConnectionEstablished, TypeOK, Conn
      <4>3. used' \subseteq ConnId /\ announced_once' \in BOOLEAN
        BY <2>1 DEF ConnectionEstablished, TypeOK
      <4>4. relayed_conns' \in [Peer -> SUBSET ConnId]
        <5>1. \A conns \in SUBSET ConnId :
                [relayed_conns EXCEPT ![p] = conns] \in [Peer -> SUBSET ConnId]
          BY DEF TypeOK
        <5>2. relayed_conns[p] \cup {id} \in SUBSET ConnId  BY DEF TypeOK
        <5>3. \E conns \in SUBSET ConnId :
                relayed_conns' \in {relayed_conns, [relayed_conns EXCEPT ![p] = conns]}
          BY <2>1, <5>2 DEF ConnectionEstablished
        <5> QED  BY <5>1, <5>3 DEF TypeOK
      <4> QED  BY <4>1, <4>2, <4>3, <4>4
    <3>3. closing' \subseteq {c.id : c \in open'}
      <4> DEFINE new == [id |-> id, peer |-> p, relayed |-> r]
      <4>1. id \in {c.id : c \in open'}
        <5>1. new \in open' /\ new.id = id
          BY <2>1 DEF ConnectionEstablished
        <5> QED  BY <5>1
      <4>2. {c.id : c \in open} \subseteq {c.id : c \in open'}
        BY <2>1 DEF ConnectionEstablished
      <4>3. surplus(p) \subseteq {c.id : c \in open}
        BY DEF surplus
      <4>4. closing' \subseteq closing \cup {id} \cup surplus(p)
        BY <2>1 DEF ConnectionEstablished
      <4> QED  BY <4>1, <4>2, <4>3, <4>4 DEF TypeOK
    <3> QED
      BY <2>1, <3>1, <3>2, <3>3
      DEF ConnectionEstablished, TypeOK, dialVars, addrVars, kadVars
  <2>2. ASSUME NEW c \in open, ConnectionClosed(c)
        PROVE  TypeOK'
    <3>1. closing' \subseteq {d.id : d \in open'}
      BY <2>2 DEF ConnectionClosed, TypeOK
    <3> QED
      BY <2>2, <3>1 DEF ConnectionClosed, TypeOK, dialVars, addrVars, annVars, kadVars
  <2>3. ASSUME NEW p \in Peer, NEW info \in IdentifyInfo, IdentifyReceived(p, info)
        PROVE  TypeOK'
    <3>1. info.listen_addrs \in SUBSET Addr /\ info.observed_addr \in Addr
      BY AddrAssumption
    <3>2. p \in AnyPeer
      BY DEF AnyPeer
    <3>3. /\ recent_dials' \in [AnyPeer -> [Addr -> Time \cup {Never}]]
          /\ dials' \in [AnyPeer -> [Addr -> Seq(Time)]]
       BY <2>3, <3>1, <3>2, TargetsInAddr, RetainedType, DialType DEF IdentifyReceived
    <3>4. /\ last_announce' \in Time \cup {Never}
          /\ announced' \in Seq([at : Time, addrs : SUBSET Addr])
      BY <2>3, PublishType DEF IdentifyReceived, TypeOK
    <3>5. /\ kad_addrs' \in [AnyPeer -> SUBSET Addr]
          /\ external_addrs' \subseteq Addr
          /\ kad_bootstrapped' \in BOOLEAN
      BY <2>3, <3>1, <3>2 DEF IdentifyReceived, TypeOK
    <3> QED
      BY <2>3, <3>3, <3>4, <3>5 DEF IdentifyReceived, TypeOK, connVars
  <2>4. ASSUME NEW p \in AnyPeer, NEW addrs \in AnnounceAddrs, AnnounceMessage(p, addrs)
        PROVE  TypeOK'
    <3> DEFINE targets == {a \in addrs : is_public_udp_quic(a)}
    <3>1. targets \in SUBSET Addr
      BY AddrAssumption
    <3>2. /\ recent_dials' \in [AnyPeer -> [Addr -> Time \cup {Never}]]
          /\ dials' \in [AnyPeer -> [Addr -> Seq(Time)]]
       <4>1. dial_fresh(p, targets, recent_dials)
        BY <2>4 DEF AnnounceMessage
      <4> QED  BY <3>1, <4>1, DialType DEF TypeOK
    <3>3. kad_addrs' \in [AnyPeer -> SUBSET Addr]
      BY <2>4, <3>1 DEF AnnounceMessage, Fresh, TypeOK
    <3> QED
      BY <2>4, <3>2, <3>3 DEF AnnounceMessage, TypeOK, connVars, addrVars, annVars
  <2>5. ASSUME NEW list \in SUBSET (Peer \X MdnsAddr) \ {{}}, MdnsDiscovered(list)
        PROVE  TypeOK'
    <3>1. kad_addrs' \in [AnyPeer -> SUBSET Addr]
      BY <2>5, AddrAssumption DEF MdnsDiscovered, TypeOK
    <3> QED
      BY <2>5, <3>1 DEF MdnsDiscovered, TypeOK, connVars, dialVars, addrVars, annVars
  <2>6. ASSUME NEW a \in OwnAddr,
               NewListenAddr(a) \/ ExternalAddrConfirmed(a)
        PROVE  TypeOK'
    <3>1. a \in Addr /\ announceable(a) \subseteq Addr
      BY AddrAssumption, AnnounceableInAddr
    <3>2. CASE NewListenAddr(a)
      <4>1. my_addrs' \in SUBSET Addr
        BY <3>1, <3>2 DEF NewListenAddr, TypeOK
      <4>2. /\ last_announce' \in Time \cup {Never}
            /\ announced' \in Seq([at : Time, addrs : SUBSET Addr])
        BY <3>2, <4>1, PublishType DEF NewListenAddr
      <4> QED
        BY <3>1, <3>2, <4>1, <4>2 DEF NewListenAddr, TypeOK, connVars, dialVars, kadVars
    <3>3. CASE ExternalAddrConfirmed(a)
      <4>1. my_addrs' \in SUBSET Addr
        BY <3>1, <3>3 DEF ExternalAddrConfirmed, TypeOK
      <4>2. /\ last_announce' \in Time \cup {Never}
            /\ announced' \in Seq([at : Time, addrs : SUBSET Addr])
        BY <3>3, <4>1, PublishType DEF ExternalAddrConfirmed
      <4> QED
        BY <3>1, <3>3, <4>1, <4>2
        DEF ExternalAddrConfirmed, TypeOK, connVars, dialVars, kadVars
    <3> QED  BY <2>6, <3>2, <3>3
  <2>7. CASE AutonatEvent
    <3>1. /\ last_announce' \in Time \cup {Never}
          /\ announced' \in Seq([at : Time, addrs : SUBSET Addr])
      BY <2>7, PublishType DEF AutonatEvent, TypeOK
    <3> QED
      BY <2>7, <3>1 DEF AutonatEvent, TypeOK, connVars, dialVars, addrVars, kadVars
  <2>8. CASE Tick
    BY <2>8, CooldownAssumption
    DEF Tick, TypeOK, Time, connVars, dialVars, addrVars, annVars, kadVars
  <2>9. CASE UNCHANGED vars
    BY <2>9 DEF TypeOK, vars, connVars, dialVars, addrVars, annVars, kadVars
  <2> QED  BY <2>1, <2>2, <2>3, <2>4, <2>5, <2>6, <2>7, <2>8, <2>9 DEF Next
<1> QED  BY TypeInit, <1>1, PTL DEF Spec

-----------------------------------------------------------------------------
(* Connections: direct first.                                              *)

(* An id names one connection, and one that was given out.                 *)
IdsUnique ==
  /\ \A c \in open : c.id \in used
  /\ \A c, d \in open : c.id = d.id => c = d
  /\ \A p \in Peer : relayed_conns[p] \subseteq used

(* relayed_conns may hold ids that are gone, but under p only those of     *)
(* relayed connections to p.                                               *)
RecordsRelayed ==
  \A p \in Peer, c \in open : c.id \in relayed_conns[p] => c.relayed /\ c.peer = p

(* Every open relayed connection is either recorded, and waits for a       *)
(* direct one, or is being closed.                                         *)
RelayedTracked ==
  \A c \in open : c.relayed =>
    \/ c.peer \notin direct_peers /\ c.id \in relayed_conns[c.peer]
    \/ c.id \in closing

PathInv ==
  /\ TypeOK
  /\ IdsUnique
  /\ RecordsRelayed
  /\ RelayedTracked
  /\ DirectNeverClosed

(* The handlers but two leave the connections alone.                       *)
LEMMA OtherHandlersKeepConnections ==
  ASSUME Next
  PROVE  \/ \E p \in Peer, id \in ConnId, r \in BOOLEAN : ConnectionEstablished(p, id, r)
         \/ \E c \in open : ConnectionClosed(c)
         \/ UNCHANGED connVars
BY DEF Next, IdentifyReceived, AnnounceMessage, MdnsDiscovered, NewListenAddr,
       ExternalAddrConfirmed, AutonatEvent, Tick

(* The strengthening of the two properties of connections is inductive.    *)
LEMMA PathInductive == Spec => []PathInv
<1>1. Init => PathInv
  <2> SUFFICES ASSUME Init, TypeOK PROVE PathInv
    BY TypeInit
  <2> QED
    BY DEF Init, PathInv, IdsUnique, RecordsRelayed, RelayedTracked, DirectNeverClosed
<1>2. PathInv /\ TypeOK' /\ [Next]_vars => PathInv'
  <2> SUFFICES ASSUME PathInv, TypeOK', [Next]_vars
               PROVE  IdsUnique' /\ RecordsRelayed' /\ RelayedTracked' /\ DirectNeverClosed'
    BY DEF PathInv
  <2>1. ASSUME NEW p \in Peer, NEW id \in ConnId, NEW r \in BOOLEAN,
               ConnectionEstablished(p, id, r)
        PROVE  IdsUnique' /\ RecordsRelayed' /\ RelayedTracked' /\ DirectNeverClosed'
    <3> DEFINE new == [id |-> id, peer |-> p, relayed |-> r]
    <3>1. /\ id \notin used
          /\ used' = used \cup {id}
          /\ open' = open \cup {new}
      BY <2>1 DEF ConnectionEstablished
    <3>2. new.id = id /\ new.peer = p /\ new.relayed = r
      OBVIOUS
    <3>3. \A c \in open : c.id # id /\ c \in Conn
      BY <3>1 DEF PathInv, IdsUnique, TypeOK
    <3>4. \A q \in Peer : id \notin relayed_conns[q]
      BY <3>1 DEF PathInv, IdsUnique
    <3>5. id \notin closing
      BY <3>3 DEF PathInv, TypeOK
    <3> HIDE DEF new
    <3>6. CASE r /\ p \in direct_peers
      <4>1. /\ closing' = closing \cup {id}
            /\ relayed_conns' = relayed_conns
            /\ direct_peers' = direct_peers
        BY <2>1, <3>6 DEF ConnectionEstablished
      <4>2. IdsUnique'
        BY <3>1, <3>2, <3>3, <4>1 DEF PathInv, IdsUnique
      <4>3. RecordsRelayed'
        BY <3>1, <3>2, <3>4, <4>1 DEF PathInv, RecordsRelayed
      <4>4. RelayedTracked'
        BY <3>1, <3>2, <4>1 DEF PathInv, RelayedTracked
      <4>5. DirectNeverClosed'
        BY <3>1, <3>2, <3>3, <3>6, <4>1 DEF PathInv, DirectNeverClosed
      <4> QED  BY <4>2, <4>3, <4>4, <4>5
    <3>7. CASE r /\ p \notin direct_peers
      <4>1. /\ closing' = closing
            /\ relayed_conns' = [relayed_conns EXCEPT ![p] = @ \cup {id}]
            /\ direct_peers' = direct_peers
        BY <2>1, <3>7 DEF ConnectionEstablished
      <4>2. \A q \in Peer : relayed_conns'[q] =
              IF q = p THEN relayed_conns[q] \cup {id} ELSE relayed_conns[q]
        BY <4>1 DEF PathInv, TypeOK
      <4>3. IdsUnique'
        BY <3>1, <3>2, <3>3, <4>2 DEF PathInv, IdsUnique
      <4>4. RecordsRelayed'
        <5>1. \A q \in Peer, c \in open :
                c.id \in relayed_conns'[q] => c.relayed /\ c.peer = q
          BY <3>3, <4>2 DEF PathInv, RecordsRelayed
        <5>2. \A q \in Peer : id \in relayed_conns'[q] => q = p
          BY <3>4, <4>2
        <5>3. \A q \in Peer : new.id \in relayed_conns'[q] => new.relayed /\ new.peer = q
          BY <3>2, <3>7, <5>2
        <5> QED  BY <3>1, <5>1, <5>3 DEF RecordsRelayed
      <4>5. RelayedTracked'
        BY <3>1, <3>2, <3>3, <3>7, <4>1, <4>2 DEF PathInv, RelayedTracked, Conn
      <4>6. DirectNeverClosed'
        BY <3>1, <3>2, <3>5, <4>1 DEF PathInv, DirectNeverClosed
      <4> QED  BY <4>3, <4>4, <4>5, <4>6
    <3>8. CASE ~ r
      <4>1. /\ closing' = closing \cup surplus(p)
            /\ relayed_conns' = [relayed_conns EXCEPT ![p] = {}]
            /\ direct_peers' = direct_peers \cup {p}
        BY <2>1, <3>8 DEF ConnectionEstablished
      <4>2. \A q \in Peer : relayed_conns'[q] = IF q = p THEN {} ELSE relayed_conns[q]
        BY <4>1 DEF PathInv, TypeOK
      <4>3. \A c \in open : c.id \in surplus(p) <=> c.id \in relayed_conns[p]
        BY DEF surplus
      <4>4. id \notin surplus(p)
        BY <3>3 DEF surplus
      <4>5. IdsUnique'
        BY <3>1, <3>2, <3>3, <4>2 DEF PathInv, IdsUnique
      <4>6. RecordsRelayed'
        BY <3>1, <3>2, <3>4, <4>2 DEF PathInv, RecordsRelayed
      <4>7. RelayedTracked'
        BY <3>1, <3>2, <3>3, <3>8, <4>1, <4>2, <4>3 DEF PathInv, RelayedTracked, Conn
      <4>8. DirectNeverClosed'
        BY <3>1, <3>2, <3>5, <4>1, <4>3, <4>4
        DEF PathInv, DirectNeverClosed, RecordsRelayed
      <4> QED  BY <4>5, <4>6, <4>7, <4>8
    <3> QED  BY <3>6, <3>7, <3>8
  <2>2. ASSUME NEW c \in open, ConnectionClosed(c)
        PROVE  IdsUnique' /\ RecordsRelayed' /\ RelayedTracked' /\ DirectNeverClosed'
    <3>1. /\ open' = open \ {c}
          /\ closing' = closing \ {c.id}
          /\ UNCHANGED <<used, relayed_conns, direct_peers>>
      BY <2>2 DEF ConnectionClosed
    <3>2. \A d \in open' : d \in open /\ d.id # c.id
      BY <3>1 DEF PathInv, IdsUnique
    <3> QED
      BY <3>1, <3>2 DEF PathInv, IdsUnique, RecordsRelayed, RelayedTracked, DirectNeverClosed
  <2>3. CASE UNCHANGED connVars
    BY <2>3 DEF connVars, PathInv, IdsUnique, RecordsRelayed, RelayedTracked, DirectNeverClosed
  <2>4. CASE UNCHANGED vars
    BY <2>3, <2>4 DEF vars
  <2> QED  BY <2>1, <2>2, <2>3, <2>4, OtherHandlersKeepConnections
<1> QED  BY <1>1, <1>2, TypeCorrect, PTL DEF Spec

(* Once a peer is in direct_peers every relayed connection to it has been  *)
(* given to close_connection, whichever was established first.             *)
THEOREM RelayGivesWayToDirect == Spec => []NoRelayBesideDirect
<1>1. PathInv => NoRelayBesideDirect
  BY DEF PathInv, RelayedTracked, NoRelayBesideDirect
<1> QED  BY <1>1, PathInductive, PTL

(* close_connection is never called on a direct connection, although the   *)
(* ids in relayed_conns outlive their connections.                         *)
THEOREM DirectKept == Spec => []DirectNeverClosed
<1>1. PathInv => DirectNeverClosed
  BY DEF PathInv
<1> QED  BY <1>1, PathInductive, PTL

-----------------------------------------------------------------------------
(* The loop implements PathPolicy.                                         *)

(* A new connection, its id and its link.                                  *)
LEMMA NewLink ==
  ASSUME PathInv, NEW p \in Peer, NEW id \in ConnId, NEW r \in BOOLEAN,
         ConnectionEstablished(p, id, r)
  PROVE  /\ LinkOf([id |-> id, peer |-> p, relayed |-> r]) \in Policy!Link
         /\ LinkOf([id |-> id, peer |-> p, relayed |-> r]).peer = p
         /\ open' = open \cup {[id |-> id, peer |-> p, relayed |-> r]}
         /\ \A c \in open : c.id # id
         /\ id \notin closing
         /\ Policy!Fresh(LinkOf([id |-> id, peer |-> p, relayed |-> r]).id)
<1>1. /\ id \notin used /\ used' = used \cup {id}
      /\ open' = open \cup {[id |-> id, peer |-> p, relayed |-> r]}
  BY DEF ConnectionEstablished
<1>2. \A c \in open : c.id # id  BY <1>1 DEF PathInv, IdsUnique
<1>3. id \notin closing  BY <1>2 DEF PathInv, TypeOK
<1> QED  BY <1>1, <1>2, <1>3 DEF LinkOf, Policy!Link, Policy!Fresh

(* Two connections with one link are one, as ids are unique.               *)
LEMMA LinksWithout ==
  ASSUME PathInv, NEW c \in open, NEW S \in SUBSET open
  PROVE  Links(S \ {c}) = Links(S) \ {LinkOf(c)}
<1>1. \A d \in open : LinkOf(d) = LinkOf(c) => d = c
  BY DEF LinkOf, PathInv, IdsUnique
<1> QED  BY <1>1 DEF Links

(* A connection that comes up is a step of PathPolicy.                     *)
LEMMA EstablishedIsStep ==
  ASSUME PathInv, NEW p \in Peer, NEW id \in ConnId, NEW r \in BOOLEAN,
         ConnectionEstablished(p, id, r)
  PROVE  Policy!Next
<1> DEFINE new == [id |-> id, peer |-> p, relayed |-> r]
<1>1. /\ LinkOf(new) \in Policy!Link /\ LinkOf(new).peer = p
      /\ open' = open \cup {new}
      /\ \A c \in open : c.id # id
      /\ id \notin closing
      /\ Policy!Fresh(LinkOf(new).id)
  BY NewLink
<1>2. /\ new.id = id /\ new.peer = p /\ new.relayed = r
      /\ \A c \in open : c.relayed \in BOOLEAN /\ c.peer \in Peer  BY DEF PathInv, TypeOK, Conn
<1> HIDE DEF new
<1>3. CASE r /\ p \in direct_peers
  <2>1. closing' = closing \cup {id} /\ direct_peers' = direct_peers
    BY <1>3 DEF ConnectionEstablished
  <2>2. Staying(FALSE)' = Staying(FALSE) /\ Staying(TRUE)' = Staying(TRUE)
    BY <1>1, <1>2, <1>3, <2>1 DEF Staying
  <2>3. Going' = Going \cup {new}
    BY <1>1, <1>2, <2>1 DEF Going
  <2>4. Links(Going)' = Links(Going) \cup {LinkOf(new)}
    BY <2>3 DEF Links
  <2>5. Policy!RelayedUp(LinkOf(new))
    BY <1>1, <1>3, <2>1, <2>2, <2>4 DEF Policy!RelayedUp
  <2> QED  BY <1>1, <2>5 DEF Policy!Next
<1>4. CASE r /\ p \notin direct_peers
  <2>1. closing' = closing /\ direct_peers' = direct_peers
    BY <1>4 DEF ConnectionEstablished
  <2>2. Staying(FALSE)' = Staying(FALSE) /\ Going' = Going
    BY <1>1, <1>2, <1>4, <2>1 DEF Staying, Going
  <2>3. Staying(TRUE)' = Staying(TRUE) \cup {new}
    BY <1>1, <1>2, <1>4, <2>1 DEF Staying
  <2>4. Links(Staying(TRUE))' = Links(Staying(TRUE)) \cup {LinkOf(new)}
    BY <2>3 DEF Links
  <2>5. Policy!RelayedUp(LinkOf(new))
    BY <1>1, <1>4, <2>1, <2>2, <2>4 DEF Policy!RelayedUp
  <2> QED  BY <1>1, <2>5 DEF Policy!Next
<1>5. CASE ~ r
  <2> DEFINE those == {c \in Staying(TRUE) : c.peer = p}
             links == {l \in Links(Staying(TRUE)) : l.peer = p}
  <2>1. closing' = closing \cup surplus(p) /\ direct_peers' = direct_peers \cup {p}
    BY <1>5 DEF ConnectionEstablished
  <2>2. \A c \in open : c.id \in surplus(p) => c.relayed /\ c.peer = p
    BY DEF surplus, PathInv, RecordsRelayed
  <2>3. \A c \in those : c.id \in surplus(p)
    BY DEF Staying, surplus, PathInv, RelayedTracked
  <2>4. id \notin surplus(p)
    BY <1>1 DEF surplus
  <2>5. Staying(FALSE)' = Staying(FALSE) \cup {new}
    BY <1>1, <1>2, <1>5, <2>1, <2>2, <2>4 DEF Staying
  <2>6. Staying(TRUE)' = Staying(TRUE) \ those
    BY <1>1, <1>2, <1>5, <2>1, <2>2, <2>3 DEF Staying
  <2>7. Going' = Going \cup those
    BY <1>1, <1>2, <2>1, <2>2, <2>3, <2>4 DEF Going, Staying
  <2>8. Links(those) = links
    <3>1. \A c : LinkOf(c).peer = c.peer  BY DEF LinkOf
    <3> QED  BY <3>1 DEF Links
  <2>9. Links(Staying(TRUE) \ those) = Links(Staying(TRUE)) \ links
    <3>1. \A c : LinkOf(c).peer = c.peer  BY DEF LinkOf
    <3> QED  BY <3>1 DEF Links
  <2>10. /\ Links(Staying(FALSE))' = Links(Staying(FALSE)) \cup {LinkOf(new)}
         /\ Links(Staying(TRUE))' = Links(Staying(TRUE)) \ links
         /\ Links(Going)' = Links(Going) \cup links
    <3> HIDE DEF those, links
    <3>1. Links(Staying(FALSE))' = Links(Staying(FALSE)) \cup {LinkOf(new)}
      BY <2>5 DEF Links
    <3>2. Links(Staying(TRUE))' = Links(Staying(TRUE) \ those)
      BY <2>6 DEF Links
    <3>3. Links(Going)' = Links(Going) \cup Links(those)
      BY <2>7 DEF Links
    <3> QED  BY <2>8, <2>9, <3>1, <3>2, <3>3
  <2>11. Policy!DirectUp(LinkOf(new))
    BY <1>1, <2>1, <2>10 DEF Policy!DirectUp
  <2> QED  BY <1>1, <2>11 DEF Policy!Next
<1> QED  BY <1>3, <1>4, <1>5

(* So is one that is lost.                                                 *)
LEMMA ClosedIsStep ==
  ASSUME PathInv, NEW c \in open, ConnectionClosed(c)
  PROVE  Policy!Next
<1>1. /\ open' = open \ {c} /\ closing' = closing \ {c.id}
      /\ UNCHANGED <<direct_peers, used>>
  BY DEF ConnectionClosed
<1>2. \A d \in open' : d \in open /\ d.id # c.id
  BY <1>1 DEF PathInv, IdsUnique
<1>3. /\ Staying(FALSE)' = Staying(FALSE) \ {c}
      /\ Staying(TRUE)' = Staying(TRUE) \ {c}
      /\ Going' = Going \ {c}
  BY <1>1, <1>2 DEF Staying, Going
<1>4. /\ Staying(FALSE) \subseteq open /\ Staying(TRUE) \subseteq open /\ Going \subseteq open
      /\ c \in Staying(FALSE) \cup Staying(TRUE) \cup Going
      /\ LinkOf(c) \in Policy!Link
  BY DEF Staying, Going, PathInv, TypeOK, Conn, LinkOf, Policy!Link
<1>5. /\ Links(Staying(FALSE))' = Links(Staying(FALSE)) \ {LinkOf(c)}
      /\ Links(Staying(TRUE))' = Links(Staying(TRUE)) \ {LinkOf(c)}
      /\ Links(Going)' = Links(Going) \ {LinkOf(c)}
  BY <1>3, <1>4, LinksWithout
<1>6. LinkOf(c) \in Links(Staying(FALSE)) \cup Links(Staying(TRUE)) \cup Links(Going)
  BY <1>4 DEF Links
<1>7. Policy!Lost(LinkOf(c))
  BY <1>1, <1>5, <1>6 DEF Policy!Lost
<1> QED  BY <1>4, <1>7 DEF Policy!Next

(* The handling of paths, with the ids that relayed_conns keeps for        *)
(* connections long gone, implements PathPolicy: every step of the loop is *)
(* a step of it or changes no path (p2p.rs 616 to 650).                    *)
THEOREM PathsRefinePolicy == Spec => Policy!Safety
<1>1. Init => Policy!Init
  BY DEF Init, Policy!Init, Links, Staying, Going
<1>2. PathInv /\ [Next]_vars => [Policy!Next]_(Policy!pathVars)
  <2> SUFFICES ASSUME PathInv, [Next]_vars PROVE [Policy!Next]_(Policy!pathVars)
    OBVIOUS
  <2>1. ASSUME NEW p \in Peer, NEW id \in ConnId, NEW r \in BOOLEAN,
               ConnectionEstablished(p, id, r)
        PROVE  Policy!Next
    BY <2>1, EstablishedIsStep
  <2>2. ASSUME NEW c \in open, ConnectionClosed(c) PROVE Policy!Next
    BY <2>2, ClosedIsStep
  <2>3. CASE UNCHANGED connVars
    BY <2>3 DEF connVars, Policy!pathVars, Links, Staying, Going
  <2>4. CASE UNCHANGED vars
    BY <2>3, <2>4 DEF vars
  <2> QED  BY <2>1, <2>2, <2>3, <2>4, OtherHandlersKeepConnections
<1> QED  BY <1>1, <1>2, PathInductive, PTL DEF Spec, Policy!Safety

-----------------------------------------------------------------------------
(* Dialling.                                                               *)

Last(seq) == seq[Len(seq)]

(* recent_dials remembers a dial for as long as its cooldown lasts: the    *)
(* entries Identify removes are those that no longer matter.               *)
DialRecorded(p, a) ==
  dials[p][a] # <<>> =>
    /\ Last(dials[p][a]) <= now
    /\ now - Last(dials[p][a]) < DialCooldown => recent_dials[p][a] = Last(dials[p][a])

(* And an entry of recent_dials is nothing but a dial, the last one.       *)
StampIsDial(p, a) ==
  recent_dials[p][a] # Never =>
    dials[p][a] # <<>> /\ Last(dials[p][a]) = recent_dials[p][a]

Spaced(p, a) ==
  \A i \in 1..(Len(dials[p][a]) - 1) :
    dials[p][a][i + 1] - dials[p][a][i] >= DialCooldown

DialBooks(p, a) == DialRecorded(p, a) /\ StampIsDial(p, a) /\ Spaced(p, a)

DialInv == TypeOK /\ \A p \in AnyPeer, a \in Addr : DialBooks(p, a)

(* A sequence that is Spaced stays so when an instant far enough is        *)
(* appended.                                                               *)
LEMMA AppendSpaced ==
  ASSUME NEW seq \in Seq(Time), NEW t \in Time,
         \A i \in 1..(Len(seq) - 1) : seq[i + 1] - seq[i] >= DialCooldown,
         seq # <<>> => t - Last(seq) >= DialCooldown
  PROVE  /\ \A i \in 1..(Len(Append(seq, t)) - 1) :
              Append(seq, t)[i + 1] - Append(seq, t)[i] >= DialCooldown
         /\ Append(seq, t) # <<>>
         /\ Last(Append(seq, t)) = t
<1> DEFINE new == Append(seq, t)
<1>1. Len(new) = Len(seq) + 1 /\ Len(seq) \in Nat
  OBVIOUS
<1>2. \A i \in 1..Len(seq) : new[i] = seq[i]
  OBVIOUS
<1>3. new[Len(seq) + 1] = t
  OBVIOUS
<1>4. ASSUME NEW i \in 1..(Len(new) - 1) PROVE new[i + 1] - new[i] >= DialCooldown
  <2>1. CASE i = Len(seq)
    <3>1. seq # <<>> /\ Last(seq) = seq[i]
      BY <2>1, <1>1 DEF Last
    <3> QED  BY <2>1, <3>1, <1>2, <1>3, <1>1
  <2>2. CASE i # Len(seq)
    <3>1. i \in 1..(Len(seq) - 1) /\ i + 1 \in 1..Len(seq) /\ i \in 1..Len(seq)
      BY <2>2, <1>1
    <3> QED  BY <3>1, <1>2
  <2> QED  BY <2>1, <2>2
<1>5. new # <<>>
  BY <1>1
<1> HIDE DEF new
<1>6. Last(new) = t
  BY <1>1, <1>3 DEF Last
<1> QED  BY <1>4, <1>5, <1>6 DEF new

(* Dialling what is not cooling down keeps the dials of every peer and     *)
(* address spaced and on record, provided the caller removed only what was *)
(* not cooling, and added nothing.                                         *)
LEMMA DialFreshKeepsSpacing ==
  ASSUME DialInv, NEW p \in AnyPeer, NEW targets \in SUBSET Addr,
         NEW known \in [AnyPeer -> [Addr -> Time \cup {Never}]],
         \A q \in AnyPeer \ {p} : known[q] = recent_dials[q],
         \A a \in Addr : Cooling(p, a) => known[p][a] = recent_dials[p][a],
         \A a \in Addr : known[p][a] \in {recent_dials[p][a], Never},
         dial_fresh(p, targets, known), now' = now
  PROVE  \A q \in AnyPeer, a \in Addr : DialBooks(q, a)'
<1> SUFFICES ASSUME NEW q \in AnyPeer, NEW a \in Addr
             PROVE  DialBooks(q, a)'
  OBVIOUS
<1> DEFINE seq == dials[q][a]
<1>1. seq \in Seq(Time) /\ now \in Time /\ Time \subseteq Nat /\ DialCooldown \in Nat \ {0}
  BY CooldownAssumption DEF DialInv, TypeOK, Time
<1>2. DialRecorded(q, a) /\ StampIsDial(q, a) /\ Spaced(q, a)
  BY DEF DialInv, DialBooks
<1>3. seq # <<>> => Last(seq) \in Time
  BY <1>1 DEF Last
<1>4. CASE q = p /\ a \in Fresh(p, targets)
  <2>1. ~ Cooling(p, a)
    BY <1>4 DEF Fresh
  <2>2. dials'[q][a] = Append(seq, now) /\ recent_dials'[q][a] = now
    BY <1>4 DEF dial_fresh, DialInv, TypeOK
  <2>3. seq # <<>> => now - Last(seq) >= DialCooldown
    <3>1. ASSUME seq # <<>>, now - Last(seq) < DialCooldown PROVE FALSE
      <4>1. recent_dials[p][a] = Last(seq)
        BY <1>2, <1>4, <3>1 DEF DialRecorded
      <4>2. recent_dials[p][a] # Never
        BY <4>1, <1>3, <1>1, <3>1 DEF Never
      <4> QED  BY <4>1, <4>2, <2>1, <3>1 DEF Cooling
    <3> DEFINE last == Last(seq)
    <3>2. now \in Int /\ DialCooldown \in Int /\ (seq # <<>> => last \in Int)
      BY <1>1, <1>3
    <3>3. seq # <<>> => ~ (now - last < DialCooldown)
      BY <3>1
    <3> HIDE DEF seq, last
    <3>4. seq # <<>> => now - last >= DialCooldown
      BY ONLY <3>2, <3>3
    <3> QED  BY <3>4 DEF last
  <2>4. \A i \in 1..(Len(seq) - 1) : seq[i + 1] - seq[i] >= DialCooldown
    BY <1>2 DEF Spaced
  <2>5. /\ \A i \in 1..(Len(Append(seq, now)) - 1) :
             Append(seq, now)[i + 1] - Append(seq, now)[i] >= DialCooldown
        /\ Append(seq, now) # <<>>
        /\ Last(Append(seq, now)) = now
    BY <1>1, <2>3, <2>4, AppendSpaced
  <2>6. Spaced(q, a)'
    BY <2>2, <2>5 DEF Spaced
  <2>7. DialRecorded(q, a)' /\ StampIsDial(q, a)'
    BY <1>1, <2>2, <2>5 DEF DialRecorded, StampIsDial, Last
  <2> QED  BY <2>6, <2>7 DEF DialBooks
<1>5. CASE q = p /\ a \notin Fresh(p, targets)
  <2>1. dials'[q][a] = seq /\ recent_dials'[q][a] = known[p][a]
    BY <1>5 DEF dial_fresh, DialInv, TypeOK
  <2>2. Spaced(q, a)'
    BY <1>2, <2>1 DEF Spaced
  <2>3. ASSUME seq # <<>>, now - Last(seq) < DialCooldown
        PROVE  known[p][a] = Last(seq)
    <3>1. recent_dials[p][a] = Last(seq)
      BY <1>2, <1>5, <2>3 DEF DialRecorded
    <3>2. Cooling(p, a)
      BY <3>1, <2>3, <1>1, <1>3 DEF Cooling, Never
    <3> QED  BY <3>1, <3>2
  <2>4. DialRecorded(q, a)'
    BY <1>2, <2>1, <2>3 DEF DialRecorded, Last
  <2>5. StampIsDial(q, a)'
    BY <1>2, <1>5, <2>1 DEF StampIsDial, Last
  <2> QED  BY <2>2, <2>4, <2>5 DEF DialBooks
<1>6. CASE q # p
  <2>1. dials'[q][a] = seq /\ recent_dials'[q][a] = recent_dials[q][a]
    BY <1>6 DEF dial_fresh, DialInv, TypeOK
  <2> QED  BY <1>2, <2>1 DEF DialBooks, DialRecorded, StampIsDial, Spaced, Last
<1> QED  BY <1>4, <1>5, <1>6

(* The strengthening of DialsRespectCooldown is inductive.                 *)
LEMMA DialInductive == Spec => []DialInv
<1>1. Init => DialInv
  BY TypeInit DEF Init, DialInv, DialBooks, DialRecorded, StampIsDial, Spaced, Never
<1>2. DialInv /\ TypeOK' /\ [Next]_vars => DialInv'
  <2> SUFFICES ASSUME DialInv, TypeOK', [Next]_vars
               PROVE  \A q \in AnyPeer, a \in Addr : DialBooks(q, a)'
    BY DEF DialInv
  <2>1. ASSUME NEW p \in Peer, NEW info \in IdentifyInfo, IdentifyReceived(p, info)
        PROVE  \A q \in AnyPeer, a \in Addr : DialBooks(q, a)'
    <3>1. p \in AnyPeer /\ info.listen_addrs \in SUBSET Addr
      BY AddrAssumption DEF AnyPeer
    <3>2. retained(p) \in [AnyPeer -> [Addr -> Time \cup {Never}]]
      BY <3>1, RetainedType DEF DialInv
    <3>3. \A q \in AnyPeer \ {p} : retained(p)[q] = recent_dials[q]
      BY DEF retained, DialInv, TypeOK
    <3>4. \A a \in Addr : Cooling(p, a) => retained(p)[p][a] = recent_dials[p][a]
      BY <3>1 DEF retained, DialInv, TypeOK
    <3>5. /\ identify_targets(p, info.listen_addrs) \in SUBSET Addr
          /\ \A a \in Addr : retained(p)[p][a] \in {recent_dials[p][a], Never}
      BY <3>1, TargetsInAddr DEF retained, DialInv, TypeOK
    <3>6. dial_fresh(p, identify_targets(p, info.listen_addrs), retained(p)) /\ now' = now
      BY <2>1 DEF IdentifyReceived
    <3> HIDE DEF DialInv
    <3> QED  BY <3>1, <3>2, <3>3, <3>4, <3>5, <3>6, DialFreshKeepsSpacing
  <2>2. ASSUME NEW p \in AnyPeer, NEW addrs \in AnnounceAddrs, AnnounceMessage(p, addrs)
        PROVE  \A q \in AnyPeer, a \in Addr : DialBooks(q, a)'
    <3> DEFINE targets == {a \in addrs : is_public_udp_quic(a)}
    <3>1. targets \in SUBSET Addr
      BY AddrAssumption
    <3>2. dial_fresh(p, targets, recent_dials) /\ now' = now
      BY <2>2 DEF AnnounceMessage
    <3>3. recent_dials \in [AnyPeer -> [Addr -> Time \cup {Never}]]
      BY DEF DialInv, TypeOK
    <3> HIDE DEF DialInv, targets
    <3> QED  BY <3>1, <3>2, <3>3, DialFreshKeepsSpacing
  <2>3. CASE Tick
    <3> SUFFICES ASSUME NEW q \in AnyPeer, NEW a \in Addr
                 PROVE  DialBooks(q, a)'
      OBVIOUS
    <3>1. dials' = dials /\ recent_dials' = recent_dials /\ now' = now + 1
      BY <2>3 DEF Tick, dialVars
    <3>2. DialRecorded(q, a) /\ StampIsDial(q, a) /\ Spaced(q, a)
      BY DEF DialInv, DialBooks
    <3>3. now \in Nat /\ DialCooldown \in Nat /\ dials[q][a] \in Seq(Nat)
      BY CooldownAssumption DEF DialInv, TypeOK, Time
    <3>4. dials[q][a] # <<>> => Last(dials[q][a]) \in Nat
      BY <3>3 DEF Last
    <3>5. DialRecorded(q, a)'
      BY <3>1, <3>2, <3>3, <3>4 DEF DialRecorded, Last
    <3> QED  BY <3>1, <3>2, <3>5 DEF DialBooks, StampIsDial, Spaced, Last
  <2>4. CASE UNCHANGED <<now, recent_dials, dials>>
    BY <2>4 DEF DialInv, DialBooks, DialRecorded, StampIsDial, Spaced, Last
  <2>5. \/ \E p \in Peer, info \in IdentifyInfo : IdentifyReceived(p, info)
        \/ \E p \in AnyPeer, addrs \in AnnounceAddrs : AnnounceMessage(p, addrs)
        \/ Tick
        \/ UNCHANGED <<now, recent_dials, dials>>
    BY DEF Next, vars, dialVars, ConnectionEstablished, ConnectionClosed, MdnsDiscovered,
           NewListenAddr, ExternalAddrConfirmed, AutonatEvent
  <2> QED  BY <2>1, <2>2, <2>3, <2>4, <2>5
<1> QED  BY <1>1, <1>2, TypeCorrect, PTL DEF Spec

(* Identify and Announce, interleaved in any order and although one of     *)
(* them removes records, never dial an address of a peer twice within      *)
(* dial_cooldown.                                                          *)
THEOREM DialCooldownKept == Spec => []DialsRespectCooldown
<1>1. DialInv => DialsRespectCooldown
  BY DEF DialInv, DialBooks, Spaced, DialsRespectCooldown
<1> QED  BY <1>1, DialInductive, PTL

(* What dial_fresh does not dial was dialled less than a cooldown ago.     *)
LEMMA DialFreshReaches ==
  ASSUME DialInv, NEW p \in AnyPeer, NEW targets \in SUBSET Addr, NEW known,
         dial_fresh(p, targets, known), now' = now, NEW a \in targets
  PROVE  DialedLately(p, a)'
<1>1. /\ dials[p][a] \in Seq(Time) /\ now \in Nat /\ DialCooldown \in Nat \ {0}
      /\ DialedLately(p, a)' = \E i \in 1..Len(dials'[p][a]) : now - dials'[p][a][i] < DialCooldown
  BY CooldownAssumption DEF DialInv, TypeOK, Time, DialedLately
<1>2. CASE a \in Fresh(p, targets)
  <2>1. dials'[p][a] = Append(dials[p][a], now)
    BY <1>2 DEF dial_fresh, DialInv, TypeOK
  <2>2. Len(dials'[p][a]) = Len(dials[p][a]) + 1 /\ dials'[p][a][Len(dials[p][a]) + 1] = now
    BY <1>1, <2>1
  <2> QED  BY <1>1, <2>2
<1>3. CASE a \notin Fresh(p, targets)
  <2>1. dials'[p][a] = dials[p][a] /\ Cooling(p, a)
    BY <1>3 DEF dial_fresh, Fresh, DialInv, TypeOK
  <2>2. dials[p][a] # <<>> /\ now - Last(dials[p][a]) < DialCooldown
    BY <2>1 DEF Cooling, DialInv, DialBooks, StampIsDial
  <2>3. Len(dials[p][a]) \in 1..Len(dials[p][a])
    BY <1>1, <2>2
  <2> QED  BY <1>1, <2>1, <2>2, <2>3 DEF Last
<1> QED  BY <1>2, <1>3

(* An address heard of from Identify or Announce, which the loop would     *)
(* dial, has been dialled by the end of the step, or less than a cooldown  *)
(* before it: nothing but a dial keeps it off (p2p.rs 406 to 483).         *)
THEOREM HeardDialed == Spec => HeardIsDialed
<1> DEFINE Heard ==
      /\ \A p \in Peer, info \in IdentifyInfo : IdentifyReceived(p, info) =>
           \A a \in identify_targets(p, info.listen_addrs) : DialedLately(p, a)'
      /\ \A p \in AnyPeer, addrs \in AnnounceAddrs : AnnounceMessage(p, addrs) =>
           \A a \in addrs : is_public_udp_quic(a) => DialedLately(p, a)'
<1>1. ASSUME DialInv PROVE Heard
  <2>1. ASSUME NEW p \in Peer, NEW info \in IdentifyInfo, IdentifyReceived(p, info),
               NEW a \in identify_targets(p, info.listen_addrs)
        PROVE  DialedLately(p, a)'
    <3>1. p \in AnyPeer /\ info.listen_addrs \in SUBSET Addr
      BY AddrAssumption DEF AnyPeer
    <3>2. identify_targets(p, info.listen_addrs) \in SUBSET Addr
      BY <3>1, TargetsInAddr
    <3>3. dial_fresh(p, identify_targets(p, info.listen_addrs), retained(p)) /\ now' = now
      BY <2>1 DEF IdentifyReceived
    <3> HIDE DEF DialInv
    <3> QED  BY <1>1, <2>1, <3>1, <3>2, <3>3, DialFreshReaches
  <2>2. ASSUME NEW p \in AnyPeer, NEW addrs \in AnnounceAddrs, AnnounceMessage(p, addrs),
               NEW a \in addrs, is_public_udp_quic(a)
        PROVE  DialedLately(p, a)'
    <3> DEFINE targets == {b \in addrs : is_public_udp_quic(b)}
    <3>1. targets \in SUBSET Addr /\ a \in targets
      BY <2>2, AddrAssumption
    <3>2. dial_fresh(p, targets, recent_dials) /\ now' = now
      BY <2>2 DEF AnnounceMessage
    <3> HIDE DEF DialInv, targets
    <3> QED  BY <1>1, <3>1, <3>2, DialFreshReaches
  <2> QED  BY <2>1, <2>2
<1>2. DialInv => [Heard]_vars
  BY <1>1
<1> QED  BY <1>2, DialInductive, PTL DEF HeardIsDialed

-----------------------------------------------------------------------------
(* Announcing.                                                             *)

(* last_announce is the instant of the last announcement made.             *)
AnnounceRecorded ==
  announced # <<>> => Last(announced).at = last_announce

AnnounceInv ==
  /\ TypeOK
  /\ AnnounceRecorded
  /\ AnnouncesRespectCooldown

(* publish_announce keeps announcements apart.                             *)
LEMMA PublishKeepsSpacing ==
  ASSUME AnnounceInv, NEW mine \in SUBSET Addr, publish_announce(mine)
  PROVE  AnnounceRecorded' /\ AnnouncesRespectCooldown'
<1> DEFINE msg == [at |-> now, addrs |-> {a \in mine : is_public_udp_quic(a)}]
<1>1. /\ announced \in Seq([at : Time, addrs : SUBSET Addr])
      /\ now \in Nat /\ AnnounceCooldown \in Nat
  BY CooldownAssumption DEF AnnounceInv, TypeOK, Time
<1>2. CASE UNCHANGED annVars
  BY <1>2 DEF annVars, AnnounceInv, AnnounceRecorded, AnnouncesRespectCooldown, Last
<1>3. CASE AnnounceDue /\ last_announce' = now /\ announced' = Append(announced, msg)
  <2>1. msg.at = now
    OBVIOUS
  <2> HIDE DEF msg
  <2>2. Len(announced') = Len(announced) + 1 /\ Len(announced) \in Nat
    BY <1>1, <1>3
  <2>3. \A i \in 1..Len(announced) : announced'[i] = announced[i]
    BY <1>1, <1>3
  <2>4. announced'[Len(announced) + 1] = msg
    BY <1>1, <1>3
  <2>5. announced # <<>> => now - Last(announced).at >= AnnounceCooldown
    <3> SUFFICES ASSUME announced # <<>> PROVE now - Last(announced).at >= AnnounceCooldown
      OBVIOUS
    <3>1. Last(announced).at \in Time
      <4>1. Len(announced) \in 1..Len(announced)
        BY <1>1
      <4> DEFINE Msg == [at : Time, addrs : SUBSET Addr]
      <4>2. announced \in Seq(Msg)
        BY <1>1
      <4>3. \A m \in Msg : m.at \in Time
        OBVIOUS
      <4> HIDE DEF Msg
      <4>4. Last(announced) \in Msg
        BY <4>1, <4>2 DEF Last
      <4> QED  BY <4>3, <4>4
    <3>2. last_announce = Last(announced).at /\ last_announce # Never
      BY <3>1 DEF AnnounceInv, AnnounceRecorded, Never, Time
    <3> QED  BY <1>3, <3>2 DEF AnnounceDue
  <2>6. AnnounceRecorded'
    BY <1>3, <2>1, <2>2, <2>4 DEF AnnounceRecorded, Last
  <2>7. ASSUME NEW i \in 1..(Len(announced') - 1)
        PROVE  announced'[i + 1].at - announced'[i].at >= AnnounceCooldown
    <3>1. CASE i = Len(announced)
      <4>1. announced # <<>> /\ Last(announced) = announced'[i]
        BY <3>1, <2>2, <2>3 DEF Last
      <4> QED  BY <3>1, <4>1, <2>1, <2>4, <2>5
    <3>2. CASE i # Len(announced)
      <4>1. i \in 1..(Len(announced) - 1) /\ i \in 1..Len(announced) /\ i + 1 \in 1..Len(announced)
        BY <3>2, <2>2
      <4>2. announced'[i] = announced[i] /\ announced'[i + 1] = announced[i + 1]
        BY <4>1, <2>3
      <4>3. announced[i + 1].at - announced[i].at >= AnnounceCooldown
        BY <4>1 DEF AnnounceInv, AnnouncesRespectCooldown
      <4> QED  BY <4>2, <4>3
    <3> QED  BY <3>1, <3>2
  <2> QED  BY <2>6, <2>7 DEF AnnouncesRespectCooldown
<1> QED  BY <1>2, <1>3 DEF publish_announce

(* Whichever of the five handlers publishes, and however they interleave,  *)
(* announcements are announce_cooldown apart.                              *)
THEOREM AnnounceCooldownKept == Spec => []AnnouncesRespectCooldown
<1>1. Init => AnnounceInv
  BY TypeInit DEF Init, AnnounceInv, AnnounceRecorded, AnnouncesRespectCooldown
<1>2. AnnounceInv /\ TypeOK' /\ [Next]_vars => AnnounceInv'
  <2> SUFFICES ASSUME AnnounceInv, TypeOK', [Next]_vars
               PROVE  AnnounceRecorded' /\ AnnouncesRespectCooldown'
    BY DEF AnnounceInv
  <2>1. \/ UNCHANGED annVars
        \/ publish_announce(my_addrs)
        \/ publish_announce(my_addrs')
    BY DEF Next, vars, ConnectionEstablished, ConnectionClosed, IdentifyReceived,
           AnnounceMessage, MdnsDiscovered, NewListenAddr, ExternalAddrConfirmed,
           AutonatEvent, Tick
  <2>2. my_addrs \in SUBSET Addr /\ my_addrs' \in SUBSET Addr
    BY DEF AnnounceInv, TypeOK
  <2>3. CASE UNCHANGED annVars
    BY <2>3 DEF annVars, AnnounceInv, AnnounceRecorded, AnnouncesRespectCooldown, Last
  <2>4. CASE ~ UNCHANGED annVars
    <3>1. PICK mine \in SUBSET Addr : publish_announce(mine)
      BY <2>1, <2>2, <2>4
    <3> QED  BY <3>1, PublishKeepsSpacing
  <2> QED  BY <2>3, <2>4
<1>3. AnnounceInv => AnnouncesRespectCooldown
  BY DEF AnnounceInv
<1> QED  BY <1>1, <1>2, <1>3, TypeCorrect, PTL DEF Spec
-----------------------------------------------------------------------------
(* What is announced.                                                      *)

BareInv ==
  /\ Bare(my_addrs)
  /\ AnnouncesArePublic

(* Every announcement holds bare public addresses only, and at least one   *)
(* (publish_announce, p2p.rs 239 to 264).                                  *)
THEOREM AnnouncedPublic == Spec => []AnnouncesArePublic
<1>1. Init => BareInv
  BY DEF Init, BareInv, Bare, AnnouncesArePublic
<1>2. TypeOK /\ BareInv /\ [Next]_vars => BareInv'
  <2> SUFFICES ASSUME TypeOK, BareInv, [Next]_vars PROVE BareInv'
    OBVIOUS
  <2>1. my_addrs' = my_addrs \/ \E a : my_addrs' = my_addrs \cup announceable(a)
    BY DEF Next, vars, addrVars, ConnectionEstablished, ConnectionClosed, IdentifyReceived,
           AnnounceMessage, MdnsDiscovered, NewListenAddr, ExternalAddrConfirmed,
           AutonatEvent, Tick
  <2>2. Bare(my_addrs')
    BY <2>1, AnnounceableBare DEF BareInv, Bare
  <2>3. \/ UNCHANGED annVars
        \/ publish_announce(my_addrs)
        \/ publish_announce(my_addrs')
    BY DEF Next, vars, ConnectionEstablished, ConnectionClosed, IdentifyReceived,
           AnnounceMessage, MdnsDiscovered, NewListenAddr, ExternalAddrConfirmed,
           AutonatEvent, Tick
  <2>4. ASSUME NEW mine, Bare(mine), publish_announce(mine) PROVE AnnouncesArePublic'
    <3> DEFINE addrs == {a \in mine : is_public_udp_quic(a)}
               msg == [at |-> now, addrs |-> addrs]
               Msg == [at : Time, addrs : SUBSET Addr]
    <3>1. CASE UNCHANGED annVars
      BY <3>1 DEF annVars, BareInv, AnnouncesArePublic
    <3>2. CASE addrs # {} /\ announced' = Append(announced, msg)
      <4>1. msg.addrs # {} /\ Bare(msg.addrs)
        BY <2>4, <3>2 DEF Bare
      <4>2. announced \in Seq(Msg)
        BY DEF TypeOK
      <4> HIDE DEF msg, Msg
      <4>3. \A i \in 1..Len(announced') :
              (i \in 1..Len(announced) /\ announced'[i] = announced[i]) \/ announced'[i] = msg
        BY <3>2, <4>2
      <4> QED  BY <4>1, <4>3 DEF BareInv, AnnouncesArePublic, Bare
    <3> QED  BY <2>4, <3>1, <3>2 DEF publish_announce
  <2>5. AnnouncesArePublic'
    BY <2>2, <2>3, <2>4 DEF BareInv, annVars, AnnouncesArePublic
  <2> QED  BY <2>2, <2>5 DEF BareInv
<1>3. BareInv => AnnouncesArePublic
  BY DEF BareInv
<1> QED  BY <1>1, <1>2, <1>3, TypeCorrect, PTL DEF Spec
=============================================================================
