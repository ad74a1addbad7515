---------------------------- MODULE MCEventLoop ----------------------------
(***************************************************************************)
(* Instances of EventLoop for TLC: addresses of every kind the handlers    *)
(* tell apart, and what the other nodes may say.                           *)
(***************************************************************************)
EXTENDS EventLoop, TLC

CONSTANTS p1, p2, c1, c2, c3, c4

QuicAt(ip, port) == <<Ip4(ip), Udp(port), QuicV1>>

Public    == QuicAt(<<8, 8, 8>>, <<1>>)              \* a peer, as it is dialled
Suffixed  == Append(Public, P2p(<<"peer">>))         \* the same, as identify lists it
Private   == QuicAt(<<192, 168, 0>>, <<1>>)
OverTcp   == <<Ip4(<<8, 8, 8>>), Tcp(<<1>>)>>
RelayHost == QuicAt(<<9, 9, 9>>, <<1>>)
Circuit   == RelayHost \o <<P2p(<<"relay">>), P2pCircuit>>

NoAddr == {}

\* For runs that give every peer and every connection the same part.
Interchangeable == Permutations(Peer) \cup Permutations(ConnId)

\* Every kind of address, from three sources, and the node's own, as the swarm
\* reports them.
OwnPublic    == QuicAt(<<7, 7, 7>>, <<1>>)
OwnListen    == Append(OwnPublic, P2p(<<"self">>))
Reported     == {OwnListen, Private}
Occurring    == {Public, Suffixed, Private, OverTcp, RelayHost, Circuit, OwnPublic, OwnListen}
Identified   == {[listen_addrs |-> {Suffixed, Private, OverTcp, Circuit}, observed_addr |-> OwnListen]}
AnnouncedAs  == {{Public, Circuit, Private}}
DiscoveredAt == {Public}
=============================================================================
