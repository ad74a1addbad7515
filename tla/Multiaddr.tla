----------------------------- MODULE Multiaddr -----------------------------
(***************************************************************************)
(* The address helpers of src/src/p2p.rs: which multiaddrs the node dials  *)
(* and announces, and the canonical form it gives them.                    *)
(*                                                                         *)
(* A multiaddr is a sequence of protocol components, as libp2p's           *)
(* Multiaddr::iter yields them.  A component is a record whose val is a    *)
(* tuple, so that any two components can be compared.  An Option of the    *)
(* source is a set of at most one element.                                 *)
(***************************************************************************)
EXTENDS Integers, Sequences

Ip4(octets)  == [proto |-> "ip4",         val |-> octets]   \* <<a, b, c>>: the /24
Udp(port)    == [proto |-> "udp",         val |-> port]     \* port is a 1-tuple
Tcp(port)    == [proto |-> "tcp",         val |-> port]
QuicV1       == [proto |-> "quic-v1",     val |-> <<>>]
P2p(id)      == [proto |-> "p2p",         val |-> id]
P2pCircuit   == [proto |-> "p2p-circuit", val |-> <<>>]

Has(addr, proto) == \E i \in DOMAIN addr : addr[i].proto = proto

(* The address runs through a relay: addr.iter().any(.. P2pCircuit ..).    *)
is_circuit(addr) == Has(addr, "p2p-circuit")

(* The value a loop over the first n components leaves in an Option that   *)
(* every component of kind proto overwrites.                               *)
LastVal(addr, proto, n) ==
  LET at == {i \in 1..n : addr[i].proto = proto}
  IN  {addr[i].val : i \in {j \in at : \A k \in at : k <= j}}

is_public_ipv4_wide_mask(octets) ==                                \* mutant
  LET a == octets[1]
      b == octets[2]
  IN  ~ \/ a \in {0, 10, 127}
        \/ a = 100 /\ b \in 64..95         \* b & 0b1110_0000
        \/ a = 169 /\ b = 254
        \/ a = 172 /\ b \in 16..31
        \/ a = 192 /\ b \in {0, 2, 168}
        \/ a = 198 /\ b \in {18, 19, 51}
        \/ a = 203 /\ b = 0
        \/ a \in 224..255

(* is_public_ipv4 looks at the first two octets only.                      *)
is_public_ipv4(octets) ==
  LET a == octets[1]
      b == octets[2]
  IN  ~ \/ a \in {0, 10, 127}
        \/ a = 100 /\ b \in 64..127        \* b & 0b1100_0000 = 0b0100_0000
        \/ a = 169 /\ b = 254
        \/ a = 172 /\ b \in 16..31
        \/ a = 192 /\ b \in {0, 2, 168}
        \/ a = 198 /\ b \in {18, 19, 51}
        \/ a = 203 /\ b = 0
        \/ a \in 224..255

is_public_udp_quic(addr) ==
  /\ ~ is_circuit(addr)
  /\ Has(addr, "udp")
  /\ Has(addr, "quic-v1")
  /\ \E ip \in LastVal(addr, "ip4", Len(addr)) : is_public_ipv4(ip)

(* udp_ip_port stops at the first quic-v1 component, and asks for none.    *)
BeforeQuic(addr) ==
  CHOOSE n \in 0..Len(addr) :
    /\ \A i \in 1..n : addr[i].proto # "quic-v1"
    /\ n = Len(addr) \/ addr[n + 1].proto = "quic-v1"

udp_ip_port(addr) ==
  LET n == BeforeQuic(addr)
  IN  LastVal(addr, "ip4", n) \X LastVal(addr, "udp", n)

rebuild_udp_quic(addr) ==
  {<<Ip4(x[1]), Udp(x[2]), QuicV1>> : x \in udp_ip_port(addr)}

(* rebuild_udp_quic(&addr).unwrap_or(addr)                                 *)
canonical(addr) ==
  IF rebuild_udp_quic(addr) = {} THEN addr
  ELSE CHOOSE r \in rebuild_udp_quic(addr) : TRUE

(* What the Identify handler dials for a listed address: a relay address   *)
(* as it stands, a public UDP/QUIC address in canonical form, else nothing.*)
identify_target(addr) ==
  IF is_circuit(addr) THEN {addr}
  ELSE {a \in {canonical(addr)} : is_public_udp_quic(a)}

announceable_as_reported(addr) ==                                  \* mutant
  {a \in {addr} : is_public_udp_quic(a)}

(* What NewListenAddr and ExternalAddrConfirmed add to my_addrs for an     *)
(* address the swarm reports.                                              *)
announceable(addr) == {a \in rebuild_udp_quic(addr) : is_public_udp_quic(a)}
=============================================================================
