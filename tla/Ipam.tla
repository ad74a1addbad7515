-------------------------------- MODULE Ipam --------------------------------
(***************************************************************************)
(* derive_ip_from_peerid (src/src/ipam.rs): the address a node takes on    *)
(* the virtual network, from a hash of its PeerId.  Every node computes    *)
(* its own and nobody hands any out.  An IPv4 address is a number of       *)
(* AddrBits bits; a result that is an error is the empty set.              *)
(***************************************************************************)
EXTENDS Integers

CONSTANT AddrBits                            \* 32

ASSUME AddrBitsAssumption == AddrBits \in Nat

TwoTo[n \in Nat] == IF n = 0 THEN 1 ELSE 2 * TwoTo[n - 1]

(* So many addresses there are: 2^32 in the code.                          *)
NumAddrs == TwoTo[AddrBits]

(* Ipv4Network, which the code parses from the CIDR: the address may have  *)
(* host bits set, network() and broadcast() do not look at them.           *)
NetSize(prefix)   == TwoTo[AddrBits - prefix]
Network(ip, prefix)   == ip - (ip % NetSize(prefix))
Broadcast(ip, prefix) == Network(ip, prefix) + NetSize(prefix) - 1

usable_short(base, bcast) == bcast - base - 2                      \* mutant

\* (bcast - base).saturating_sub(1)
usable(base, bcast) == IF bcast = base THEN 0 ELSE bcast - base - 1

offset_from_zero(base, bcast, hash) ==                             \* mutant
  (hash % NumAddrs) % usable(base, bcast)

\* (hash as u32 % usable) + 1
offset(base, bcast, hash) == ((hash % NumAddrs) % usable(base, bcast)) + 1

derive(host_bits, base, bcast, hash) ==
  IF host_bits < 2 \/ usable(base, bcast) = 0 THEN {}
  ELSE {base + offset(base, bcast, hash)}

derive_ip_from_peerid(ip, prefix, hash) ==
  derive(AddrBits - prefix, Network(ip, prefix), Broadcast(ip, prefix), hash)

-----------------------------------------------------------------------------
\* The addresses of the network a host can have.
Hosts(base, bcast) == (base + 1)..(bcast - 1)

(* The modulus and the two offsets by one fit together: no hash, however   *)
(* wide, gives the network address or the broadcast address.               *)
IsHost(host_bits, base, bcast, hash) ==
  derive(host_bits, base, bcast, hash) \subseteq Hosts(base, bcast)

(* And no host address is out of reach of every hash; none is given out    *)
(* only where there is no room, in a /31 or a /32.                         *)
AllHosts(host_bits, base, bcast) ==
  UNION {derive(host_bits, base, bcast, h) : h \in 0..(NumAddrs - 1)} =
    IF host_bits < 2 THEN {} ELSE Hosts(base, bcast)
=============================================================================
