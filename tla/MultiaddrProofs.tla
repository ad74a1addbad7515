--------------------------- MODULE MultiaddrProofs ---------------------------
(***************************************************************************)
(* Proofs about Multiaddr, for every address: what a node announces is     *)
(* what the others dial, and what it dials for Identify is public.         *)
(***************************************************************************)
EXTENDS Multiaddr, TLAPS

QuicAddr(ip, port) == <<Ip4(ip), Udp(port), QuicV1>>

(* A bare UDP/QUIC address is its own canonical form.                      *)
LEMMA QuicAddrCanonical ==
  ASSUME NEW ip, NEW port
  PROVE  canonical(QuicAddr(ip, port)) = QuicAddr(ip, port)
<1> DEFINE r == QuicAddr(ip, port)
<1>1. /\ Len(r) = 3 /\ r[1].proto = "ip4" /\ r[2].proto = "udp" /\ r[3].proto = "quic-v1"
      /\ r[1].val = ip /\ r[2].val = port
  BY DEF QuicAddr, Ip4, Udp, QuicV1
<1> HIDE DEF r
<1>2. BeforeQuic(r) = 2
  <2> DEFINE Stops(n) == /\ \A i \in 1..n : r[i].proto # "quic-v1"
                         /\ n = Len(r) \/ r[n + 1].proto = "quic-v1"
  <2>1. Stops(2)
    <3>1. \A i \in 1..2 : i = 1 \/ i = 2  OBVIOUS
    <3> QED  BY <1>1, <3>1
  <2>2. ASSUME NEW n \in 0..3, Stops(n) PROVE n = 2
    <3>1. n = 0 \/ n = 1 \/ n = 2 \/ n = 3  OBVIOUS
    <3>2. n # 3
      <4>1. n = 3 => 3 \in 1..n  OBVIOUS
      <4> QED  BY <1>1, <2>2, <4>1
    <3>3. n # 0 /\ n # 1  BY <1>1, <2>2
    <3> QED  BY <3>1, <3>2, <3>3
  <2>3. BeforeQuic(r) = CHOOSE n \in 0..3 : Stops(n)
    BY <1>1 DEF BeforeQuic
  <2> HIDE DEF Stops
  <2> QED  BY <2>1, <2>2, <2>3
<1>3. {i \in 1..2 : r[i].proto = "ip4"} = {1} /\ {i \in 1..2 : r[i].proto = "udp"} = {2}
  <2>1. \A i \in 1..2 : i = 1 \/ i = 2  OBVIOUS
  <2> QED  BY <1>1, <2>1
<1>4. LastVal(r, "ip4", 2) = {ip} /\ LastVal(r, "udp", 2) = {port}
  BY <1>1, <1>3 DEF LastVal
<1>5. udp_ip_port(r) = {<<ip, port>>}
  BY <1>2, <1>4 DEF udp_ip_port
<1>6. rebuild_udp_quic(r) = {r}
  <2>1. rebuild_udp_quic(r) = {QuicAddr(x[1], x[2]) : x \in udp_ip_port(r)}
    BY DEF rebuild_udp_quic, QuicAddr
  <2>2. rebuild_udp_quic(r) = {QuicAddr(ip, port)}
    BY <1>5, <2>1
  <2> QED  BY <2>2 DEF r
<1>7. canonical(r) = r
  BY <1>6 DEF canonical
<1> QED  BY <1>7 DEF r

Bare(addrs) == \A a \in addrs : is_public_udp_quic(a) /\ canonical(a) = a

(* What NewListenAddr and ExternalAddrConfirmed take into my_addrs is      *)
(* public and canonical, whatever address the swarm reports.               *)
LEMMA AnnounceableBare ==
  ASSUME NEW a
  PROVE  Bare(announceable(a))
<1> SUFFICES ASSUME NEW r \in announceable(a)
             PROVE  is_public_udp_quic(r) /\ canonical(r) = r
  BY DEF Bare
<1>1. PICK x \in udp_ip_port(a) : r = QuicAddr(x[1], x[2])
  BY DEF announceable, rebuild_udp_quic, QuicAddr
<1> QED  BY <1>1, QuicAddrCanonical DEF announceable

(* So identify dials it unchanged, under the key that the announcement is  *)
(* filed under: what one node announces suits all others.                  *)
THEOREM AnnouncedDialedUnchanged ==
  ASSUME NEW a, NEW r \in announceable(a)
  PROVE  is_public_udp_quic(r) /\ identify_target(r) = {r}
<1>1. is_public_udp_quic(r) /\ canonical(r) = r
  BY AnnounceableBare DEF Bare
<1>2. ~ is_circuit(r)
  BY <1>1 DEF is_public_udp_quic
<1> QED  BY <1>1, <1>2 DEF identify_target

-----------------------------------------------------------------------------
(* What identify dials.                                                    *)

NamesOne(a, proto) ==
  \A i, j \in DOMAIN a : a[i].proto = proto /\ a[j].proto = proto => i = j

(* A bare UDP/QUIC address names one host.                                 *)
LEMMA QuicAddrNamesOne ==
  ASSUME NEW ip, NEW port
  PROVE  DOMAIN QuicAddr(ip, port) = 1..Len(QuicAddr(ip, port))
         /\ NamesOne(QuicAddr(ip, port), "ip4")
<1> DEFINE r == QuicAddr(ip, port)
<1>1. /\ DOMAIN r = 1..3 /\ Len(r) = 3
      /\ r[1].proto = "ip4" /\ r[2].proto = "udp" /\ r[3].proto = "quic-v1"
  BY DEF QuicAddr, Ip4, Udp, QuicV1
<1> HIDE DEF r
<1>2. \A i \in DOMAIN r : r[i].proto = "ip4" => i = 1
  <2>1. \A i \in 1..3 : i = 1 \/ i = 2 \/ i = 3
    OBVIOUS
  <2> QED  BY <1>1, <2>1
<1>3. NamesOne(r, "ip4")
  BY <1>2 DEF NamesOne
<1> QED  BY <1>1, <1>3 DEF r

(* The host a direct dial goes to passed is_public_ipv4: the address that  *)
(* is tested, the last one, is the one that is dialed (p2p.rs 189 to 234   *)
(* and 431 to 446).                                                        *)
THEOREM DialedIsPublic ==
  ASSUME NEW a, DOMAIN a = 1..Len(a), NamesOne(a, "ip4"),
         NEW t \in identify_target(a), ~ is_circuit(t),
         NEW i \in DOMAIN t, t[i].proto = "ip4"
  PROVE  is_public_ipv4(t[i].val)
<1>1. t = canonical(a) /\ is_public_udp_quic(t)
  <2>1. CASE is_circuit(a)
    BY <2>1 DEF identify_target
  <2>2. CASE ~ is_circuit(a)
    BY <2>2 DEF identify_target
  <2> QED  BY <2>1, <2>2
<1>2. DOMAIN t = 1..Len(t) /\ NamesOne(t, "ip4")
  <2>1. CASE rebuild_udp_quic(a) = {}
    BY <1>1, <2>1 DEF canonical
  <2>2. CASE rebuild_udp_quic(a) # {}
    <3>1. t \in rebuild_udp_quic(a)
      <4> HIDE DEF rebuild_udp_quic
      <4> QED  BY <1>1, <2>2 DEF canonical
    <3>2. PICK x \in udp_ip_port(a) : t = QuicAddr(x[1], x[2])
      BY <3>1 DEF rebuild_udp_quic, QuicAddr
    <3> QED  BY <3>2, QuicAddrNamesOne
  <2> QED  BY <2>1, <2>2
<1>3. PICK ip \in LastVal(t, "ip4", Len(t)) : is_public_ipv4(ip)
  BY <1>1 DEF is_public_udp_quic
<1>4. PICK j \in 1..Len(t) : t[j].proto = "ip4" /\ ip = t[j].val
  BY DEF LastVal
<1>5. i = j
  BY <1>2, <1>4 DEF NamesOne
<1> QED  BY <1>3, <1>4, <1>5
=============================================================================
