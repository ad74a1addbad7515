# CocoNet in TLA+

CocoNet joins machines into one virtual network: each node reads IP packets from
a TUN device, sends them to the other nodes over libp2p (QUIC, gossipsub,
request/response, Kademlia, identify, mDNS, relay with DCUtR, AutoNAT), and
writes what it receives back to its device. This directory holds TLA+ models of
the program, TLC configurations that check them on small instances, and proofs,
checked by TLAPS, of their main properties for every value of the constants.

Source lines below are `src/<file>:<line>` of the Rust crate, i.e. `src/src/` in
the paths of `PROJECT.json`; "README" with a line number is the repository's own.

## 1. The system

One process per node. `main` derives an address, opens the TUN device, starts a
bridge task and two pump tasks, and creates a `P2pNode`, which spawns a single
task: a `tokio::select!` loop with three arms.

    TUN device <-> bridge task <-> duplex byte stream (64 KiB) <-> pump tasks
                                              |            ^
                                unbounded channel      unbounded channel
                                              v            |
     interval --> [ select! loop: batch builder, swarm events ] <--> libp2p Swarm

| Component | State | Operations | Model |
|---|---|---|---|
| Swarm event loop, control plane (p2p.rs:166-264, 376-655) | `relayed_conns`, `direct_peers`, `recent_dials`, `my_addrs`, `last_announce`, `announced_once`, `kad_bootstrapped` | one handler per swarm event; `publish_announce` | `EventLoop`, `PathPolicy` |
| Address helpers (p2p.rs:188-237, 445-468, 673-686) | none | `is_public_ipv4`, `is_public_udp_quic`, `rebuild_udp_quic`, `udp_ip_port` | `Multiaddr` |
| Outgoing data plane (p2p.rs:266-375) | `BatchBuilder` (`buf`, `pkt_count`), the channel from TUN, `direct_peers` | tick arm, recv arm, `flush_batch` | `PacketBatch`, `Overlay` |
| Inbound data plane (p2p.rs:49-65, 384-400, 549-578) | none | split a batch, hand each packet to TUN, acknowledge | `BatchCodec`, `Overlay` |
| TUN bridge (tun.rs:39-56) and the pump from TUN (routing.rs:41-62) | the duplex stream, two unbounded channels | copy both ways | `TunBridge` |
| Wintun bridge (tun.rs:86-141) | a bounded channel, two blocking threads | copy both ways | `TunBridge`, `platform = "windows"` |
| IPv4 fragmentation and the pump to TUN (routing.rs:64-239) | the channel, the frames of the packet at hand | split a packet over the MTU, write its frames | `Ipv4Fragment`, `Ipv4Checksum` |
| Address derivation (ipam.rs) | none | hash a peer id into a prefix | `Ipam` |
| Node lifecycle (main.rs:73-104) | the tasks, and the channels between them | start; a task ends | `Lifecycle` |
| UPnP mapping (p2p.rs:592-597, 688-706) | none in the process | one blocking call | not modelled |
| Interface configuration, packet logging, `acl`, `config`, build scripts | none that other code uses | | not modelled |

### How the parts interact

- The loop's three arms share `direct_peers`: the swarm arm writes it
  (`ConnectionEstablished`), the other two read it on every flush. Nothing else
  of the loop's state is shared between arms.
- The handlers of the swarm arm share `recent_dials` (identify and announce; not
  mDNS), `my_addrs` and `last_announce` (five handlers publish), and
  `relayed_conns`/`direct_peers` (connections).
- The loop talks to the Swarm by calls that return at once (`dial`,
  `close_connection`, `add_external_address`, `kad.add_address`, `publish`,
  `send_request`) and learns what came of them from later events, in an order
  the swarm chooses.
- A handler contains no `await`, so it runs to its end before another event is
  looked at. A handler is therefore one step of the model.
- Nodes meet only in the swarm: a batch goes as a gossipsub message, which other
  nodes pass on, or as a request, which is acknowledged once its packets are in
  the receiver's channel to TUN.
- A task learns that another has ended from their channel alone. `main` waits for
  ever (p2p.rs:661-667) and restarts none.
- The bridge and the pumps run beside the loop. Bytes cross between them in two
  bounded streams, which know nothing of packets.

### What is hard here

- *Order of events.* Direct and relayed connections to one peer come and go in
  any order; addresses of a peer arrive before, between and after connections,
  from three sources.
- *State that outlives what it describes.* `relayed_conns` keeps ids of closed
  connections, `direct_peers` is never reduced, `my_addrs` is never reduced.
- *Time.* Two cooldowns are kept by several handlers, and one of them also
  deletes records by age.
- *Loss.* Connections go with requests and answers on them; a request reported
  as failed may have arrived. Copies of a message come by several paths while
  nodes change from the mesh to requests.
- *Limits.* Batch limits are checked before adding, on sums that include a
  length prefix; a large packet goes past the batch; the streams are bounded and
  the bridge does not read one while it waits to write to the other.
- *Boundaries.* Lengths and counts in a message are the peer's word. Fragments
  have lengths in bytes, offsets in eights of bytes, a flag on all but one, and
  may come from packets that are fragments already. Byte streams cut and join.
- *Failure.* Publishing may fail and is only logged; so are failed requests. A
  failed device ends the bridge, and the pumps learn of it by themselves. A panic
  ends the task it is in, or, in a release build, the process (Cargo.toml:81).

`PROJECT.json` lists each hazard at its line, with the properties that watch it.

### What makes each component correct

- Connections: a relayed connection gives way to a direct one, whichever came
  first; a direct connection is never closed by the loop; the last path to a
  peer should not be cut.
- Dialling: two dials of one address of one peer are a cooldown apart, and nothing
  but a dial within the cooldown keeps off an address that identify or an
  announcement brings; mDNS is outside both.
- Announcing: announcements are a cooldown apart; they carry public, bare
  addresses, which receivers dial unchanged.
- Outgoing data: no packet is lost, doubled or overtaken between TUN and the
  hand-over; batches stay within limits; nothing waits for ever.
- Between nodes: a batch reaches each other node's device at most once, and its
  sender's never; the direct path loses none in silence; one message should not
  be taken for another.
- Inbound data: what is decoded is what was encoded; a batch that is cut yields
  its first packets, whole, and a request arrives whole or not at all; no bytes of a peer lead outside the message.
- Bridge: no byte is lost or moved; packets should keep their boundaries; the two
  directions do not block each other; a failure ends the pumps too.
- Fragmentation: fragments reassemble to the datagram that was sent, none is
  missing, none is over the MTU, also when the packet was a fragment already;
  their checksums hold.
- Lifecycle: a task that ends takes those with it that depend on it, and no
  others; the event loop should not end.
- Address derivation: the host lies strictly between network and broadcast, and
  every host can be derived.

## 2. The modules

Who uses whom: `EventLoop` EXTENDS `Multiaddr` and instantiates `PathPolicy`
under a refinement mapping, as `PacketBatch` does `Forwarding` and `Overlay` does
`Datagrams`; `MCInputs` EXTENDS
the four modules of pure functions (`Multiaddr`, `Ipam`, `BatchCodec`,
`Ipv4Checksum`); each other `MC<Module>` EXTENDS its module and adds the values a
run needs; each `<Module>Proofs` EXTENDS its module and TLAPS, `InputsProofs`
that of `MCInputs`, and both it and `EventLoopProofs` use the lemmas on addresses
in `MultiaddrProofs`. `Overlay` takes up where `PacketBatch` ends, and
`Ipv4Fragment` hands `TunBridge` its frames; they share no variables, so they are
separate specifications and not one product, whose states would be too many.

### `Multiaddr`

A multiaddr is the sequence of components `Multiaddr::iter` yields; a Rust
`Option` is a set of at most one element. Each helper has an operator of its
name. The loops of the source overwrite an `Option` with every component of a
kind, so `LastVal` takes the last one, and `udp_ip_port` stops at the first
`quic-v1` (`BeforeQuic`). Only the first three octets of an address are kept:
the code reads two, and the comment above it names blocks of at most 24 bits.
`identify_target` and `announceable` are what the identify handler dials, and
what `NewListenAddr` and `ExternalAddrConfirmed` add to `my_addrs`.

### `EventLoop`

The variables named in the table are the loop's own; `open`, `used`, `closing`,
`external_addrs` and `kad_addrs` are what the loop has told the Swarm or the
Swarm has told the loop; `now` is `Instant::now()`; `dials` and `announced` are
history, read by properties and written beside the call they record.

| Action | Handler |
|---|---|
| `ConnectionEstablished` | p2p.rs:616-647: first-connection announcement, then one of three cases |
| `ConnectionClosed` | 648-650: only logged |
| `IdentifyReceived` | 431-498: retain, dial, add to Kademlia, observed address, announce, bootstrap |
| `AnnounceMessage` | 401-429 |
| `MdnsDiscovered` | 502-524: a whole list in one step |
| `NewListenAddr`, `ExternalAddrConfirmed` | 580-608 |
| `AutonatEvent` | 544-548 |
| `Tick` | time |

The handlers that only log (609-614, and the last arm, 651) change nothing and
have no action.

Abstractions, and why they are sound for the properties:

- The addresses of one message are dialled as a set. The source walks a list
  and stamps `recent_dials` as it goes, so a second occurrence in the list is
  already cooling down: one dial, as with a set.
- An absent entry of `recent_dials` is `Never`, of `relayed_conns` the empty set.
- ConnectionIds are never used twice; libp2p draws them from a counter.
- `publish` may fail at any time (no subscriber, duplicate, full queue): then
  `last_announce` stays as it was, which is the other disjunct of
  `publish_announce`.
- `close_connection` on an id that is gone does nothing (`surplus`).
- The swarm opens and loses connections at will, whether or not the loop
  dialled: hole punching, incoming connections and `send_request` to a peer
  without a connection all do that.
- The dials of mDNS change nothing of the loop's and are not in `dials`, so what is
  said of dials is said of those that identify and announcements bring about.
- Times are ticks. The source compares `Instant`s by `<` and `>=` only.

### `PathPolicy`

What the loop promises about paths, without its books: a peer is *upgraded* by
its first direct connection; every relayed connection to it, earlier or later,
is on its way out; nothing else is. It keeps whole connections with their peers,
where `EventLoop` keeps bare ids per peer, some of them long stale. The mapping
(`Policy` in `EventLoop`) takes for `direct` and `relayed` the open connections
of each kind that are not closing, for `leaving` those that are, `direct_peers`
for `upgraded` and `used` for `given`. The policy never takes a peer out of
`upgraded`: that is what the code does, and what the run `last_path` is about.

### `PacketBatch`

The channel, the batch (packets in the order of `buf`, the byte count of
`payload_size()`), and the destination `flush_batch` chooses: the empty set is a
publish to the mesh, otherwise the direct peers get a request each. `PacketRead`
is the pump's send, `IntervalTick`, `TakeLarge` and `TakeSmall` are the arms of
`select!`, `Connect` is the part of `EventLoop`'s `ConnectionEstablished` the
data plane sees. `TakeSmall` keeps the refusal of `add` at `u16::MAX`, whose
result the loop ignores. It is unreachable only under `CountFits`, that is
`MaxBatchPkts <= U16Max`; `COCONET_BATCH_MAX_PKTS` may be set above that, and then
a packet is lost. So nothing about order or loss is claimed of such limits, nor
about the size of batches without `BytesFit` (`MaxBatchBytes >= 5`): the two are
hypotheses of the theorems, and hold in the run and of the defaults. The `None` arm of `recv` is left out: `main`
keeps a sender while it runs.

### `Forwarding`

What the outgoing data plane promises the TUN device, without its channel, its
batches and their limits: some packets are handed over at a time, always those
that are next, each to the mesh or to all the peers that are direct at that
moment, and none stays behind for ever. The mapping (`Forward` in `PacketBatch`)
hides the channel, the batch and its size. What the policy adds to
`HandedOverInOrder` is the destination: `direct_peers` changes while packets wait
in the batch, and a batch goes to those of the time it is flushed.

### `BatchCodec`

A byte is a number below `Base`, a `u16` two of them. `Batch` writes what
`BatchBuilder` writes; `Slices` gives the positions of the packets a receiver
finds in any bytes, with the source's two early exits; both inbound paths, the
mesh's and the request's, hold the same loop. Positions rather than contents,
since the question about malformed input is whether a slice lies inside it.
The loop is a recursive function on the number of turns (`Turns`), one turn of it
`Turn`, so that lemmas can be about a turn.
`write_request` and `read_request` are those of `DataCodec`, which puts a length of
four bytes before a request; a response is framed alike, and is empty.

### `Overlay`

Several nodes. A batch is a number; `sent` says who handed it over and to which
peers. `Request`s travel over `wire`, answers over `acks`, copies of gossipsub
messages over `copies`, each over the connection of two nodes, and go with it
(`Disconnect`).

| Action | Code |
|---|---|
| `HandOver(n, is_large)` | `flush_batch` and the large packet, p2p.rs:329-346, 356-363 |
| `GossipMessage` | 378-400 |
| `RrRequest` | 552-566: packets to TUN, then the response |
| `RrResponse` | 567: ignored |
| `OutboundFailure` | 569-571: logged |
| `SeesDirect` | `ConnectionEstablished`, for the one variable the data plane reads |
| `Connect`, `Disconnect`, `Forget` | libp2p |

Assumed of libp2p, and external: gossipsub sends a message to each neighbour and
a node that sees it for the first time passes it on and delivers it; its
duplicate cache forgets an id only after the last copy is gone (a minute against
a network's delay); the default id of a message is its source and its sequence
number; a request is delivered at most once, and the sender hears of it once, by
an answer or by a failure, and after a failure the request may still arrive, or
have arrived.

### `Datagrams`

What all of `Overlay` comes to between TUN devices: a batch is for the direct peers
of its sender, or for all other nodes; it gets to each of these once at most and
to no other; and the sender hears of each request at most once, of success only
after delivery. Connections, the wire, copies and gossipsub's cache are gone; `tun`
and `waiting` are mapped to `got` and `open`.

### `TunBridge`

Both directions of the stream, counted in bytes from its start: `total` handed
to the writer in frames that end at `ends`, `written` and `taken`. What the bytes
are does not matter; where frames end does. `platform` chooses the `open_tun`
that is compiled.

| Action | Code |
|---|---|
| `DeviceRead` | tun.rs:48-49 (Unix: only between two copies), 100-116 (Windows: a thread and an unbounded channel) |
| `Received` | the sends to `tx_to_tun`, p2p.rs:394-399, 555-560 |
| `WriteSome("down")` | the `write_all`s of `pump_p2p_to_tun`, routing.rs:126-142, as far as room allows |
| `WriteSome("up")` | tun.rs:49, 93-98 |
| `PumpRead` | `pump_tun_to_p2p`, routing.rs:41-62 |
| `BridgeRead` | tun.rs:51-52, 132-141 |
| `DeviceWrite`; `SendPacket`, `DropPacket`, `SenderPanics` | tun.rs:52; 122-130 |
| `DeviceFails`, `PumpEnds` | the `break`s of both loops and what the pumps see of them |

The duplex stream is external: bytes keep their order, a write fills the room
there is, a read takes what there is.

### `Ipv4Fragment` and `Ipv4Checksum`

A packet is a record of the header fields the code reads or writes (`ihl` in
bytes, `off` in units of eight, `flags`) and of `len`, what `pkt.len()` returns.
Its payload is not a string of bytes but an interval of its datagram's payload:
`from` is where it starts. The code cannot see `from`; it says what the bytes
are, while the header says where the receiver will put them, and the properties
compare the two. `Fragmentable` collects the early returns of
`ipv4_fragment_if_needed`, `Offsets` the values `offset` takes in its loop,
`Fragment` the header it builds, with the 16 and 13 bit fields cut to width.
`Take` is one round of `pump_p2p_to_tun`, `WriteFrame` one `write_all` (there is
an `await` in each, so other tasks run between them), `WriteFails` its error
return, after which the pump is gone and its channel closed. `respect_df` is the
environment variable `COCONET_RESPECT_DF`, read at every packet and constant
while the process runs.

The receiver is the kernel behind the device, and external: `Ends` and `Bytes`
define when it finds a datagram complete, and what it may take for its bytes, by
RFC 791 only, for any set of frames in any order and with overlaps.

`Ipv4Checksum` has the header as 16-bit words, the sum with its carries, and the
kernel's test. The source's branch for an odd number of bytes is unreachable, as
a header is a multiple of four bytes long.

Left out: IP options (copied as they are into every fragment), and the routes the
pump adds on Windows.

### `Ipam`

`derive_ip_from_peerid` on numbers of any width, `AddrBits` (32 in the code), with the two errors for
networks without room as the empty set. The hash is any number: the code cuts it
to 32 bits and reduces it.

### `Lifecycle`

What a failure brings down. A *leg* is a task that takes packets from one place
and puts them into another; `NodeLegs` are the pumps and the loop, `BridgeLegs`
those of either `open_tun`. Packets are only counted. `ReadEnd` and `WriteEnd` say
who holds the ends of a channel: the tasks that use it, for the duplex stream
also those with the other half (`tokio::io::split` shares one end), and for
`rx_from_tun` the node that `main` keeps (p2p.rs:660, 670).

| Action | Code |
|---|---|
| `Carry` | a receive or read, and a send or write that there is room for |
| `SendFails` | no reader is left: routing.rs:55-60, 126-142, tun.rs:49, 96, 137 end the task; tun.rs:110 and the loop (p2p.rs:394-399) ignore it |
| `SourceEnds` | no writer is left: routing.rs:45, 75, tun.rs:52, 95, 123, 138 |
| `DeviceFails` | tun.rs:47-56; 104-112 |
| `SenderPanics` | tun.rs:126 |
| `ZeroInterval` | p2p.rs:326, with `COCONET_BATCH_INTERVAL_MS=0` |
| `ClockTooYoung` | p2p.rs:415, 456, 475: `Instant::now() - dial_cooldown * 2` |

`panic` is the profile's strategy: with `abort`, which the release profile has, a
panic ends every task at once, and `main` too. `TunBridge` has the same choice.

The two legs of the Unix bridge are one task, which does not read the one stream
while it waits to write to the other; `TunBridge` models that. In `Lifecycle` each
leg goes on by itself. That hides no task that is stuck: on Unix the loop ends only
before its first round, when nothing has come for the device, and once both pumps
are gone the bridge's write fails.

## 3. The runs

| Run | Shows | Bounds |
|---|---|---|
| `connections` | `NoRelayBesideDirect`, `DirectNeverClosed`, `RelayGivesWay`, `ImplementsPathPolicy` | 2 peers, 4 connections of either kind in any order: two relayed before a direct one, a relayed one after it, and a second peer that must be unaffected |
| `addresses` | `DialsRespectCooldown`, `HeardIsDialed`, `AnnouncesRespectCooldown`, `AnnouncesArePublic` | 2 peers and the node itself, 1 connection of either kind, an address of each kind the handlers tell apart, 2 own addresses (suffixed, private), cooldowns of 2 in 4 instants: an address is heard of again before, at and after the end of its cooldown, its entry removed in between or not; two announcements are one cooldown apart, and more; one peer's entries are there beside another's |
| `inputs` | `ReservedNeverDialed`, `AnnouncedIsDialed`; `DerivedIsHost`, `EveryHostDerived`; `BatchReadsAsWritten`, `RequestWholeOrNot`, `AnyBytesStayInside`; `FragmentHeaderVerifies` | octets on either side of every block boundary with the components in any order, and every address of up to 5 components of 8 kinds; every prefix of 4-bit addresses with hashes wider than an address; batches of up to 3 packets of up to 3 bytes, bytes being bits and a `u16` counting to 3; every message of up to 11 bytes; headers of 10 words of 0, 1 and 65535, whose sums carry twice |
| `batch_handover` | `HandedOverInOrder`, `BatchWithinLimits`, `EventuallyHandedOver`, `ImplementsForwarding` | 2 peers that become direct in any order and at any time, also while a batch waits; 5 packets of 4 lengths, 16 bytes and 3 packets per batch: each of the two limits is met first in some run, and a packet just over and just at half a batch occurs |
| `delivery` | `DeliveredOnce`, `LossIsReported`, `ImplementsDatagrams` | 3 nodes, so that a copy comes by two paths or from a node that passes it on, and 2 batches, so that one is under way while the next takes the other path |
| `bridge` | `StreamIntact`, `CutOnlyWhenFull`, `EventuallyThrough`, `FailureReachesPumps` | both platforms; streams of 4 bytes and frames of 2 and 3, up to 6 bytes each way, so frames are joined and cut and both streams get full; a channel of 1; a packet of 4 is too long for Windows, as 65536 is |
| `task_ends` | `FailureContained`, `LoopEndReachesPumps`, `PumpEndReachesBridge` | both platforms and panic strategies; the interval 0 or not; any of the loop, the device and the sending thread fails at any time, alone or together; 2 packets per channel, so that channels are empty, in between and full (the unbounded ones are bounded so) |
| `fragments` | `ReassembledAsSent`, `NothingMissing`, `FragmentsFit` | 4 packets out of 6 kinds with an MTU of 44: a datagram that just fits, one byte more, two full fragments, a header with options (fragments of another size), bytes after the datagram, IPv6; duplicates occur, both settings of `respect_df` do, and a write may fail after any frame |

Each also checks its module's `TypeOK`, where there is one; `connections` does for
`EventLoop`, which `addresses` shares. `addresses` and
`delivery` use symmetry, of peers and connections and of nodes; they check no
liveness. The bounds (`MaxTime`, `MaxPackets`, `MaxBatches`, `MaxBytes`, `Room`, `MaxUptime`) stand in
the guards, each declared as a bound.

Deadlock is not checked where the system really stops: in `inputs`, which grow to
their length; in the runs of `Ipv4Fragment` and `TunBridge`, where a failed write
ends the tasks, and in those of `Lifecycle`; and in those of `Overlay`, where all batches are handed over.
What must not stop there is stated as liveness (`EventuallyThrough`, `EventuallyHandedOver`).

Four runs state what the documentation says and find that the code differs:

| Run | Statement | What happens |
|---|---|---|
| `last_path` | `NeverCutsLastPath`: the relay fallback keeps peers connected (README:139, README:3) | `ConnectionClosed` leaves `direct_peers` alone. After a direct connection has died, the next relayed connection to that peer is closed on arrival. |
| `message_identity` | `NoneTakenForAnother`: what is read from TUN is published (README:26) | anonymous messages have neither source nor sequence number, of which gossipsub makes its default ids, so a message published or received within a minute of another counts as its duplicate. |
| `joined_packets` | `OneFramePerWrite`: messages received are written back to TUN (README:27) | the byte stream does not mark packets: two that are written before the bridge reads are given to the device as one write, which it takes for one packet. |
| `split_twice` | `ReassembledAsSent`, for packets that are fragments: fragmentation by RFC 791 (README:203) | offset and MF are made anew, so a fragment that is split again moves to the datagram's start and its last piece claims to end it. The receiver completes a datagram that is cut short. The default MTUs, 1400 and 1300 on Windows (tun.rs:20-21), bring such packets about. |

Other places where the code and its documentation differ, each to be read off one
line, so that no run is spent on them:

- Relay addresses are to be dialled when a peer has no other (README:29, README:139).
  The identify handler looks only at whether the peer is direct: p2p.rs:449-465
  dials a circuit address beside a public one of the same message.
- Direct dials are to go only to public IPv4 UDP/QUIC addresses (README:135); mDNS
  dials private and TCP ones as well (p2p.rs:509-522).
- mDNS dials without the cooldown README:137 states for every peer and address.
- Announcing is called periodic (README:24), but only events bring it about; the
  cooldown spaces announcements and causes none.
- Deriving an address from the PeerId is to avoid conflicts (README:167). It is a
  hash, and two peers may get the same address (ipam.rs:16).
- Addresses that expire are only logged (p2p.rs:609-614) and go on being
  announced; README:24 speaks of reachable ones.
- One direct peer diverts every small batch from the mesh (p2p.rs:334); README:3
  and README:26 have peers without a direct connection served by the relay.
- The comment at p2p.rs:192-195 lists blocks of 24 bits; the code reads two
  octets, so whole /16 blocks go, and 192.2.0.0/16 is in no list.
- A packet with DF is split unless `COCONET_RESPECT_DF` is set
  (routing.rs:119-125), while README:205 says it is written as it is.
- `--cidr` is said to take an IPv6 prefix (main.rs:22), but ipam.rs:8 and
  main.rs:81 parse IPv4 only, so the node does not start.
- `or_insert(Instant::now() - dial_cooldown * 2)` (p2p.rs:415, 456, 475) evaluates
  its argument at every dial, whether or not an entry is missing. Where `Instant`
  counts from the start of the machine, as on Windows, it panics until the machine
  has been up for 60 s (`ClockTooYoung`): a release build aborts, a debug build
  loses its loop while `main` waits on, for which main.rs:101 says "Run swarm/event
  loop".
- `COCONET_BATCH_INTERVAL_MS` may be overridden (p2p.rs:266-270), but 0 ends the
  loop (`ZeroInterval`).
- `COCONET_BATCH_MAX_PKTS` may be any number, but above 65535 a packet may be lost:
  `add` refuses it (p2p.rs:299), and p2p.rs:368 does not look at the result.
- `whoami` draws a new identity (main.rs:66), so what it prints (README:105) is
  not the running node's.
- The test for a message of one's own (p2p.rs:380-381) never holds, as anonymous
  messages have no source; gossipsub does not deliver them to their sender.

For every property of a passing run, `PROJECT.json` names a *mutant*: a plausible
slip in the code (an early cooldown, an inverted `retain`, a missing flush)
under which the property fails in that run. They stand beside the definitions
they alter, marked `mutant`, and no specification uses them.

### Fairness

- `EventLoop`: the swarm carries out close requests
  (`WF_vars(CloseRequested(c))`), which is what libp2p's `close_connection`
  promises, and time passes. No peer need connect, identify itself or announce.
  `PathPolicy` has fairness of the same kind: what is leaving leaves.
- `PacketBatch`: `WF_vars(IntervalTick)` and `WF_vars(TakeLarge \/ TakeSmall)`.
  `tokio::select!` without `biased` polls its ready branches in random order, so
  a branch that stays ready is chosen at last. A due interval stays ready, and a
  channel with a packet in it does too. Neither arm waits for anything inside.
  Nothing is assumed of the swarm arm or of the device.
- `TunBridge`: weak fairness of each task's next step (a write with room, a read
  with bytes there, the end after the other side's), which the scheduler gives,
  and of the device taking what it is given. Strong fairness of `BridgeRead`
  alone: packets from the device may make the bridge's `select!` busy again and
  again, but whenever both arms are ready it picks at random. Nothing is assumed
  of packets coming in, from the device or from the swarm.
- `Lifecycle`: weak fairness of each task's step on a channel, and of the panic of
  an interval of 0, which the first poll brings. No packet is promised from the
  device or the swarm, and no failure but that one.
- `Overlay` has none: it checks safety only. Gossipsub does not promise delivery.

## 4. The proofs

`EventLoopProofs`, `PacketBatchProofs`, `OverlayProofs`, `TunBridgeProofs`,
`LifecycleProofs`, `Ipv4FragmentProofs`, `MultiaddrProofs` and `InputsProofs` are
checked by TLAPS down to the last step. Between them they prove every invariant
and every action property a passing run checks, the refinement of `Datagrams`, and
the safety part of the other two.
They hold for any sets of peers, connections, addresses, nodes and lengths, and
any values of the limits, under the named assumptions of the modules:

- `LocalAssumption`: the node is none of its peers.
- `CooldownAssumption`: the cooldowns are positive (the code has constants).
- `AddrAssumption`: the events carry addresses of `Addr`, and `Addr` is closed
  under the address helpers. No other fact about addresses is assumed.
- `BatchAssumption`: the limits of a batch are naturals, and `u16::MAX` is positive.
- `PktLenAssumption`, `MaxPacketsAssumption`, `MaxBatchesAssumption`: lengths and
  bounds are naturals.
- `BufferAssumption`, `FrameAssumption`: the buffers are no smaller than the
  stream (both 64 KiB in the code), and no frame is empty or longer than a buffer.
- `SizeAssumption`, `InputAssumption`, `MtuAssumption`: the types of datagram
  sizes, packets, and the MTU (a `u16`).
- `RoomAssumption`, `ClockAssumption`: a channel takes a packet; intervals, the
  cooldown and the bound of the uptime are naturals.
- `AddrBitsAssumption`: the number of address bits is a natural.
- `CodecAssumption`: a byte has at least two values (256 in the code), and the
  magic is three bytes.

Three hypotheses are no assumptions of a module, but stand in the theorems that
need them:

- `OnlyWhole`, of `WholeReassembles`: IPv4 packets hold whole datagrams.
  `split_twice` shows that it cannot be dropped.
- `CountFits`, of `NothingLostOrOvertaken` and `ForwardsInOrder`: at most `u16::MAX`
  packets per batch. The default (128) satisfies it, the code does not enforce it,
  and without it packets are lost.
- `BytesFit`, of `BatchLimitsKept`: at least 5 bytes per batch; the default is 49152.

TLC evaluates the assumptions on every instance.

| Theorem | Statement | Inductive invariant |
|---|---|---|
| `EventLoopProofs!TypeCorrect` | `[]TypeOK` | `TypeOK`; that closing connections are open needs `surplus` to look at `open` |
| `RelayGivesWayToDirect` | `[]NoRelayBesideDirect` | `PathInv` |
| `DirectKept` | `[]DirectNeverClosed` | `PathInv` |
| `PathsRefinePolicy` | `Spec => Policy!Safety` | `PathInv` |
| `DialCooldownKept` | `[]DialsRespectCooldown` | `DialInv` |
| `HeardDialed` | `HeardIsDialed`, an action property | `DialInv` |
| `AnnounceCooldownKept` | `[]AnnouncesRespectCooldown` | `AnnounceInv` |
| `AnnouncedPublic` | `[]AnnouncesArePublic` | `BareInv` |
| `PacketBatchProofs!TypeCorrect` | `[]TypeOK` | `TypeOK`, with "no bytes exactly when no packets" |
| `BatchLimitsKept` | `[]BatchWithinLimits`, given `BytesFit` | `BatchInv` |
| `NothingLostOrOvertaken` | `[]HandedOverInOrder`, given `CountFits` | itself, given `TypeOK` |
| `ForwardsInOrder` | `Spec => Forward!Safety`, given `CountFits` | `TypeOK` and `HandedOverInOrder` |
| `OverlayProofs!TypeCorrect` | `[]TypeOK` | `Inv` |
| `DeliveredAtMostOnce` | `[]DeliveredOnce` | `Inv` |
| `LossReported` | `[]LossIsReported` | `Inv` |
| `ServesDatagrams` | `Spec => Service!Spec` | `Inv` |
| `TunBridgeProofs!TypeCorrect` | `[]TypeOK` | `TypeOK` |
| `StreamsIntact` | `[]StreamIntact` | itself, given `TypeOK` |
| `CutOnlyFull` | `[]CutOnlyWhenFull` | `CutInv` |
| `LifecycleProofs!TypeCorrect` | `[]TypeOK` | `TypeOK` and `FailureContained` |
| `FailuresContained` | `[]FailureContained` | the same |
| `Ipv4FragmentProofs!TypeCorrect` | `[]TypeOK` | `TypeOK` |
| `WholeReassembles` | `[]ReassembledAsSent`, given `OnlyWhole` | `PlaceInv` |
| `NoneMissing` | `[]NothingMissing` | `WrittenInv` |
| `FragmentsFitMtu` | `[]FragmentsFit` | itself |
| `MultiaddrProofs!AnnouncedDialedUnchanged`, `DialedIsPublic` | of every address: what is announced for it is dialled unchanged; the host a direct dial goes to is the one that was found public | none, they are about functions |
| `InputsProofs!ReservedNotDialed` | of every address that names one host: no direct dial for it goes to a reserved block | none |
| `LoopStaysInside` | of every message: no slice leaves it, none overlaps another | none, as the next seven |
| `BatchRead`, `CutBatchRead` | of every batch a `u16` can count: it is read as written, and cut anywhere gives its first packets | |
| `RequestRead` | of every request a `u32` can count: whole, or not at all | |
| `DerivedAddressIsHost`, `EveryHostHasHash` | `IsHost`, `AllHosts`, for every network and hash | |
| `ChecksumVerifies`, `ChecksumFitsU32` | of every header: the receiver's test passes; the sum of its words fits the `u32` it is kept in | |
| `NeverDialsReserved`, `AnnouncedDialed`, `AlwaysHost`, `HostsReached`, `BatchesReadBack`, `RequestsWhole`, `BytesStayInside`, `HeadersVerify` | `[]` of the eight invariants of the run `inputs`, of the inputs it goes through, from the theorems above | `InputInv` |

Why the invariants are strengthened:

- `PathInv`. `relayed_conns` holds bare ids, including ids of connections long
  closed, and a direct connection closes everything under its peer. That closes
  no direct connection because ids are unique among open connections
  (`IdsUnique`), and because an id in `relayed_conns` that is still open belongs
  to a relayed connection of that peer (`RecordsRelayed`). It leaves no relayed
  connection behind because each open one to a peer that is not direct is
  recorded (`RelayedTracked`), and one to a direct peer is closing. The same
  facts make each step of the loop a step of `PathPolicy`, or a stutter.
- `DialInv`. Identify removes entries of `recent_dials`, so an absent entry does
  not mean "never dialled". `DialRecorded` says what it does mean: a last dial
  within the cooldown is on record with its exact time, so a dial that finds no
  record, or an old one, is late enough. `StampIsDial` says the converse: an entry
  stands for the last dial and nothing else, so only a dial holds another back,
  which is `HeardDialed`.
- `AnnounceInv`. `last_announce` is the time of the last announcement
  (`AnnounceRecorded`), since both change together and only on success.
- `BareInv`. What is announced was in `my_addrs` at that time, and `my_addrs`
  holds only what `announceable` lets in, which is its own canonical form.
- `BatchInv`. Types and limits: a packet that is not large adds at most half the
  bytes, and the flush test comes before it.
- `HandedOverInOrder` needs `AddAccepts`: under `CountFits`, the count is below
  `u16::MAX` after the flush test, so `add` never refuses and no packet is lost.
- `Inv` of `OverlayProofs`. A batch goes by the mesh or by requests, never by both
  (`Known`), however `direct_peers` changes meanwhile. A request under way has
  not been delivered; of a copy under way, each node that has the batch knows the
  id (`UnderWay`). So no second delivery follows (`Once`), and since no node is
  its own direct peer (`NotToSelf`), none goes to the sender. An answer means a
  delivery, and a request is waited for, reported or delivered (`Answered`);
  `Settled` keeps a late answer from undoing a failure. The same facts make every
  delivery one of `Datagrams` (`DeliveryServes`).
- `StreamIntact` follows from the step of each read alone: it starts where the
  last one ended and is not empty (`TileAppend`).
- `CutInv`. Where a read ends depends on what was written since the last one, so
  the stream itself must end with a frame or be full (`StreamEndsWhole`); a read
  takes all there is, because the buffer is no smaller than the stream
  (`ReadTakesAll`), and leaves the stream empty.
- `TypeOK` and `FailureContained` of `Lifecycle` support each other. A leg ends its
  task only when an end of one of its channels has no holder that is alive
  (`EndedIs`); which tasks hold which ends is in `EndsHeld`, and which of them are
  alive, given what has failed, is what `FailureContained` says.
- `PlaceInv`. What is completed depends on all frames ever written; each by
  itself claims the place its bytes have (`InPlace`), and that suffices
  (`PlacedReassembles`). `FragmentFields` proves it of one fragment: a multiple of
  the fragment size is a multiple of eight, so that no bit of the offset is lost,
  and below 65536, so that none is cut off.
- `WrittenInv`. The frames of a packet taken are written or waiting;
  `FragmentsCover` and `FramesComplete` show that together they cover every byte
  and that the last one ends the datagram.

- `InputInv` says what the inputs of each kind are made of. The run ends them at
  a length, for TLC's sake; the theorems on functions, which it leads to, do not.
- `ForwardsInOrder` needs that what was handed over is the beginning of what was
  read, which `HandedOverInOrder` says of the state after the step, and that `add`
  refuses nothing, from `CountFits`. `HandsOverNext` turns a flush into the
  policy's hand-over, of as many packets as the batch held; a large packet makes
  it two destinations in one step.

Proofs by induction. The library's induction theorems take an operator, which
the provers cannot instantiate, so `InputsProofs` gets induction from the one fact
about the naturals that needs none: they are well-founded, hence a set of them
that is not empty has a least element (`Least`). `Induction` is stated of a set
that contains 0 and what follows each of its members. That a recursive function
is what its defining equation says takes a witness: the functions on `0..n` that
obey the equation agree where both are defined, and `FunctionByTurns` (on all
naturals) and `FunctionUpTo` (on an interval) put them together. So the lemmas
`TurnsDefined`, `WrittenDefined`, `TwoToDefined`, `SumsDefined` and `OnesSumsDefined` give the
equations of the loops, and the rest is arithmetic:

- of the decoding loop, `TurnStaysInside` and `TurnReads` are about one turn, for
  arbitrary bytes and for those a batch begins with; the flag that ends the loop
  is part of what they carry along.
- of the checksum, `Folded` is what a one's complement sum comes to: the number
  below 65536 that agrees with the sum modulo 65535, and is zero only if all the
  words are. The carry loop yields it however often it carries (`CarriedIsFolded`), and so
  does adding with the carry taken in each time, as the receiver does
  (`OnesSumsFolded`).
- of an address, `QuicAddrNamesOne` has the one host that passed `is_public_ipv4`;
  the reserved blocks of the comment are then a comparison of two octets.

Only model-checked is liveness: `RelayGivesWay`, `EventuallyHandedOver`,
`EventuallyThrough`, `FailureReachesPumps`, `LoopEndReachesPumps`,
`PumpEndReachesBridge`, and the fairness of `PathPolicy` and of `Forwarding`, so
`ImplementsPathPolicy` and `ImplementsForwarding` beyond their safety part. Fairness
and `ENABLED` are beyond the prover.

## 5. What is not modelled

- libp2p itself: gossipsub's choice of a mesh, Kademlia's queries, DCUtR, AutoNAT
  and mDNS appear as events the swarm delivers at will. Reachability, NATs and
  the contents of the DHT are beyond these models.
- In `TunBridge`, what only a lost event loop brings about: the send error of
  `pump_tun_to_p2p`, the end of the channel in `pump_p2p_to_tun`, and the end of
  file the bridge then reads. They are in `Lifecycle`, without the bytes; a panic
  of the loop is not in the other modules.
- IP options in fragments, and the host routes the pump adds on Windows, which a
  PowerShell script installs by itself and whose result nothing reads.
- Failures before the event loop starts (no device, a prefix that does not parse):
  `main` returns them, and nothing is running yet. `whoami` prints and exits.
- UPnP: one call to the gateway for an hour's lease, no state in the process.
- Interface configuration (external commands), logging, `acl` and `config` (no
  other code uses them), build scripts.

## 6. Plan

All components that keep state are modelled. What would add to it, in order:

1. `TunBridge` composed with `Ipv4Fragment`: packets the stream has joined or cut
   as inputs of the fragmentation, which `OnlyWhole` excludes now.
2. Delivery in `Overlay` under fairness: with a connection that lasts, a request
   is answered; and what remains of a mesh when ids are made unique.
3. IP options in `Ipv4Fragment`: which of them RFC 791 has in the first fragment
   only, and the code copies into all.
4. A byte queue each way as the abstract specification of `TunBridge`.
5. The width of the `u16` offsets of `Ipv4Fragment` for packets over 65535 bytes,
   which no TUN device delivers but a joined stream could.
