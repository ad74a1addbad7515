------------------------------ MODULE Lifecycle ------------------------------
(***************************************************************************)
(* What ends when something of a node ends.  main starts the event loop,   *)
(* two pumps and the bridge (src/src/main.rs, lines 73 to 104), each of    *)
(* which takes packets from one channel and puts them into the next.  A    *)
(* task learns that another has ended from its channel alone: a receive    *)
(* finds no sender any more, or a send no receiver.  Nobody restarts one,  *)
(* and main waits for ever (p2p.rs, lines 661 to 667).  A panic ends the   *)
(* task it is in, or, in a release build, the process (Cargo.toml, 81).    *)
(*                                                                         *)
(* Packets are only counted here; their bytes are in TunBridge.            *)
(***************************************************************************)
EXTENDS Integers

CONSTANTS
  Room,              \* packets a channel takes; a bound for those without one
  Interval,          \* values COCONET_BATCH_INTERVAL_MS may have
  DialCooldown,      \* dial_cooldown, in ticks of uptime
  MaxUptime          \* bound of uptime

ASSUME RoomAssumption == Room \in Nat \ {0}
ASSUME ClockAssumption ==
  Interval \subseteq Nat /\ DialCooldown \in Nat /\ MaxUptime \in Nat

VARIABLES
  platform,          \* which of the two open_tun is compiled
  panic,             \* panic of the profile it is compiled with
  interval_ms,       \* base_interval_ms
  uptime,            \* what Instant::now() counts on Windows: time since boot
  alive,             \* tasks and threads that have not ended
  queue,             \* per channel, the packets in it
  failed             \* what has failed by itself

settings == <<platform, panic, interval_ms>>
vars == <<settings, uptime, alive, queue, failed>>

-----------------------------------------------------------------------------
(* Who carries packets from where to where.                                *)

Leg(task, from, to) == [task |-> task, from |-> from, to |-> to]

NodeLegs == {
  Leg("pump_up", "up", "rx_from_tun"), Leg("loop", "rx_from_tun", "swarm"),
  Leg("loop", "swarm", "rx_to_tun"), Leg("pump_down", "rx_to_tun", "down")}

BridgeLegs == [
  unix    |-> {Leg("bridge", "device", "up"), Leg("bridge", "down", "device")},
  windows |-> {Leg("receiver", "device", "rx_in"), Leg("sock_writer", "rx_in", "up"),
               Leg("sock_reader", "down", "rx_out"), Leg("sender", "rx_out", "device")}]

Legs == NodeLegs \cup BridgeLegs[platform]

Tasks == {leg.task : leg \in Legs} \cup {"main"}

\* those that do not look at what send returns
Ignores == {"loop", "receiver"}

Stream  == {"up", "down"}                    \* of one duplex
Channel == Stream \cup {"rx_from_tun", "rx_to_tun", "rx_in", "rx_out"}
Back    == [up |-> "down", down |-> "up"]

Readers(ch) == {leg.task : leg \in {l \in Legs : l.from = ch}}
Writers(ch) == {leg.task : leg \in {l \in Legs : l.to = ch}}

ReadEnd_halves(ch) == Readers(ch)                                  \* mutant

(* Who holds the end a channel is read at, and the end it is written at.   *)
(* An end of the duplex, though split into halves, goes only with both of  *)
(* them.  The node main keeps has a sender of rx_from_tun.                 *)
ReadEnd(ch) == Readers(ch) \cup (IF ch \in Stream THEN Writers(Back[ch]) ELSE {})

WriteEnd_node(ch) ==                                               \* mutant
  Writers(ch) \cup (IF ch \in Stream THEN Readers(Back[ch]) ELSE {})
              \cup (IF ch \in {"rx_from_tun", "rx_to_tun"} THEN {"main"} ELSE {})

WriteEnd_handle(ch) ==                                             \* mutant
  Writers(ch) \cup (IF ch \in Stream THEN Readers(Back[ch]) \cup {"main"} ELSE {})
              \cup (IF ch = "rx_from_tun" THEN {"main"} ELSE {})

WriteEnd(ch) ==
  Writers(ch) \cup (IF ch \in Stream THEN Readers(Back[ch]) ELSE {})
              \cup (IF ch = "rx_from_tun" THEN {"main"} ELSE {})

HasReader(ch) == ReadEnd(ch) \cap alive # {}
HasWriter(ch) == WriteEnd(ch) \cap alive # {}

Panics == {"unwind", "abort"}

(* A panic has ended the process.                                          *)
Aborted == panic = "abort" /\ failed \cap {"loop", "sender"} # {}

(* The types; what has failed stays down, and main with its node ends with *)
(* the process only.                                                       *)
TypeOK ==
  /\ platform \in DOMAIN BridgeLegs
  /\ panic \in Panics
  /\ interval_ms \in Interval
  /\ uptime \in 0..MaxUptime
  /\ alive \subseteq Tasks /\ (IF Aborted THEN alive = {} ELSE "main" \in alive)
  /\ queue \in [Channel -> 0..Room]
  /\ failed \subseteq {"loop", "device", "sender"} /\ failed \cap alive = {}

Init ==
  /\ platform \in DOMAIN BridgeLegs
  /\ panic \in Panics
  /\ interval_ms \in Interval
  /\ uptime \in 0..MaxUptime
  /\ alive = Tasks
  /\ queue = [ch \in Channel |-> 0]
  /\ failed = {}

-----------------------------------------------------------------------------
(* The device and the swarm always may have a packet, and take any.        *)
HasPacket(ch) == ch \in Channel => queue[ch] > 0

HasRoom_always(ch) == TRUE                                         \* mutant

HasRoom(ch) == ch \in Channel => queue[ch] < Room

Moved(from, to) ==
  [ch \in Channel |-> queue[ch] + (IF ch = to THEN 1 ELSE 0) - (IF ch = from THEN 1 ELSE 0)]

\* the loop makes its interval before its first round
Works(task) == task \in alive /\ (task = "loop" => interval_ms > 0)

Ends(task) == alive' = alive \ {task} /\ UNCHANGED <<settings, uptime, queue>>

(* A task takes a packet and puts it into the next channel.  The two legs  *)
(* of the Unix bridge are one task, which does not read down while it      *)
(* waits in write_all for room in up (tun.rs 49): TunBridge has that.      *)
(* Here each leg goes on by itself, which hides no task that is stuck: on  *)
(* Unix the loop ends only before its first round, and nothing waits for   *)
(* pump_down to write; and once both pumps are gone, write_all fails.      *)
Carry(leg) ==
  /\ Works(leg.task)
  /\ HasPacket(leg.from) /\ HasRoom(leg.to)
  /\ leg.to \in Channel => HasReader(leg.to)
  /\ queue' = Moved(leg.from, leg.to)
  /\ UNCHANGED <<settings, uptime, alive, failed>>

(* send or write_all returns an error, also when it had begun to wait.     *)
SendFails(leg) ==
  /\ Works(leg.task)
  /\ HasPacket(leg.from)
  /\ leg.to \in Channel /\ ~ HasReader(leg.to)
  /\ \/ /\ leg.task \in Ignores
        /\ queue' = Moved(leg.from, "nowhere")
        /\ UNCHANGED <<settings, uptime, alive>>
     \/ /\ leg.task \notin Ignores
        /\ Ends(leg.task)
  /\ UNCHANGED failed

(* recv returns None, or read no bytes.                                    *)
SourceEnds(leg) ==
  /\ Works(leg.task)
  /\ leg.from \in Channel /\ queue[leg.from] = 0 /\ ~ HasWriter(leg.from)
  /\ Ends(leg.task)
  /\ UNCHANGED failed

Step(leg) == leg \in Legs /\ (Carry(leg) \/ SendFails(leg) \/ SourceEnds(leg))

-----------------------------------------------------------------------------
(* What fails by itself.                                                   *)

Fails(what, tasks) ==
  /\ alive' = alive \ tasks
  /\ failed' = failed \cup {what}
  /\ UNCHANGED <<settings, uptime, queue>>

PanicIn(task) ==
  /\ task \in alive
  /\ Fails(task, IF panic = "abort" THEN Tasks ELSE {task})

(* tokio::time::interval panics if the period is 0.                        *)
ZeroInterval == interval_ms = 0 /\ PanicIn("loop")

(* The entry a dial finds in recent_dials, or else Instant::now() less two *)
(* cooldowns: evaluated in either case, it panics where Instant cannot be  *)
(* negative, as on Windows, until the machine has run for so long.         *)
ClockTooYoung ==
  /\ interval_ms > 0
  /\ platform = "windows" /\ uptime < 2 * DialCooldown
  /\ PanicIn("loop")

(* A read or a write of the device returns an error.                       *)
DeviceFails ==
  /\ \/ platform = "unix" /\ "bridge" \in alive /\ Fails("device", {"bridge"})
     \/ platform = "windows" /\ "receiver" \in alive /\ Fails("device", {"receiver"})

(* A packet longer than u16::MAX (SenderPanics in TunBridge).              *)
SenderPanics ==
  /\ platform = "windows" /\ queue["rx_out"] > 0
  /\ PanicIn("sender")

Tick ==
  /\ uptime < MaxUptime /\ uptime' = uptime + 1
  /\ UNCHANGED <<settings, alive, queue, failed>>

Next ==
  \/ \E leg \in Legs : Step(leg)
  \/ ZeroInterval \/ ClockTooYoung \/ DeviceFails \/ SenderPanics
  \/ Tick

Spec == Init /\ [][Next]_vars

(* Tasks and threads run when they can.  No packets are promised.          *)
AllLegs == NodeLegs \cup BridgeLegs.unix \cup BridgeLegs.windows

Fairness ==
  /\ \A leg \in {l \in AllLegs : l.from \in Channel} : WF_vars(Step(leg))
  /\ WF_vars(ZeroInterval)

FairSpec == Spec /\ Fairness

-----------------------------------------------------------------------------
(* Nothing ends unless something has failed, and the loop only by a panic  *)
(* of its own or with the process.  On Windows a direction that has lost   *)
(* its thread leaves the tasks of the other one alone, since both halves   *)
(* hold the stream open.                                                   *)
FailureContained ==
  /\ failed = {} => alive = Tasks
  /\ ~ Aborted /\ "loop" \notin failed => "loop" \in alive
  /\ platform = "windows" /\ ~ Aborted /\ failed \subseteq {"sender"} =>
       {"receiver", "sock_writer", "pump_up", "pump_down"} \subseteq alive
  /\ platform = "windows" /\ failed \subseteq {"device"} =>
       {"pump_up", "pump_down", "sock_reader", "sender"} \subseteq alive

(* The pumps do not outlive the loop: the one to TUN ends when it has      *)
(* written what is left, unless the sending thread is gone too and nobody  *)
(* reads what it writes; the one from TUN ends at its next packet.         *)
LoopEndReachesPumps ==
  /\ ("loop" \notin alive) ~> ("pump_down" \notin alive \/ "sender" \in failed)
  /\ ("loop" \notin alive /\ queue["up"] > 0) ~> ("pump_up" \notin alive)

(* And with both pumps gone, the bridge lets go of the device: on Unix the *)
(* task ends, on Windows the part that writes to it.                       *)
PumpEndReachesBridge ==
  ({"pump_up", "pump_down"} \cap alive = {}) ~>
    ({"bridge", "sock_reader", "sender"} \cap alive = {})
=============================================================================
