--------------------------- MODULE LifecycleProofs ---------------------------
(***************************************************************************)
(* Proofs about Lifecycle, for channels of any size, any intervals and any *)
(* cooldown: its types, and how far a failure reaches.                     *)
(***************************************************************************)
EXTENDS Lifecycle, TLAPS

(* The legs, one by one.                                                   *)
LEMMA LegsAre ==
  ASSUME TypeOK, NEW leg \in Legs
  PROVE  \/ leg = Leg("pump_up", "up", "rx_from_tun")
         \/ leg = Leg("loop", "rx_from_tun", "swarm")
         \/ leg = Leg("loop", "swarm", "rx_to_tun")
         \/ leg = Leg("pump_down", "rx_to_tun", "down")
         \/ platform = "unix" /\ leg = Leg("bridge", "device", "up")
         \/ platform = "unix" /\ leg = Leg("bridge", "down", "device")
         \/ platform = "windows" /\ leg = Leg("receiver", "device", "rx_in")
         \/ platform = "windows" /\ leg = Leg("sock_writer", "rx_in", "up")
         \/ platform = "windows" /\ leg = Leg("sock_reader", "down", "rx_out")
         \/ platform = "windows" /\ leg = Leg("sender", "rx_out", "device")
<1>1. platform = "unix" \/ platform = "windows"  BY DEF TypeOK, BridgeLegs
<1>2. leg \in NodeLegs \/ leg \in BridgeLegs[platform]  BY DEF Legs
<1>3. CASE leg \in NodeLegs  BY <1>3 DEF NodeLegs
<1>4. CASE platform = "unix" /\ leg \in BridgeLegs[platform]  BY <1>4 DEF BridgeLegs
<1>5. CASE platform = "windows" /\ leg \in BridgeLegs[platform]  BY <1>5 DEF BridgeLegs
<1> QED  BY <1>1, <1>2, <1>3, <1>4, <1>5

(* A leg's task holds the ends of the channels it uses, and on a stream of *)
(* the other direction too.                                                *)
LEMMA HoldsEnds ==
  ASSUME NEW leg \in Legs
  PROVE  /\ leg.task \in ReadEnd(leg.from) /\ leg.task \in WriteEnd(leg.to)
         /\ leg.to = "up" => leg.task \in ReadEnd("down")
         /\ leg.to = "down" => leg.task \in ReadEnd("up")
         /\ leg.from = "up" => leg.task \in WriteEnd("down")
         /\ leg.from = "down" => leg.task \in WriteEnd("up")
<1>1. leg.task \in Readers(leg.from) /\ leg.task \in Writers(leg.to)
  BY DEF Readers, Writers
<1>2. Back["up"] = "down" /\ Back["down"] = "up" /\ "up" \in Stream /\ "down" \in Stream
  BY DEF Back, Stream
<1> QED  BY <1>1, <1>2 DEF ReadEnd, WriteEnd

(* The legs are there, and their tasks with them.                          *)
LEMMA LegsThere ==
  /\ {Leg("pump_up", "up", "rx_from_tun"), Leg("loop", "rx_from_tun", "swarm"),
      Leg("loop", "swarm", "rx_to_tun"), Leg("pump_down", "rx_to_tun", "down")} \subseteq Legs
  /\ platform = "unix" =>
       {Leg("bridge", "device", "up"), Leg("bridge", "down", "device")} \subseteq Legs
  /\ platform = "windows" =>
       {Leg("receiver", "device", "rx_in"), Leg("sock_writer", "rx_in", "up"),
        Leg("sock_reader", "down", "rx_out"), Leg("sender", "rx_out", "device")} \subseteq Legs
BY DEF Legs, NodeLegs, BridgeLegs

LEMMA LegFields ==
  ASSUME NEW t, NEW f, NEW g
  PROVE  Leg(t, f, g).task = t /\ Leg(t, f, g).from = f /\ Leg(t, f, g).to = g
BY DEF Leg

LEMMA TasksThere ==
  /\ {"pump_up", "pump_down", "loop", "main"} \subseteq Tasks
  /\ platform = "unix" => "bridge" \in Tasks
  /\ platform = "windows" => {"receiver", "sock_writer", "sock_reader", "sender"} \subseteq Tasks
<1>1. "main" \in Tasks /\ \A leg \in Legs : leg.task \in Tasks  BY DEF Tasks
<1> QED  BY <1>1, LegsThere, LegFields

(* Who holds which ends, then.                                             *)
LEMMA EndsHeld ==
  ASSUME TypeOK
  PROVE  /\ {"pump_up", "pump_down"} \subseteq ReadEnd("up") \cap WriteEnd("down")
         /\ "loop" \in ReadEnd("rx_from_tun") /\ "loop" \in WriteEnd("rx_to_tun")
         /\ "pump_down" \in ReadEnd("rx_to_tun")
         /\ "main" \in WriteEnd("rx_from_tun")
         /\ platform = "unix" => "bridge" \in ReadEnd("down") /\ "bridge" \in WriteEnd("up")
         /\ platform = "windows" =>
              /\ {"sock_writer", "sock_reader"} \subseteq ReadEnd("down") \cap WriteEnd("up")
              /\ "sock_writer" \in ReadEnd("rx_in") /\ "receiver" \in WriteEnd("rx_in")
              /\ "sender" \in ReadEnd("rx_out") /\ "sock_reader" \in WriteEnd("rx_out")
<1>1. "main" \in WriteEnd("rx_from_tun")  BY DEF WriteEnd
<1>2. /\ {"pump_up", "pump_down"} \subseteq ReadEnd("up") \cap WriteEnd("down")
      /\ "loop" \in ReadEnd("rx_from_tun") /\ "loop" \in WriteEnd("rx_to_tun")
      /\ "pump_down" \in ReadEnd("rx_to_tun")
  BY LegsThere, LegFields, HoldsEnds
<1>3. platform = "unix" => "bridge" \in ReadEnd("down") /\ "bridge" \in WriteEnd("up")
  BY LegsThere, LegFields, HoldsEnds
<1>4. platform = "windows" =>
        /\ {"sock_writer", "sock_reader"} \subseteq ReadEnd("down") \cap WriteEnd("up")
        /\ "sock_writer" \in ReadEnd("rx_in") /\ "receiver" \in WriteEnd("rx_in")
        /\ "sender" \in ReadEnd("rx_out") /\ "sock_reader" \in WriteEnd("rx_out")
  BY LegsThere, LegFields, HoldsEnds
<1> QED  BY <1>1, <1>2, <1>3, <1>4

-----------------------------------------------------------------------------
(* A task that ends is not main, nor the loop; and some other has ended    *)
(* before it.                                                              *)
Ended(leg) ==
  \/ leg.task \notin Ignores /\ leg.to \in Channel /\ ~ HasReader(leg.to)
  \/ leg.from \in Channel /\ ~ HasWriter(leg.from)

LEMMA EndedIs ==
  ASSUME TypeOK, FailureContained, NEW leg \in Legs, leg.task \in alive, Ended(leg)
  PROVE  /\ leg.task \notin {"main", "loop"} /\ failed # {}
         /\ platform = "windows" /\ failed \subseteq {"sender"} =>
              leg.task \notin {"receiver", "sock_writer", "pump_up", "pump_down"}
         /\ platform = "windows" /\ failed \subseteq {"device"} =>
              leg.task \notin {"pump_up", "pump_down", "sock_reader", "sender"}
<1>0. /\ \A t, f, g : Leg(t, f, g).task = t /\ Leg(t, f, g).from = f /\ Leg(t, f, g).to = g
      /\ "swarm" \notin Channel /\ "device" \notin Channel
      /\ "loop" \in Ignores /\ "receiver" \in Ignores
  BY LegFields DEF Channel, Stream, Ignores
<1>1. \A t \in alive, ch \in Channel :
        (t \in ReadEnd(ch) => HasReader(ch)) /\ (t \in WriteEnd(ch) => HasWriter(ch))
  BY DEF HasReader, HasWriter
<1>2. "main" \in alive /\ ~ Aborted  BY DEF TypeOK
<1>3. {"up", "down", "rx_from_tun", "rx_to_tun", "rx_in", "rx_out"} \subseteq Channel
  BY DEF Channel, Stream
<1>4. "loop" \in alive \/ "loop" \in failed  BY <1>2 DEF FailureContained
<1>5. failed # {}
  <2> SUFFICES ASSUME alive = Tasks PROVE FALSE  BY DEF FailureContained
  <2>1. platform = "unix" \/ platform = "windows"  BY DEF TypeOK, BridgeLegs
  <2>2. \A ch \in Channel : ch \notin {"rx_in", "rx_out"} => HasReader(ch) /\ HasWriter(ch)
    BY <1>1, <2>1, TasksThere, EndsHeld DEF Channel, Stream
  <2>3. platform = "windows" => /\ HasReader("rx_in") /\ HasWriter("rx_in")
                                /\ HasReader("rx_out") /\ HasWriter("rx_out")
    BY <1>1, <1>3, TasksThere, EndsHeld
  <2>4. platform = "unix" => leg.to \notin {"rx_in", "rx_out"} /\ leg.from \notin {"rx_in", "rx_out"}
    BY <1>0, LegsAre
  <2> QED  BY <2>1, <2>2, <2>3, <2>4 DEF Ended
<1>6. leg.task \notin {"main", "loop"}
  BY <1>0, <1>1, <1>2, <1>3, LegsAre, EndsHeld DEF Ended
<1>7. ASSUME platform = "windows", failed \subseteq {"sender"}
      PROVE  leg.task \notin {"receiver", "sock_writer", "pump_up", "pump_down"}
  <2>1. {"receiver", "sock_writer", "pump_up", "pump_down", "loop"} \subseteq alive
    BY <1>2, <1>4, <1>7 DEF FailureContained
  <2> QED  BY <1>0, <1>1, <1>2, <1>3, <1>7, <2>1, LegsAre, EndsHeld DEF Ended
<1>8. ASSUME platform = "windows", failed \subseteq {"device"}
      PROVE  leg.task \notin {"pump_up", "pump_down", "sock_reader", "sender"}
  <2>1. {"pump_up", "pump_down", "sock_reader", "sender", "loop"} \subseteq alive
    BY <1>4, <1>8 DEF FailureContained
  <2> QED  BY <1>0, <1>1, <1>2, <1>3, <1>8, <2>1, LegsAre, EndsHeld DEF Ended
<1> QED  BY <1>5, <1>6, <1>7, <1>8

(* What a step of a leg does: it moves a packet, or it ends its task.      *)
LEMMA StepIs ==
  ASSUME TypeOK, NEW leg \in Legs, Step(leg)
  PROVE  /\ UNCHANGED <<settings, uptime, failed>>
         /\ \/ UNCHANGED alive /\ queue' \in [Channel -> 0..Room]
            \/ /\ UNCHANGED queue /\ alive' = alive \ {leg.task}
               /\ leg.task \in alive /\ Ended(leg)
<1>1. \A ch \in Channel : queue[ch] \in 0..Room  BY DEF TypeOK
<1>2. ASSUME HasPacket(leg.from), NEW to, to \in Channel => queue[to] < Room,
             queue' = Moved(leg.from, to)
      PROVE  queue' \in [Channel -> 0..Room]
  <2> SUFFICES ASSUME NEW ch \in Channel
               PROVE  queue[ch] + (IF ch = to THEN 1 ELSE 0) - (IF ch = leg.from THEN 1 ELSE 0)
                        \in 0..Room
    BY <1>2 DEF Moved
  <2>1. ch = leg.from => queue[ch] > 0  BY <1>2 DEF HasPacket
  <2>2. ch = to => queue[ch] < Room  BY <1>2
  <2> QED  BY <1>1, <2>1, <2>2, RoomAssumption
<1>3. CASE Carry(leg)
  BY <1>2, <1>3 DEF Carry, HasRoom
<1>4. CASE SendFails(leg)
  <2>1. "nowhere" \notin Channel  BY DEF Channel, Stream
  <2> QED  BY <1>2, <1>4, <2>1 DEF SendFails, Ends, Ended, Works
<1>5. CASE SourceEnds(leg)
  BY <1>5 DEF SourceEnds, Ends, Ended, Works
<1> QED  BY <1>3, <1>4, <1>5 DEF Step

LEMMA TasksKept == ASSUME platform' = platform PROVE Tasks' = Tasks
BY DEF Tasks, Legs

(* The names of what fails; the device is no task.                         *)
LEMMA TaskNames == TypeOK => "device" \notin Tasks
<1> SUFFICES ASSUME TypeOK, "device" \in Tasks PROVE FALSE  OBVIOUS
<1>1. PICK leg \in Legs : leg.task = "device"  BY DEF Tasks
<1> QED  BY <1>1, LegsAre, LegFields

(* A panic takes its task with it, or all.                                 *)
LEMMA PanicKeeps ==
  ASSUME TypeOK, FailureContained, NEW task \in {"loop", "sender"}, PanicIn(task)
  PROVE  TypeOK' /\ FailureContained'
<1>1. /\ UNCHANGED <<settings, uptime, queue>> /\ task \in alive
      /\ alive' = alive \ (IF panic = "abort" THEN Tasks ELSE {task})
      /\ failed' = failed \cup {task}
  BY DEF PanicIn, Fails
<1>2. ~ Aborted  BY <1>1 DEF TypeOK
<1>3. Tasks' = Tasks  BY <1>1, TasksKept DEF settings
<1>4. CASE panic = "abort"
  <2>1. Aborted' /\ alive' = {}  BY <1>1, <1>4 DEF Aborted, settings, TypeOK
  <2> QED  BY <1>1, <1>3, <2>1 DEF TypeOK, FailureContained, settings
<1>5. CASE panic # "abort"
  <2>1. ~ Aborted' /\ alive' = alive \ {task}  BY <1>1, <1>5 DEF Aborted, settings
  <2>2. TypeOK'  BY <1>1, <1>2, <1>3, <2>1 DEF TypeOK, settings
  <2>3. FailureContained'  BY <1>1, <1>2, <1>3, <2>1 DEF FailureContained, settings
  <2> QED  BY <2>2, <2>3
<1> QED  BY <1>4, <1>5

(* A device that fails takes the one that used it.                         *)
LEMMA DeviceKeeps ==
  ASSUME TypeOK, FailureContained, DeviceFails
  PROVE  TypeOK' /\ FailureContained'
<1>1. PICK task \in alive : /\ Fails("device", {task})
                            /\ \/ platform = "unix" /\ task = "bridge"
                               \/ platform = "windows" /\ task = "receiver"
  BY DEF DeviceFails
<1>2. /\ UNCHANGED <<settings, uptime, queue>>
      /\ alive' = alive \ {task} /\ failed' = failed \cup {"device"}
  BY <1>1 DEF Fails
<1>3. ~ Aborted /\ ~ Aborted'
  BY <1>2 DEF TypeOK, Aborted, settings
<1>4. Tasks' = Tasks /\ "device" \notin alive  BY <1>2, TasksKept, TaskNames DEF settings, TypeOK
<1>5. TypeOK'  BY <1>1, <1>2, <1>3, <1>4 DEF TypeOK, settings
<1>6. FailureContained'  BY <1>1, <1>2, <1>3, <1>4 DEF FailureContained, settings
<1> QED  BY <1>5, <1>6

-----------------------------------------------------------------------------
(* Every step keeps both, which support each other: the one says which     *)
(* tasks hold the ends of a channel, the other which of them are still     *)
(* there.                                                                  *)
LEMMA BothKept == Spec => [](TypeOK /\ FailureContained)
<1>1. Init => TypeOK /\ FailureContained
  <2> SUFFICES ASSUME Init PROVE TypeOK /\ FailureContained  OBVIOUS
  <2>1. ~ Aborted  BY DEF Init, Aborted
  <2>2. TypeOK  BY <2>1, RoomAssumption, TasksThere DEF Init, TypeOK
  <2> QED  BY <2>2, TasksThere DEF Init, FailureContained
<1>2. TypeOK /\ FailureContained /\ [Next]_vars => (TypeOK /\ FailureContained)'
  <2> SUFFICES ASSUME TypeOK, FailureContained, [Next]_vars
               PROVE  TypeOK' /\ FailureContained'
    OBVIOUS
  <2>1. ASSUME NEW leg \in Legs, Step(leg) PROVE TypeOK' /\ FailureContained'
    <3>1. UNCHANGED <<settings, uptime, failed>>  BY <2>1, StepIs
    <3>2. Tasks' = Tasks /\ Aborted' = Aborted  BY <3>1, TasksKept DEF settings, Aborted
    <3>3. CASE UNCHANGED alive /\ queue' \in [Channel -> 0..Room]
      BY <3>1, <3>2, <3>3 DEF TypeOK, FailureContained, settings
    <3>4. CASE /\ UNCHANGED queue /\ alive' = alive \ {leg.task}
               /\ leg.task \in alive /\ Ended(leg)
      <4>1. ~ Aborted  BY <3>4 DEF TypeOK
      <4>2. TypeOK'  BY <3>1, <3>2, <3>4, <4>1, EndedIs DEF TypeOK, settings
      <4>3. FailureContained'
        BY <3>1, <3>2, <3>4, EndedIs DEF FailureContained, settings
      <4> QED  BY <4>2, <4>3
    <3> QED  BY <2>1, <3>3, <3>4, StepIs
  <2>2. CASE ZeroInterval \/ ClockTooYoung \/ SenderPanics
    BY <2>2, PanicKeeps DEF ZeroInterval, ClockTooYoung, SenderPanics
  <2>3. CASE DeviceFails
    BY <2>3, DeviceKeeps
  <2>4. CASE Tick
    <3>1. uptime' \in 0..MaxUptime  BY <2>4, ClockAssumption DEF Tick, TypeOK
    <3>2. Tasks' = Tasks /\ Aborted' = Aborted  BY <2>4, TasksKept DEF Tick, settings, Aborted
    <3> QED  BY <2>4, <3>1, <3>2 DEF Tick, TypeOK, FailureContained, settings
  <2>5. CASE UNCHANGED vars
    <3>1. Tasks' = Tasks /\ Aborted' = Aborted  BY <2>5, TasksKept DEF vars, settings, Aborted
    <3> QED  BY <2>5, <3>1 DEF vars, TypeOK, FailureContained, settings
  <2> QED  BY <2>1, <2>2, <2>3, <2>4, <2>5 DEF Next, Step
<1> QED  BY <1>1, <1>2, PTL DEF Spec

(* The state is of the types, and no task that failed comes back.          *)
THEOREM TypeCorrect == Spec => []TypeOK
BY BothKept, PTL

(* Nothing ends unless something has failed; the loop ends by a panic or   *)
(* with the process only; and on Windows a direction that has lost its     *)
(* thread leaves the other alone.                                          *)
THEOREM FailuresContained == Spec => []FailureContained
BY BothKept, PTL
=============================================================================
