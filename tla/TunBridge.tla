----------------------------- MODULE TunBridge -----------------------------
(***************************************************************************)
(* The bridge between the TUN device and the pumps: one byte stream of     *)
(* bounded size in each direction (tokio::io::duplex), a pump at one end   *)
(* of both (src/src/routing.rs, lines 41 to 145), the bridge at the other  *)
(* (src/src/tun.rs, lines 39 to 56 on Unix, 86 to 141 on Windows).         *)
(*                                                                         *)
(* A stream is modelled by positions, counted in bytes from its start: of  *)
(* the frames handed to its writer (total, and ends, where frames end), of *)
(* what was written into it, and of what was taken out.  The stream itself *)
(* is external: it keeps the order of bytes, a write fills what room there *)
(* is, and a read takes what there is.                                     *)
(***************************************************************************)
EXTENDS Integers, Sequences

CONSTANTS
  Capacity,          \* of the duplex stream, in each direction
  BufLen,            \* length of the buffers that are read into
  ChanCap,           \* Windows: capacity of the channel to the sending thread
  U16Max,            \* u16::MAX
  PktLen,            \* the lengths of frames
  MaxBytes           \* bound of the bytes handed to either stream

Dir == {"up", "down"}                        \* from the device, to the device

(* The code has 64 * 1024 for both.                                        *)
ASSUME BufferAssumption ==
  /\ Capacity \in Nat \ {0}
  /\ BufLen \in Nat /\ BufLen >= Capacity
  /\ ChanCap \in Nat /\ U16Max \in Nat
ASSUME FrameAssumption ==
  /\ PktLen \subseteq 1..BufLen
  /\ MaxBytes \in Nat

VARIABLES
  platform,          \* which of the two open_tun is compiled
  total,             \* per direction: bytes of the frames handed to the writer
  ends,              \* per direction: where these frames end
  written,           \* per direction: bytes in the stream so far
  taken,             \* per direction: bytes read from the stream so far
  pending,           \* chunks the bridge has read and not yet put on the device
  running,           \* what is left of the bridge: its directions, and the sender
  pumps,             \* the pumps that have not returned
  carried            \* history, per direction: chunks sent to the swarm, to the device

streamVars == <<total, ends, written, taken>>
vars == <<platform, streamVars, pending, running, pumps, carried>>

Bridge == Dir \cup {"sender"}
Chunk  == [from : Nat, to : Nat]

InStream(d) == written[d] - taken[d]
Smaller(m, n) == IF m <= n THEN m ELSE n

(* The types; no stream holds more than its capacity, nor bytes that no    *)
(* frame has; and on Unix, where one task copies both ways, at most one    *)
(* chunk is in its hands.                                                  *)
TypeOK ==
  /\ platform \in {"unix", "windows"}
  /\ total \in [Dir -> Nat] /\ written \in [Dir -> Nat] /\ taken \in [Dir -> Nat]
  /\ ends \in [Dir -> SUBSET Nat]
  /\ \A d \in Dir : /\ taken[d] <= written[d] /\ written[d] <= total[d]
                    /\ InStream(d) <= Capacity
                    /\ \A e \in ends[d] : e <= total[d]
  /\ pending \in Seq(Chunk)
  /\ Len(pending) <= (IF platform = "unix" THEN 1 ELSE ChanCap + 1)
  /\ running \subseteq Bridge
  /\ pumps \subseteq Dir
  /\ carried \in [Dir -> Seq(Chunk)]

Init ==
  /\ platform \in {"unix", "windows"}
  /\ total = [d \in Dir |-> 0] /\ written = [d \in Dir |-> 0] /\ taken = [d \in Dir |-> 0]
  /\ ends = [d \in Dir |-> {}]
  /\ pending = <<>>
  /\ running = Bridge /\ pumps = Dir
  /\ carried = [d \in Dir |-> <<>>]

-----------------------------------------------------------------------------
(* n more bytes, one frame, are handed to the writer of stream d.          *)
HandFrame(d, n) ==
  /\ total[d] + n <= MaxBytes
  /\ total' = [total EXCEPT ![d] = @ + n]
  /\ ends' = [ends EXCEPT ![d] = @ \cup {total[d] + n}]
  /\ UNCHANGED <<platform, written, taken, pending, running, pumps, carried>>

\* what a read of stream d returns, into a buffer of len bytes
ReadChunk(d, len) == [from |-> taken[d], to |-> taken[d] + Smaller(InStream(d), len)]

Free_always == TRUE                                                \* mutant

(* Unix: the bridge is in its select!, in neither write_all.               *)
Free == written["up"] = total["up"] /\ pending = <<>>

(* A packet from the device.  Windows has a thread that receives it into   *)
(* an unbounded channel.                                                   *)
DeviceRead(n) ==
  /\ "up" \in running
  /\ platform = "unix" => Free
  /\ HandFrame("up", n)

(* The event loop sends to rx_to_tun, from which the pump writes one frame *)
(* after the other.  Once the pump has returned the send fails, which the  *)
(* loop ignores.                                                           *)
Received(n) ==
  /\ "down" \in pumps
  /\ HandFrame("down", n)

\* the half of the stream that d's writer does not hold
OtherEndOpen(d) == IF d = "up" THEN pumps # {} ELSE running \cap Dir # {}

(* write_all, as far as there is room: to the end of the frame, or until   *)
(* the stream is full.                                                     *)
WriteSome(d) ==
  /\ d \in (IF d = "up" THEN running ELSE pumps)
  /\ OtherEndOpen(d)
  /\ InStream(d) < Capacity
  /\ \E e \in ends[d] :
       /\ e > written[d] /\ \A f \in ends[d] : f > written[d] => e <= f
       /\ written' = [written EXCEPT ![d] = Smaller(e, taken[d] + Capacity)]
  /\ UNCHANGED <<platform, total, ends, taken, pending, running, pumps, carried>>

PumpRead_one_task ==                                               \* mutant
  /\ "up" \in pumps
  /\ InStream("up") > 0
  /\ written["down"] = total["down"]
  /\ LET chunk == ReadChunk("up", BufLen)
     IN  /\ taken' = [taken EXCEPT !["up"] = chunk.to]
         /\ carried' = [carried EXCEPT !["up"] = Append(@, chunk)]
  /\ UNCHANGED <<platform, total, ends, written, pending, running, pumps>>

(* pump_tun_to_p2p: what one read returns is sent to the swarm as one      *)
(* packet.  Its channel is unbounded.                                      *)
PumpRead ==
  /\ "up" \in pumps
  /\ InStream("up") > 0
  /\ LET chunk == ReadChunk("up", BufLen)
     IN  /\ taken' = [taken EXCEPT !["up"] = chunk.to]
         /\ carried' = [carried EXCEPT !["up"] = Append(@, chunk)]
  /\ UNCHANGED <<platform, total, ends, written, pending, running, pumps>>

BridgeRead_short ==                                                \* mutant
  /\ "down" \in running
  /\ InStream("down") > 0
  /\ IF platform = "unix" THEN Free ELSE Len(pending) <= ChanCap
  /\ LET chunk == ReadChunk("down", Capacity - 1)
     IN  /\ taken' = [taken EXCEPT !["down"] = chunk.to]
         /\ pending' = Append(pending, chunk)
  /\ UNCHANGED <<platform, total, ends, written, running, pumps, carried>>

(* The bridge reads what the pump wrote.  On Windows it sends it to the    *)
(* sending thread, waiting while the channel is full; when the thread is   *)
(* gone the send fails and this direction ends.                            *)
BridgeRead ==
  /\ "down" \in running
  /\ InStream("down") > 0
  /\ IF platform = "unix" THEN Free ELSE Len(pending) <= ChanCap
  /\ LET chunk == ReadChunk("down", BufLen)
     IN  /\ taken' = [taken EXCEPT !["down"] = chunk.to]
         /\ \/ /\ "sender" \in running
               /\ pending' = Append(pending, chunk)
               /\ UNCHANGED running
            \/ /\ "sender" \notin running
               /\ running' = running \ {"down"}
               /\ UNCHANGED pending
  /\ UNCHANGED <<platform, total, ends, written, pumps, carried>>

-----------------------------------------------------------------------------
(* The device, and what ends.                                              *)

Put ==
  /\ pending # <<>>
  /\ pending' = Tail(pending)
  /\ carried' = [carried EXCEPT !["down"] = Append(@, Head(pending))]
  /\ UNCHANGED <<platform, streamVars, running, pumps>>

(* dev.write_all of one chunk, on Unix.                                    *)
DeviceWrite == platform = "unix" /\ Put

\* the chunk does not fit the packet of u16 length made for it
Oversized(chunk) == chunk.to - chunk.from > U16Max

(* Windows, the sending thread: one packet for a chunk; without room in    *)
(* the ring the chunk is dropped.                                          *)
SendPacket == platform = "windows" /\ pending # <<>> /\ ~ Oversized(Head(pending)) /\ Put

DropPacket ==
  /\ platform = "windows" /\ pending # <<>>
  /\ pending' = Tail(pending)
  /\ UNCHANGED <<platform, streamVars, running, pumps, carried>>

(* copy_from_slice of a longer buffer panics.  In a build that unwinds,    *)
(* the thread is gone with its end of the channel; a release build aborts  *)
(* the process (Cargo.toml, line 81).                                      *)
SenderPanics ==
  /\ platform = "windows" /\ pending # <<>> /\ Oversized(Head(pending))
  /\ pending' = <<>>
  /\ \/ running' = running \ {"sender"} /\ UNCHANGED pumps
     \/ running' = {} /\ pumps' = {}
  /\ UNCHANGED <<platform, streamVars, carried>>

DeviceFails_skips ==                                               \* mutant
  /\ platform = "unix" /\ running # {} /\ pending # <<>>
  /\ pending' = Tail(pending)
  /\ UNCHANGED <<platform, streamVars, running, pumps, carried>>

DeviceFails_one_way ==                                             \* mutant
  /\ platform = "unix" /\ running # {} /\ written["up"] = total["up"]
  /\ running' = running \ {"down"}
  /\ pending' = <<>>
  /\ UNCHANGED <<platform, streamVars, pumps, carried>>

(* Unix: a read or a write of the device fails, and the one task ends.     *)
(* Windows: the receiving thread ends, and, when its channel is drained,   *)
(* the task that wrote for it.                                             *)
DeviceFails ==
  /\ written["up"] = total["up"]
  /\ \/ /\ platform = "unix" /\ running # {}
        /\ running' = {} /\ pending' = <<>>
     \/ /\ platform = "windows" /\ "up" \in running
        /\ running' = running \ {"up"} /\ UNCHANGED pending
  /\ UNCHANGED <<platform, streamVars, pumps, carried>>

(* Nothing of the bridge is left, and its end of the stream is dropped:    *)
(* the reading pump finds the end once it has read the rest, the writing   *)
(* one an error at its next frame.                                         *)
PumpEnds(d) ==
  /\ running \cap Dir = {}
  /\ d \in pumps
  /\ IF d = "up" THEN InStream("up") = 0 ELSE written["down"] < total["down"]
  /\ pumps' = pumps \ {d}
  /\ UNCHANGED <<platform, streamVars, pending, running, carried>>

Next ==
  \/ \E n \in PktLen : DeviceRead(n) \/ Received(n)
  \/ \E d \in Dir : WriteSome(d) \/ PumpEnds(d)
  \/ PumpRead
  \/ BridgeRead
  \/ DeviceWrite \/ SendPacket \/ DropPacket \/ SenderPanics
  \/ DeviceFails

Spec == Init /\ [][Next]_vars

(* Tasks and threads run when they can.  The select! of the bridge polls   *)
(* its two arms in random order: reading the stream cannot lose to the     *)
(* device for ever.  Nothing is assumed of the device or of the swarm.     *)
Fairness ==
  /\ \A d \in Dir : WF_vars(WriteSome(d)) /\ WF_vars(PumpEnds(d))
  /\ WF_vars(PumpRead)
  /\ SF_vars(BridgeRead)
  /\ WF_vars(DeviceWrite \/ SendPacket \/ DropPacket \/ SenderPanics)

FairSpec == Spec /\ Fairness

-----------------------------------------------------------------------------
\* the chunks follow one another from the start of the stream to position n
Tile(chunks, n) ==
  /\ \A i \in 1..Len(chunks) :
       /\ chunks[i].from = (IF i = 1 THEN 0 ELSE chunks[i - 1].to)
       /\ chunks[i].from < chunks[i].to
  /\ n = (IF chunks = <<>> THEN 0 ELSE chunks[Len(chunks)].to)

(* Every byte a pump or the bridge took from a stream was passed on, once  *)
(* and in order, or is in the bridge's hands: write_all in one arm of the  *)
(* select! loses nothing of the other.  To the device this holds as long   *)
(* as the bridge runs, and on Unix, where nothing is dropped.              *)
StreamIntact ==
  /\ Tile(carried["up"], taken["up"])
  /\ platform = "unix" /\ "down" \in running =>
       Tile(carried["down"] \o pending, taken["down"])

(* A packet is cut only behind a full stream: a chunk that ends inside a   *)
(* frame fills the whole 64 KiB.  With less in the stream, chunks are one  *)
(* or more whole frames, although neither side knows where frames end.     *)
CutOnlyWhenFull ==
  \A d \in Dir : \A i \in 1..Len(carried[d]) :
    LET chunk == carried[d][i]
    IN  chunk.to \in ends[d] \/ chunk.to - chunk.from = Capacity

\* how far stream d has been carried through
Through(d) ==
  IF d = "down" /\ pending # <<>> THEN Head(pending).from ELSE taken[d]

(* No gridlock: although the bridge does not read while it writes, and     *)
(* both streams may be full, all bytes get through unless the bridge       *)
(* fails, since the pump from TUN never waits for anything else.           *)
EventuallyThrough ==
  \A d \in Dir : \A n \in 1..MaxBytes :
    (total[d] >= n) ~> (Through(d) >= n \/ running # Bridge)

(* A failure reaches both pumps: the reading one returns, the writing one  *)
(* as soon as it has a frame to write.  On Unix any failure does, as one   *)
(* task copies both ways; on Windows only when both directions have ended. *)
Failed == IF platform = "unix" THEN running # Bridge ELSE running \cap Dir = {}
FailureReachesPumps ==
  /\ Failed ~> ("up" \notin pumps)
  /\ (Failed /\ written["down"] < total["down"]) ~> ("down" \notin pumps)

(* README.md 27: messages received are written back to TUN.  A device      *)
(* takes one packet per write, so a write is one of the frames.            *)
OneFramePerWrite ==
  \A i \in 1..Len(carried["down"]) :
    LET chunk == carried["down"][i]
    IN  /\ chunk.to \in ends["down"]
        /\ \A e \in ends["down"] : e <= chunk.from \/ e >= chunk.to
=============================================================================
