----------------------------- MODULE BatchCodec -----------------------------
(***************************************************************************)
(* The bytes of a batch: what BatchBuilder writes and what a receiver      *)
(* makes of them, be they from the mesh or from a request (src/src/p2p.rs, *)
(* lines 277 to 327, 384 to 399 and 554 to 563), and the frame DataCodec   *)
(* puts around a request (lines 47 to 65).  A byte is a number below Base, *)
(* a u16 two of them, a u32 four.                                          *)
(***************************************************************************)
EXTENDS Integers, Sequences

CONSTANTS
  Base,              \* 256
  Magic              \* b"CO" and the version 0x01

\* Bytes, and how far a u16 counts.
Bytes   == 0..(Base - 1)
u16_max == Base * Base - 1
HDR_LEN == 5

ASSUME CodecAssumption ==
  /\ Base \in Nat /\ Base >= 2
  /\ Magic \in Seq(Bytes) /\ Len(Magic) = 3

\* put_u16 of n as u16, big endian
U16(n) == <<(n \div Base) % Base, n % Base>>

ReadU16(data, i) == data[i] * Base + data[i + 1]

-----------------------------------------------------------------------------
(* Writing.                                                                *)

Prefixed_with_itself(pkt) == U16(Len(pkt) + 2) \o pkt               \* mutant

(* What add puts behind what is there: no check that the length fits.      *)
Prefixed(pkt) == U16(Len(pkt)) \o pkt

(* buf after each add, with the count that take fills in.                  *)
Written(pkts) ==
  LET buf[n \in 0..Len(pkts)] ==
        IF n = 0 THEN Magic \o U16(Len(pkts)) ELSE buf[n - 1] \o Prefixed(pkts[n])
  IN  buf

(* take, of a builder that is not empty.                                   *)
Batch(pkts) == Written(pkts)[Len(pkts)]

-----------------------------------------------------------------------------
(* Reading.                                                                *)

IsBatch(data) == Len(data) >= HDR_LEN /\ SubSeq(data, 1, 3) = Magic

Slice(idx, len) == [from |-> idx + 1, to |-> idx + len]

\* idx: the bytes read so far; slices: the packets sent to TUN so far
LoopStart == [idx |-> HDR_LEN, left |-> FALSE, slices |-> <<>>]

TakeSlice(at, len) ==
  [idx |-> at.idx + 2 + len, left |-> FALSE,
   slices |-> Append(at.slices, Slice(at.idx + 2, len))]

Turn_unchecked(data, at) ==                                        \* mutant
  LET len == ReadU16(data, at.idx + 1)
  IN  IF at.left \/ at.idx + 2 > Len(data) THEN [at EXCEPT !.left = TRUE]
      ELSE TakeSlice(at, len)

Turn_clamped(data, at) ==                                          \* mutant
  LET room == Len(data) - at.idx - 2
      len == ReadU16(data, at.idx + 1)
  IN  IF at.left \/ at.idx + 2 > Len(data) THEN [at EXCEPT !.left = TRUE]
      ELSE TakeSlice(at, IF len > room THEN room ELSE len)

(* One turn of the loop: it is left at a packet that is not there in full. *)
Turn(data, at) ==
  LET len == ReadU16(data, at.idx + 1)
  IN  IF at.left \/ at.idx + 2 > Len(data) \/ at.idx + 2 + len > Len(data)
      THEN [at EXCEPT !.left = TRUE]
      ELSE TakeSlice(at, len)

(* The loop over count packets, after each of its turns.                   *)
Turns(data) ==
  LET at[n \in Nat] == IF n = 0 THEN LoopStart ELSE Turn(data, at[n - 1])
  IN  at

Unpack(data) == Turns(data)[ReadU16(data, 4)].slices

(* The parts of a message that are sent to TUN: all of it, if it is not a  *)
(* batch.                                                                  *)
Slices(data) == IF IsBatch(data) THEN Unpack(data) ELSE <<Slice(0, Len(data))>>

Delivered(data) ==
  [k \in 1..Len(Slices(data)) |-> SubSeq(data, Slices(data)[k].from, Slices(data)[k].to)]

-----------------------------------------------------------------------------
(* DataCodec: a request goes with its length before it.  A reader that     *)
(* meets the end of the stream too early has an error, the empty set.      *)

u32_max == Base * Base * Base * Base - 1

U32(n) == U16(n \div (Base * Base)) \o U16(n)

ReadU32(io) == ReadU16(io, 1) * (Base * Base) + ReadU16(io, 3)

write_request(req) == U32(Len(req)) \o req

read_request_to_end(io) ==                                         \* mutant
  IF Len(io) < 4 THEN {} ELSE {SubSeq(io, 5, Len(io))}

read_request(io) ==
  IF Len(io) < 4 \/ Len(io) < 4 + ReadU32(io) THEN {}
  ELSE {SubSeq(io, 5, 4 + ReadU32(io))}

-----------------------------------------------------------------------------
(* What goes in comes out: the same packets in the same order.             *)
ReadsAsWritten(pkts) == Delivered(Batch(pkts)) = pkts

(* A batch that lost its end gives the first of its packets, each of them  *)
(* whole.                                                                  *)
CutGivesPrefix(pkts) ==
  \A n \in HDR_LEN..Len(Batch(pkts)) :
    LET cut == SubSeq(Batch(pkts), 1, n)
    IN  /\ Len(Slices(cut)) <= Len(pkts)
        /\ \A k \in DOMAIN Slices(cut) :
             Slices(cut)[k].to <= n /\ Delivered(cut)[k] = pkts[k]

(* A request arrives whole or not at all, wherever its connection is lost. *)
WholeOrNot(req) ==
  LET io == write_request(req)
  IN  Len(req) <= u32_max =>
        \A n \in 0..Len(io) :
          read_request(SubSeq(io, 1, n)) = (IF n = Len(io) THEN {req} ELSE {})

(* Whatever bytes a peer sends, the loop stays inside them, so that no     *)
(* slice panics, which ends the loop; and no byte is in two packets.       *)
StaysInside(data) ==
  \A k \in DOMAIN Slices(data) :
    LET slice == Slices(data)[k]
    IN  /\ slice.from >= 1 /\ slice.from <= slice.to + 1 /\ slice.to <= Len(data)
        /\ k > 1 => slice.from > Slices(data)[k - 1].to
=============================================================================
