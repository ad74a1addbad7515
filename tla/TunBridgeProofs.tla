-------------------------- MODULE TunBridgeProofs --------------------------
(***************************************************************************)
(* Proofs about TunBridge, for every capacity, every length of frames and  *)
(* both platforms: its types, that no byte is lost or reordered between    *)
(* the stream's two ends, and when a frame is cut.                         *)
(***************************************************************************)
EXTENDS TunBridge, TLAPS

(* One direction of the state: positions are in order, within capacity,    *)
(* and no frame ends behind what was handed over.                          *)
DirOK(d) ==
  /\ taken[d] <= written[d] /\ written[d] <= total[d]
  /\ InStream(d) <= Capacity
  /\ \A e \in ends[d] : e <= total[d]

(* The two directions are not one.                                         *)
LEMMA TwoDirs == "up" \in Dir /\ "down" \in Dir /\ \A d \in Dir : d = "up" \/ d = "down"
BY DEF Dir

(* Reading takes all there is, since no buffer is smaller than the stream. *)
LEMMA ReadTakesAll ==
  ASSUME TypeOK, NEW d \in Dir, InStream(d) > 0
  PROVE  /\ ReadChunk(d, BufLen) = [from |-> taken[d], to |-> written[d]]
         /\ ReadChunk(d, BufLen) \in Chunk
         /\ taken[d] < written[d] /\ taken[d] \in Nat /\ written[d] \in Nat
BY BufferAssumption DEF TypeOK, ReadChunk, InStream, Smaller, Chunk

(* What WriteSome does to the position: it moves on, to the end of a frame *)
(* or until the stream is full.                                            *)
LEMMA WriteMoves ==
  ASSUME TypeOK, NEW d \in Dir, WriteSome(d)
  PROVE  \E w \in Nat : /\ written' = [written EXCEPT ![d] = w]
                        /\ written[d] < w /\ w <= total[d] /\ w - taken[d] <= Capacity
                        /\ w \in ends[d] \/ w - taken[d] = Capacity
<1>1. PICK e \in ends[d] : /\ e > written[d]
                           /\ written' = [written EXCEPT ![d] = Smaller(e, taken[d] + Capacity)]
  BY DEF WriteSome
<1>2. /\ e \in Nat /\ e <= total[d]
      /\ taken[d] \in Nat /\ written[d] \in Nat /\ total[d] \in Nat /\ taken[d] <= written[d]
  BY DEF TypeOK
<1>3. written[d] - taken[d] < Capacity  BY DEF WriteSome, InStream
<1>4. CASE e <= taken[d] + Capacity
  <2>1. Smaller(e, taken[d] + Capacity) = e  BY <1>4 DEF Smaller
  <2>2. e - taken[d] <= Capacity  BY <1>2, <1>4, BufferAssumption
  <2> QED  BY <1>1, <1>2, <2>1, <2>2
<1>5. CASE ~ e <= taken[d] + Capacity
  <2>1. Smaller(e, taken[d] + Capacity) = taken[d] + Capacity  BY <1>5 DEF Smaller
  <2> DEFINE w == taken[d] + Capacity
  <2>2. /\ w \in Nat /\ written[d] < w /\ w <= total[d]
        /\ w - taken[d] = Capacity /\ w - taken[d] <= Capacity
    BY <1>2, <1>3, <1>5, BufferAssumption
  <2>3. written' = [written EXCEPT ![d] = w]  BY <1>1, <2>1
  <2> HIDE DEF w
  <2> QED  BY <2>2, <2>3
<1> QED  BY <1>4, <1>5

(* What every action does to the streams, in one of four ways.             *)
LEMMA HandFrameType ==
  ASSUME TypeOK, NEW d \in Dir, NEW n \in PktLen, HandFrame(d, n)
  PROVE  TypeOK'
<1>1. n \in Nat /\ n >= 1  BY FrameAssumption, BufferAssumption
<1>2. total[d] \in Nat /\ total[d] + n \in Nat /\ total[d] <= total[d] + n  BY <1>1 DEF TypeOK
<1>3. total' \in [Dir -> Nat] /\ ends' \in [Dir -> SUBSET Nat]
  BY <1>2 DEF TypeOK, HandFrame
<1>4. \A c \in Dir : DirOK(c)'
  <2> TAKE c \in Dir
  <2>1. DirOK(c) /\ written[c] \in Nat /\ total[c] \in Nat  BY DEF TypeOK, DirOK
  <2>2. CASE c = d
    <3>1. total'[c] = total[d] + n /\ ends'[c] = ends[d] \cup {total[d] + n}
      BY <2>2 DEF HandFrame, TypeOK
    <3>2. \A e \in ends[d] : e \in Nat  BY DEF TypeOK
    <3> QED  BY <1>2, <2>1, <2>2, <3>1, <3>2 DEF HandFrame, DirOK, InStream
  <2>3. CASE c # d
    <3>1. total'[c] = total[c] /\ ends'[c] = ends[c]
      BY <2>3 DEF HandFrame, TypeOK
    <3> QED  BY <2>1, <3>1 DEF HandFrame, DirOK, InStream
  <2> QED  BY <2>2, <2>3
<1> QED  BY <1>3, <1>4 DEF TypeOK, HandFrame, DirOK

(* A position of one stream moves; the others, and what was handed over,   *)
(* stay as they are.                                                       *)
LEMMA WriteType ==
  ASSUME TypeOK, NEW d \in Dir, WriteSome(d)
  PROVE  TypeOK'
<1>1. PICK w \in Nat : /\ written' = [written EXCEPT ![d] = w]
                       /\ written[d] < w /\ w <= total[d] /\ w - taken[d] <= Capacity
  BY WriteMoves
<1>2. written' \in [Dir -> Nat]  BY <1>1 DEF TypeOK
<1>3. \A c \in Dir : DirOK(c)'
  <2> TAKE c \in Dir
  <2>1. /\ DirOK(c) /\ written[c] \in Nat /\ taken[c] \in Nat
        /\ written'[c] = IF c = d THEN w ELSE written[c]
    BY <1>1 DEF TypeOK, DirOK
  <2> QED  BY <1>1, <2>1 DEF WriteSome, DirOK, InStream
<1> QED  BY <1>2, <1>3 DEF TypeOK, WriteSome, DirOK

LEMMA TakeType ==
  ASSUME TypeOK, NEW d \in Dir, InStream(d) > 0,
         taken' = [taken EXCEPT ![d] = written[d]],
         UNCHANGED <<total, ends, written>>
  PROVE  taken' \in [Dir -> Nat] /\ \A c \in Dir : DirOK(c)'
<1>1. written[d] \in Nat  BY DEF TypeOK
<1>2. taken' \in [Dir -> Nat]  BY <1>1 DEF TypeOK
<1>3. \A c \in Dir : DirOK(c)'
  <2> TAKE c \in Dir
  <2>1. /\ DirOK(c) /\ written[c] \in Nat /\ taken[c] \in Nat
        /\ taken'[c] = IF c = d THEN written[d] ELSE taken[c]
    BY DEF TypeOK, DirOK
  <2> QED  BY <1>1, <2>1, BufferAssumption DEF DirOK, InStream
<1> QED  BY <1>2, <1>3

(* A chunk that is put on the device moves from pending to carried.        *)
LEMMA PutType ==
  ASSUME TypeOK, Put
  PROVE  TypeOK'
<1>1. Head(pending) \in Chunk /\ pending' \in Seq(Chunk) /\ Len(pending') <= Len(pending)
  BY DEF TypeOK, Put
<1>2. carried' \in [Dir -> Seq(Chunk)]
  <2>1. Append(carried["down"], Head(pending)) \in Seq(Chunk)
    BY <1>1, TwoDirs DEF TypeOK
  <2> QED  BY <2>1 DEF TypeOK, Put
<1>3. Len(pending') <= (IF platform = "unix" THEN 1 ELSE ChanCap + 1)
  BY <1>1, BufferAssumption DEF TypeOK
<1> QED  BY <1>1, <1>2, <1>3 DEF TypeOK, Put, streamVars, InStream

-----------------------------------------------------------------------------
(* Type correctness: streams never hold more than their capacity, and a    *)
(* Unix bridge never has more than one chunk in its hands.                 *)
THEOREM TypeCorrect == Spec => []TypeOK
<1>1. Init => TypeOK
  <2> SUFFICES ASSUME Init PROVE TypeOK  OBVIOUS
  <2>1. <<>> \in Seq(Chunk) /\ Len(<<>>) = 0  OBVIOUS
  <2> QED  BY <2>1, BufferAssumption DEF Init, TypeOK, InStream
<1>2. TypeOK /\ [Next]_vars => TypeOK'
  <2> SUFFICES ASSUME TypeOK, [Next]_vars PROVE TypeOK'  OBVIOUS
  <2>1. ASSUME NEW n \in PktLen, DeviceRead(n) PROVE TypeOK'
    BY <2>1, HandFrameType, TwoDirs DEF DeviceRead
  <2>2. ASSUME NEW n \in PktLen, Received(n) PROVE TypeOK'
    BY <2>2, HandFrameType, TwoDirs DEF Received
  <2>3. ASSUME NEW d \in Dir, WriteSome(d) PROVE TypeOK'
    BY <2>3, WriteType
  <2>4. ASSUME NEW d \in Dir, PumpEnds(d) PROVE TypeOK'
    BY <2>4 DEF PumpEnds, TypeOK, streamVars, InStream
  <2>5. CASE PumpRead
    <3>1. /\ InStream("up") > 0
          /\ taken' = [taken EXCEPT !["up"] = ReadChunk("up", BufLen).to]
          /\ carried' = [carried EXCEPT !["up"] = Append(@, ReadChunk("up", BufLen))]
      BY <2>5 DEF PumpRead
    <3>2. /\ ReadChunk("up", BufLen) \in Chunk
          /\ ReadChunk("up", BufLen).to = written["up"]
      BY <3>1, ReadTakesAll, TwoDirs
    <3>3. taken' \in [Dir -> Nat] /\ \A c \in Dir : DirOK(c)'
      BY <2>5, <3>1, <3>2, TakeType, TwoDirs DEF PumpRead
    <3>4. carried' \in [Dir -> Seq(Chunk)]
      <4>1. Append(carried["up"], ReadChunk("up", BufLen)) \in Seq(Chunk)
        BY <3>2, TwoDirs DEF TypeOK
      <4> QED  BY <3>1, <4>1 DEF TypeOK
    <3> QED  BY <2>5, <3>3, <3>4 DEF PumpRead, TypeOK, DirOK
  <2>6. CASE BridgeRead
    <3>1. /\ InStream("down") > 0
          /\ taken' = [taken EXCEPT !["down"] = ReadChunk("down", BufLen).to]
      BY <2>6 DEF BridgeRead
    <3>2. /\ ReadChunk("down", BufLen) \in Chunk
          /\ ReadChunk("down", BufLen).to = written["down"]
      BY <3>1, ReadTakesAll, TwoDirs
    <3>3. taken' \in [Dir -> Nat] /\ \A c \in Dir : DirOK(c)'
      BY <2>6, <3>1, <3>2, TakeType, TwoDirs DEF BridgeRead
    <3>4. /\ pending' \in Seq(Chunk)
          /\ Len(pending') <= (IF platform = "unix" THEN 1 ELSE ChanCap + 1)
      <4> DEFINE longer == Append(pending, ReadChunk("down", BufLen))
      <4>1. longer \in Seq(Chunk) /\ Len(longer) = Len(pending) + 1 /\ Len(pending) \in Nat
        BY <3>2 DEF TypeOK
      <4>2. pending' = pending \/ pending' = longer
        BY <2>6 DEF BridgeRead
      <4>3. pending \in Seq(Chunk)  BY DEF TypeOK
      <4>4. Len(pending) <= (IF platform = "unix" THEN 0 ELSE ChanCap)
        <5>1. CASE platform = "unix"
          <6>1. pending = <<>>  BY <2>6, <5>1 DEF BridgeRead, Free
          <6> QED  BY <5>1, <6>1
        <5>2. CASE platform # "unix"
          BY <2>6, <5>2 DEF BridgeRead
        <5> QED  BY <5>1, <5>2
      <4> HIDE DEF longer
      <4> QED  BY <4>1, <4>2, <4>3, <4>4, BufferAssumption
    <3> QED  BY <2>6, <3>3, <3>4 DEF BridgeRead, TypeOK, DirOK
  <2>7. CASE DeviceWrite \/ SendPacket
    BY <2>7, PutType DEF DeviceWrite, SendPacket
  <2>8. CASE DropPacket
    <3>1. pending' \in Seq(Chunk) /\ Len(pending') <= Len(pending)
      BY <2>8 DEF DropPacket, TypeOK
    <3>2. Len(pending') <= (IF platform = "unix" THEN 1 ELSE ChanCap + 1)
      BY <3>1, BufferAssumption DEF TypeOK
    <3> QED  BY <2>8, <3>1, <3>2 DEF DropPacket, TypeOK, streamVars, InStream
  <2>9. CASE SenderPanics \/ DeviceFails
    <3>1. pending' = <<>> \/ pending' = pending
      BY <2>9 DEF SenderPanics, DeviceFails
    <3>2. /\ pending' \in Seq(Chunk)
          /\ Len(pending') <= (IF platform = "unix" THEN 1 ELSE ChanCap + 1)
      <4>1. <<>> \in Seq(Chunk) /\ Len(<<>>) = 0  OBVIOUS
      <4>2. 0 <= (IF platform = "unix" THEN 1 ELSE ChanCap + 1)  BY BufferAssumption
      <4> QED  BY <3>1, <4>1, <4>2 DEF TypeOK
    <3> QED  BY <2>9, <3>2 DEF SenderPanics, DeviceFails, TypeOK, streamVars, InStream
  <2>10. CASE UNCHANGED vars
    BY <2>10 DEF vars, TypeOK, streamVars, InStream
  <2> QED  BY <2>1, <2>2, <2>3, <2>4, <2>5, <2>6, <2>7, <2>8, <2>9, <2>10 DEF Next
<1> QED  BY <1>1, <1>2, PTL DEF Spec

-----------------------------------------------------------------------------
(* Nothing lost, nothing reordered.                                        *)

(* A chunk read from where the last one ended goes on the end.             *)
LEMMA TileAppend ==
  ASSUME NEW chunks \in Seq(Chunk), NEW n \in Nat, NEW m \in Nat, n < m, Tile(chunks, n)
  PROVE  Tile(Append(chunks, [from |-> n, to |-> m]), m)
<1> DEFINE c == [from |-> n, to |-> m]
           longer == Append(chunks, c)
<1>1. /\ Len(longer) = Len(chunks) + 1 /\ Len(chunks) \in Nat /\ longer # <<>>
      /\ longer[Len(chunks) + 1] = c
      /\ \A i \in 1..Len(chunks) : longer[i] = chunks[i]
  OBVIOUS
<1>2. c.from = n /\ c.to = m  OBVIOUS
<1>3. n = (IF Len(chunks) = 0 THEN 0 ELSE chunks[Len(chunks)].to)
  BY DEF Tile
<1> HIDE DEF c, longer
<1>4. \A i \in 1..Len(longer) : /\ longer[i].from = (IF i = 1 THEN 0 ELSE longer[i - 1].to)
                                /\ longer[i].from < longer[i].to
  <2> TAKE i \in 1..Len(longer)
  <2>1. CASE i = Len(chunks) + 1
    <3>1. i # 1 => i - 1 \in 1..Len(chunks)  BY <1>1, <2>1
    <3> QED  BY <1>1, <1>2, <1>3, <2>1, <3>1
  <2>2. CASE i # Len(chunks) + 1
    <3>1. i \in 1..Len(chunks) /\ (i # 1 => i - 1 \in 1..Len(chunks))  BY <1>1, <2>2
    <3> QED  BY <1>1, <3>1 DEF Tile
  <2> QED  BY <2>1, <2>2
<1>5. m = longer[Len(longer)].to  BY <1>1, <1>2
<1> QED  BY <1>1, <1>4, <1>5 DEF Tile, longer, c

(* A chunk on the end of the second of two sequences.                      *)
LEMMA ConcatAppend ==
  ASSUME NEW s \in Seq(Chunk), NEW t \in Seq(Chunk), NEW c \in Chunk
  PROVE  s \o Append(t, c) = Append(s \o t, c)
<1> DEFINE a == s \o Append(t, c)
           b == Append(s \o t, c)
<1>1. /\ a \in Seq(Chunk) /\ b \in Seq(Chunk)
      /\ Len(a) = Len(s) + (Len(t) + 1) /\ Len(b) = Len(s) + Len(t) + 1
      /\ Len(s) \in Nat /\ Len(t) \in Nat
  OBVIOUS
<1>2. \A i \in 1..Len(a) : a[i] = b[i]
  OBVIOUS
<1> HIDE DEF a, b
<1>3. Len(a) = Len(b)  BY <1>1
<1>4. a = b  BY <1>1, <1>2, <1>3
<1> QED  BY <1>4 DEF a, b

(* The ends of a stream see every byte of it once and in order: the reads  *)
(* tile the stream, and what the bridge read is on the device or in hand.  *)
THEOREM StreamsIntact == Spec => []StreamIntact
<1>1. Init => StreamIntact
  BY DEF Init, StreamIntact, Tile, Dir
<1>2. TypeOK /\ StreamIntact /\ [Next]_vars => StreamIntact'
  <2> SUFFICES ASSUME TypeOK, StreamIntact, [Next]_vars PROVE StreamIntact'  OBVIOUS
  <2> DEFINE done == carried["down"] \o pending
  <2>1. /\ carried["up"] \in Seq(Chunk) /\ carried["down"] \in Seq(Chunk)
        /\ pending \in Seq(Chunk) /\ done \in Seq(Chunk)
        /\ taken["up"] \in Nat /\ written["up"] \in Nat
        /\ taken["down"] \in Nat /\ written["down"] \in Nat
    BY TwoDirs DEF TypeOK
  <2>2. CASE UNCHANGED <<platform, taken, carried, pending>> /\ running' \subseteq running
    BY <2>2 DEF StreamIntact
  <2>3. CASE PumpRead
    <3>1. ReadChunk("up", BufLen) = [from |-> taken["up"], to |-> written["up"]]
            /\ taken["up"] < written["up"]
      BY <2>3, ReadTakesAll, TwoDirs DEF PumpRead
    <3>2. /\ carried' = [carried EXCEPT !["up"] = Append(@, ReadChunk("up", BufLen))]
          /\ taken' = [taken EXCEPT !["up"] = ReadChunk("up", BufLen).to]
      BY <2>3 DEF PumpRead
    <3>3. Tile(Append(carried["up"], ReadChunk("up", BufLen)), written["up"])
      BY <2>1, <3>1, TileAppend DEF StreamIntact
    <3>4. /\ carried'["up"] = Append(carried["up"], ReadChunk("up", BufLen))
          /\ taken'["up"] = written["up"]
          /\ carried'["down"] = carried["down"] /\ taken'["down"] = taken["down"]
      BY <3>1, <3>2, TwoDirs DEF TypeOK
    <3> QED  BY <2>3, <3>3, <3>4 DEF PumpRead, StreamIntact
  <2>4. CASE BridgeRead
    <3>1. /\ ReadChunk("down", BufLen) = [from |-> taken["down"], to |-> written["down"]]
          /\ taken["down"] < written["down"]
      BY <2>4, ReadTakesAll, TwoDirs DEF BridgeRead
    <3>2. /\ taken'["up"] = taken["up"] /\ taken'["down"] = written["down"]
          /\ UNCHANGED <<platform, carried>>
      BY <2>4, <3>1, TwoDirs DEF BridgeRead, TypeOK
    <3>3. CASE pending' = Append(pending, ReadChunk("down", BufLen)) /\ running' = running
      <4>1. carried["down"] \o pending' = Append(done, ReadChunk("down", BufLen))
        <5>1. ReadChunk("down", BufLen) \in Chunk  BY <2>1, <3>1 DEF Chunk
        <5> QED  BY <2>1, <3>3, <5>1, ConcatAppend
      <4>2. Tile(done, taken["down"]) => Tile(Append(done, ReadChunk("down", BufLen)), written["down"])
        <5> HIDE DEF done
        <5> QED  BY <2>1, <3>1, TileAppend
      <4> QED  BY <3>2, <3>3, <4>1, <4>2 DEF StreamIntact
    <3>4. CASE running' = running \ {"down"}
      BY <3>2, <3>4 DEF StreamIntact
    <3> QED  BY <2>4, <3>3, <3>4 DEF BridgeRead
  <2>5. CASE Put
    <3>1. carried'["up"] = carried["up"] /\ carried'["down"] = Append(carried["down"], Head(pending))
      BY <2>5, TwoDirs DEF Put, TypeOK
    <3>2. carried'["down"] \o pending' = done
      BY <2>1, <2>5, <3>1 DEF Put
    <3> QED  BY <2>5, <3>1, <3>2 DEF Put, StreamIntact, streamVars
  <2>6. CASE platform = "windows" /\ UNCHANGED <<platform, taken, carried>>
    BY <2>6 DEF StreamIntact
  <2>7. CASE DeviceFails /\ platform = "unix"
    BY <2>7 DEF DeviceFails, StreamIntact, streamVars
  <2>8. CASE \E n \in PktLen : DeviceRead(n) \/ Received(n)
    BY <2>2, <2>8 DEF DeviceRead, Received, HandFrame
  <2>9. CASE \E d \in Dir : WriteSome(d) \/ PumpEnds(d)
    BY <2>2, <2>9 DEF WriteSome, PumpEnds, streamVars
  <2>10. CASE DropPacket \/ SenderPanics
    BY <2>6, <2>10 DEF DropPacket, SenderPanics, streamVars
  <2>11. CASE DeviceFails /\ platform = "windows"
    BY <2>6, <2>11 DEF DeviceFails, streamVars
  <2>12. CASE UNCHANGED vars
    BY <2>2, <2>12 DEF vars, streamVars
  <2> QED
    BY <2>3, <2>4, <2>5, <2>7, <2>8, <2>9, <2>10, <2>11, <2>12
    DEF Next, DeviceWrite, SendPacket, DeviceFails
<1> QED  BY <1>1, <1>2, TypeCorrect, PTL DEF Spec

-----------------------------------------------------------------------------
(* Frames.                                                                 *)

\* the chunk ends where a frame does, or is a full stream
WholeChunk(d, chunk) == chunk.to \in ends[d] \/ chunk.to - chunk.from = Capacity

(* A stream that is not empty ends where a frame ends, unless it is full:  *)
(* that is where the next read will end, since a read takes all there is.  *)
StreamEndsWhole(d) ==
  \/ written[d] = taken[d]
  \/ written[d] \in ends[d]
  \/ InStream(d) = Capacity

CutInv ==
  /\ \A d \in Dir : StreamEndsWhole(d)
  /\ \A d \in Dir : \A i \in 1..Len(carried[d]) : WholeChunk(d, carried[d][i])
  /\ \A i \in 1..Len(pending) : WholeChunk("down", pending[i])

(* What a read returns is such a chunk.                                    *)
LEMMA ReadWhole ==
  ASSUME TypeOK, NEW d \in Dir, InStream(d) > 0, StreamEndsWhole(d)
  PROVE  WholeChunk(d, ReadChunk(d, BufLen))
<1>1. /\ ReadChunk(d, BufLen) = [from |-> taken[d], to |-> written[d]]
      /\ taken[d] < written[d] /\ taken[d] \in Nat /\ written[d] \in Nat
  BY ReadTakesAll
<1> QED  BY <1>1 DEF WholeChunk, StreamEndsWhole, InStream

(* Reading leaves the stream empty, and the other one as it was.           *)
LEMMA ReadEnds ==
  ASSUME TypeOK, CutInv, NEW d \in Dir, InStream(d) > 0,
         taken' = [taken EXCEPT ![d] = ReadChunk(d, BufLen).to],
         UNCHANGED <<ends, written>>
  PROVE  \A c \in Dir : StreamEndsWhole(c)'
<1>1. ReadChunk(d, BufLen).to = written[d]  BY ReadTakesAll
<1> TAKE c \in Dir
<1>2. taken'[c] = IF c = d THEN written[d] ELSE taken[c]  BY <1>1 DEF TypeOK
<1> QED  BY <1>2 DEF CutInv, StreamEndsWhole, InStream

(* A frame reaches the device, or the swarm, cut only when it met a full   *)
(* stream of 64 KiB.                                                       *)
THEOREM CutOnlyFull == Spec => []CutOnlyWhenFull
<1>1. Init => CutInv
  BY DEF Init, CutInv, StreamEndsWhole, Dir
<1>2. TypeOK /\ CutInv /\ [Next]_vars => CutInv'
  <2> SUFFICES ASSUME TypeOK, CutInv, [Next]_vars PROVE CutInv'  OBVIOUS
  <2>1. ASSUME NEW d \in Dir, NEW n \in PktLen, HandFrame(d, n) PROVE CutInv'
    <3>1. \A c \in Dir : ends[c] \subseteq ends'[c]
      BY <2>1 DEF HandFrame, TypeOK
    <3> QED  BY <2>1, <3>1, TwoDirs DEF HandFrame, CutInv, StreamEndsWhole, WholeChunk, InStream
  <2>2. ASSUME NEW d \in Dir, WriteSome(d) PROVE CutInv'
    <3>1. PICK w \in Nat : /\ written' = [written EXCEPT ![d] = w]
                           /\ w \in ends[d] \/ w - taken[d] = Capacity
      BY <2>2, WriteMoves
    <3>2. \A c \in Dir : StreamEndsWhole(c)'
      <4> TAKE c \in Dir
      <4>1. written'[c] = IF c = d THEN w ELSE written[c]  BY <3>1 DEF TypeOK
      <4> QED  BY <2>2, <3>1, <4>1 DEF WriteSome, CutInv, StreamEndsWhole, InStream
    <3> QED  BY <2>2, <3>2 DEF WriteSome, CutInv, WholeChunk
  <2>3. CASE PumpRead
    <3>1. /\ WholeChunk("up", ReadChunk("up", BufLen))
          /\ ReadChunk("up", BufLen) \in Chunk
      BY <2>3, ReadWhole, ReadTakesAll, TwoDirs DEF PumpRead, CutInv
    <3>2. carried' = [carried EXCEPT !["up"] = Append(@, ReadChunk("up", BufLen))]
      BY <2>3 DEF PumpRead
    <3>3. \A d \in Dir : StreamEndsWhole(d)'
      BY <2>3, ReadEnds, TwoDirs DEF PumpRead
    <3>4. \A d \in Dir : \A i \in 1..Len(carried'[d]) : WholeChunk(d, carried'[d][i])
      <4> TAKE d \in Dir
      <4>1. CASE d = "up"
        <5>1. carried'[d] = Append(carried["up"], ReadChunk("up", BufLen))
          BY <3>2, <4>1, TwoDirs DEF TypeOK
        <5>2. carried["up"] \in Seq(Chunk)  BY TwoDirs DEF TypeOK
        <5>3. \A i \in 1..Len(carried'[d]) :
                \/ i \in 1..Len(carried["up"]) /\ carried'[d][i] = carried["up"][i]
                \/ carried'[d][i] = ReadChunk("up", BufLen)
          BY <3>1, <5>1, <5>2
        <5> QED  BY <3>1, <4>1, <5>3, TwoDirs DEF CutInv
      <4>2. CASE d # "up"
        <5>1. carried'[d] = carried[d]  BY <3>2, <4>2 DEF TypeOK
        <5> QED  BY <5>1 DEF CutInv
      <4> QED  BY <4>1, <4>2
    <3> QED  BY <2>3, <3>3, <3>4 DEF PumpRead, CutInv, WholeChunk
  <2>4. CASE BridgeRead
    <3>1. /\ WholeChunk("down", ReadChunk("down", BufLen))
          /\ ReadChunk("down", BufLen) \in Chunk
      BY <2>4, ReadWhole, ReadTakesAll, TwoDirs DEF BridgeRead, CutInv
    <3>2. \A d \in Dir : StreamEndsWhole(d)'
      BY <2>4, ReadEnds, TwoDirs DEF BridgeRead
    <3>3. \A i \in 1..Len(pending') : WholeChunk("down", pending'[i])
      <4>1. CASE pending' = Append(pending, ReadChunk("down", BufLen))
        <5>1. pending \in Seq(Chunk)  BY DEF TypeOK
        <5>2. \A i \in 1..Len(pending') :
                \/ i \in 1..Len(pending) /\ pending'[i] = pending[i]
                \/ pending'[i] = ReadChunk("down", BufLen)
          BY <3>1, <4>1, <5>1
        <5> QED  BY <3>1, <5>2 DEF CutInv
      <4>2. CASE pending' = pending
        BY <4>2 DEF CutInv
      <4> QED  BY <2>4, <4>1, <4>2 DEF BridgeRead
    <3> QED  BY <2>4, <3>2, <3>3 DEF BridgeRead, CutInv, WholeChunk
  <2>5. ASSUME pending # <<>>, pending' = Tail(pending)
        PROVE  \A i \in 1..Len(pending') : WholeChunk("down", pending'[i])
    <3>1. pending \in Seq(Chunk)  BY DEF TypeOK
    <3>2. \A i \in 1..Len(pending') : i + 1 \in 1..Len(pending) /\ pending'[i] = pending[i + 1]
      BY <2>5, <3>1
    <3> QED  BY <3>2 DEF CutInv
  <2>6. CASE Put
    <3>1. carried' = [carried EXCEPT !["down"] = Append(@, Head(pending))]
      BY <2>6 DEF Put
    <3>2. WholeChunk("down", Head(pending)) /\ Head(pending) \in Chunk
      <4>1. pending \in Seq(Chunk) /\ pending # <<>>  BY <2>6 DEF Put, TypeOK
      <4>2. 1 \in 1..Len(pending) /\ Head(pending) = pending[1]  BY <4>1
      <4> QED  BY <4>1, <4>2 DEF CutInv
    <3>3. \A d \in Dir : \A i \in 1..Len(carried'[d]) : WholeChunk(d, carried'[d][i])
      <4> TAKE d \in Dir
      <4>1. CASE d = "down"
        <5>1. carried'[d] = Append(carried["down"], Head(pending))
          BY <3>1, <4>1, TwoDirs DEF TypeOK
        <5>2. carried["down"] \in Seq(Chunk)  BY TwoDirs DEF TypeOK
        <5>3. \A i \in 1..Len(carried'[d]) :
                \/ i \in 1..Len(carried["down"]) /\ carried'[d][i] = carried["down"][i]
                \/ carried'[d][i] = Head(pending)
          BY <3>2, <5>1, <5>2
        <5> QED  BY <3>2, <4>1, <5>3, TwoDirs DEF CutInv
      <4>2. CASE d # "down"
        <5>1. carried'[d] = carried[d]  BY <3>1, <4>2 DEF TypeOK
        <5> QED  BY <5>1 DEF CutInv
      <4> QED  BY <4>1, <4>2
    <3> QED
      BY <2>5, <2>6, <3>3 DEF Put, CutInv, StreamEndsWhole, WholeChunk, InStream, streamVars
  <2>7. CASE DropPacket
    BY <2>5, <2>7 DEF DropPacket, CutInv, StreamEndsWhole, WholeChunk, InStream, streamVars
  <2>8. CASE UNCHANGED <<streamVars, carried>> /\ (pending' = pending \/ pending' = <<>>)
    BY <2>8 DEF CutInv, StreamEndsWhole, WholeChunk, InStream, streamVars
  <2>9. CASE SenderPanics \/ DeviceFails \/ (\E d \in Dir : PumpEnds(d)) \/ UNCHANGED vars
    BY <2>8, <2>9 DEF SenderPanics, DeviceFails, PumpEnds, vars
  <2> QED
    BY <2>1, <2>2, <2>3, <2>4, <2>6, <2>7, <2>9, TwoDirs
    DEF Next, DeviceRead, Received, DeviceWrite, SendPacket
<1>3. CutInv => CutOnlyWhenFull
  BY DEF CutInv, CutOnlyWhenFull, WholeChunk
<1> QED  BY <1>1, <1>2, <1>3, TypeCorrect, PTL DEF Spec
=============================================================================
