------------------------- MODULE PacketBatchProofs -------------------------
(***************************************************************************)
(* Proofs about PacketBatch, for every value of its constants: no packet   *)
(* read from TUN is lost, doubled or overtaken on its way to a publish or  *)
(* a request while MaxBatchPkts is at most U16Max (CountFits), and no      *)
(* batch outgrows its limits if MaxBatchBytes is at least 5 (BytesFit).    *)
(***************************************************************************)
EXTENDS PacketBatch, TLAPS

-----------------------------------------------------------------------------
(* Type correctness.                                                       *)

(* Flushing hands over well-typed entries.                                 *)
LEMMA AddressedType ==
  ASSUME NEW pkts \in Seq(Packet), NEW to \in SUBSET Peer
  PROVE  Addressed(pkts, to) \in Seq(HandedOver)
<1>1. \A i \in 1..Len(pkts) : [pkt |-> pkts[i], to |-> to] \in HandedOver
  <2> SUFFICES ASSUME NEW i \in 1..Len(pkts) PROVE [pkt |-> pkts[i], to |-> to] \in HandedOver
    OBVIOUS
  <2>1. pkts[i] \in Packet
    OBVIOUS
  <2> QED  BY <2>1 DEF HandedOver
<1> HIDE DEF HandedOver
<1> QED  BY <1>1 DEF Addressed

(* So the log stays well typed when the batch is flushed.                  *)
LEMMA FlushedType ==
  ASSUME TypeOK
  PROVE  Flushed \in Seq(HandedOver)
<1>1. Addressed(batch, direct_peers) \in Seq(HandedOver)
  BY AddressedType DEF TypeOK
<1> QED  BY <1>1 DEF Flushed, TypeOK

(* The packet at the head of a channel that is not empty.                  *)
LEMMA HeadTail ==
  ASSUME NEW queue \in Seq(Packet), queue # <<>>
  PROVE  /\ Head(queue) \in Packet
         /\ Tail(queue) \in Seq(Packet)
         /\ queue = <<Head(queue)>> \o Tail(queue)
<1> HIDE DEF Packet
<1> QED  OBVIOUS

(* Every variable keeps its type, and the buffer is empty exactly when the *)
(* count of its packets is 0 (BatchBuilder, p2p.rs 281 to 323).            *)
THEOREM TypeCorrect == Spec => []TypeOK
<1>1. Init => TypeOK
  BY DEF Init, TypeOK
<1>2. TypeOK /\ [Next]_vars => TypeOK'
  <2> SUFFICES ASSUME TypeOK, [Next]_vars PROVE TypeOK'
    OBVIOUS
  <2>1. ASSUME NEW len \in PktLen, PacketRead(len) PROVE TypeOK'
    <3> DEFINE pkt == [n |-> Len(input) + 1, len |-> len]
    <3>1. pkt \in Packet
      BY DEF Packet, TypeOK
    <3>2. rx_from_tun' = Append(rx_from_tun, pkt) /\ input' = Append(input, pkt)
      BY <2>1 DEF PacketRead
    <3> HIDE DEF pkt
    <3> QED  BY <2>1, <3>1, <3>2 DEF PacketRead, TypeOK
  <2>2. CASE IntervalTick
    BY <2>2, FlushedType DEF IntervalTick, TypeOK
  <2>3. CASE TakeLarge
    <3>1. Head(rx_from_tun) \in Packet /\ Tail(rx_from_tun) \in Seq(Packet)
      BY <2>3, HeadTail DEF TakeLarge, TypeOK
    <3>2. Addressed(<<Head(rx_from_tun)>>, Mesh) \in Seq(HandedOver)
      <4>1. <<Head(rx_from_tun)>> \in Seq(Packet) /\ Mesh \in SUBSET Peer
        BY <3>1 DEF Mesh
      <4> QED  BY <4>1, AddressedType
    <3>3. /\ out' = Flushed \o Addressed(<<Head(rx_from_tun)>>, Mesh)
          /\ rx_from_tun' = Tail(rx_from_tun) /\ batch' = <<>> /\ payload' = 0
          /\ UNCHANGED <<direct_peers, input>>
      BY <2>3 DEF TakeLarge
    <3> HIDE DEF HandedOver, Packet
    <3>4. out' \in Seq(HandedOver)
      BY <3>2, <3>3, FlushedType
    <3>5. batch' \in Seq(Packet) /\ payload' \in Nat /\ (payload' = 0) = (batch' = <<>>)
      BY <3>3
    <3>6. rx_from_tun' \in Seq(Packet) /\ direct_peers' \subseteq Peer /\ input' \in Seq(Packet)
      BY <3>1, <3>3 DEF TypeOK
    <3> QED  BY <3>4, <3>5, <3>6 DEF TypeOK
  <2>4. CASE TakeSmall
    <3> DEFINE pkt == Head(rx_from_tun)
    <3> DEFINE kept == IF BatchFull(pkt) THEN <<>> ELSE batch
    <3> DEFINE size == IF BatchFull(pkt) THEN 0 ELSE payload
    <3>1. pkt \in Packet /\ Tail(rx_from_tun) \in Seq(Packet)
      BY <2>4, HeadTail DEF TakeSmall, TypeOK
    <3>2. pkt.len \in Nat
      BY <3>1, PktLenAssumption DEF Packet
    <3>3. kept \in Seq(Packet) /\ size \in Nat /\ (size = 0) = (kept = <<>>)
      BY DEF TypeOK
    <3>4. /\ batch' = IF Len(kept) # U16Max THEN Append(kept, pkt) ELSE kept
          /\ payload' = IF Len(kept) # U16Max THEN size + 2 + pkt.len ELSE size
          /\ out' = IF BatchFull(pkt) THEN Flushed ELSE out
          /\ rx_from_tun' = Tail(rx_from_tun)
          /\ UNCHANGED <<direct_peers, input>>
      BY <2>4 DEF TakeSmall
    <3> HIDE DEF pkt, kept, size
    <3>5. batch' \in Seq(Packet) /\ payload' \in Nat /\ (payload' = 0) = (batch' = <<>>)
      <4>1. Append(kept, pkt) \in Seq(Packet) /\ Append(kept, pkt) # <<>>
        BY <3>1, <3>3
      <4>2. size + 2 + pkt.len \in Nat /\ size + 2 + pkt.len # 0
        BY <3>2, <3>3
      <4> QED  BY <3>3, <3>4, <4>1, <4>2
    <3>6. out' \in Seq(HandedOver)
      BY <3>4, FlushedType DEF TypeOK
    <3> QED  BY <3>1, <3>4, <3>5, <3>6 DEF TypeOK
  <2>5. ASSUME NEW p \in Peer, Connect(p) PROVE TypeOK'
    BY <2>5 DEF Connect, TypeOK
  <2>6. CASE UNCHANGED vars
    BY <2>6 DEF vars, TypeOK
  <2> QED  BY <2>1, <2>2, <2>3, <2>4, <2>5, <2>6 DEF Next
<1> QED  BY <1>1, <1>2, PTL DEF Spec

-----------------------------------------------------------------------------
(* Order and completeness.                                                 *)

(* The packets of entries handed over one after the other.                 *)
LEMMA PacketsConcat ==
  ASSUME NEW s \in Seq(HandedOver), NEW t \in Seq(HandedOver)
  PROVE  Packets(s \o t) = Packets(s) \o Packets(t)
<1> HIDE DEF HandedOver
<1>1. Len(s \o t) = Len(s) + Len(t) /\ Len(s) \in Nat /\ Len(t) \in Nat
  OBVIOUS
<1>2. /\ Packets(s) = [i \in 1..Len(s) |-> s[i].pkt]
      /\ Packets(t) = [i \in 1..Len(t) |-> t[i].pkt]
      /\ Packets(s \o t) = [i \in 1..(Len(s) + Len(t)) |-> (s \o t)[i].pkt]
  BY <1>1 DEF Packets
<1>3. \A i \in 1..(Len(s) + Len(t)) :
        (s \o t)[i] = IF i <= Len(s) THEN s[i] ELSE t[i - Len(s)]
  OBVIOUS
<1>4. Packets(s) \o Packets(t) =
        [i \in 1..(Len(s) + Len(t)) |-> IF i <= Len(s) THEN s[i].pkt ELSE t[i - Len(s)].pkt]
  BY <1>1, <1>2
<1> QED  BY <1>2, <1>3, <1>4

(* Addressing packets changes neither the packets nor their order.         *)
LEMMA PacketsAddressed ==
  ASSUME NEW pkts \in Seq(Packet), NEW to \in SUBSET Peer
  PROVE  Packets(Addressed(pkts, to)) = pkts
<1> HIDE DEF Packet
<1>1. Len(Addressed(pkts, to)) = Len(pkts)
  BY DEF Addressed
<1>2. \A i \in 1..Len(pkts) : Addressed(pkts, to)[i].pkt = pkts[i]
  BY DEF Addressed
<1>3. Packets(Addressed(pkts, to)) = [i \in 1..Len(pkts) |-> pkts[i]]
  BY <1>1, <1>2 DEF Packets
<1> QED  BY <1>3

(* Concatenation is associative.                                           *)
LEMMA ConcatAssoc ==
  ASSUME NEW S, NEW s \in Seq(S), NEW t \in Seq(S), NEW u \in Seq(S)
  PROVE  (s \o t) \o u = s \o (t \o u)
OBVIOUS

(* Appending is concatenating a sequence of one.                           *)
LEMMA AppendConcat ==
  ASSUME NEW S, NEW s \in Seq(S), NEW t \in Seq(S), NEW x \in S
  PROVE  /\ s \o Append(t, x) = Append(s \o t, x)
         /\ Append(s, x) = s \o <<x>>
         /\ <<x>> \in Seq(S)
         /\ s \o <<>> = s
OBVIOUS

(* What is inductive: BatchWithinLimits needs no more than the types.      *)
BatchInv == TypeOK /\ BatchWithinLimits

(* With CountFits add never refuses a packet: the loop has flushed before  *)
(* the count is at its limit.                                              *)
LEMMA AddAccepts ==
  ASSUME CountFits, TypeOK, NEW pkt \in Packet
  PROVE  Len(IF BatchFull(pkt) THEN <<>> ELSE batch) # U16Max
<1>1. Len(batch) \in Nat
  BY DEF TypeOK
<1>2. CASE BatchFull(pkt)
  BY <1>2, BatchAssumption
<1>3. CASE ~ BatchFull(pkt)
  BY <1>1, <1>3, BatchAssumption DEF BatchFull, CountFits
<1> QED  BY <1>2, <1>3

(* What taking a small packet then does to the builder.                    *)
LEMMA TakeSmallAdds ==
  ASSUME CountFits, TypeOK, TakeSmall
  PROVE  LET pkt == Head(rx_from_tun)
             kept == IF BatchFull(pkt) THEN <<>> ELSE batch
             size == IF BatchFull(pkt) THEN 0 ELSE payload
         IN  /\ pkt \in Packet
             /\ ~ IsLarge(pkt)
             /\ batch' = Append(kept, pkt)
             /\ payload' = size + 2 + pkt.len
             /\ out' = IF BatchFull(pkt) THEN Flushed ELSE out
             /\ rx_from_tun' = Tail(rx_from_tun)
             /\ input' = input
<1>1. Head(rx_from_tun) \in Packet
  BY HeadTail DEF TakeSmall, TypeOK
<1> QED  BY <1>1, AddAccepts DEF TakeSmall

(* No batch outgrows the byte limit, the packet limit or its u16 count,    *)
(* whether or not the packet limit is within the latter (flush_batch       *)
(* before add, p2p.rs 365 to 368, and what add refuses, 299).              *)
THEOREM BatchLimitsKept == ASSUME BytesFit PROVE Spec => []BatchWithinLimits
<1>1. Init => BatchWithinLimits
  BY BatchAssumption DEF Init, BatchWithinLimits, BytesFit
<1>2. BatchInv /\ TypeOK' /\ [Next]_vars => BatchInv'
  <2> SUFFICES ASSUME BatchInv, TypeOK', [Next]_vars PROVE BatchWithinLimits'
    BY DEF BatchInv
  <2>1. CASE IntervalTick \/ TakeLarge
    <3>1. batch' = <<>> /\ payload' = 0
      BY <2>1 DEF IntervalTick, TakeLarge
    <3> QED  BY <3>1, BatchAssumption DEF BatchWithinLimits, BytesFit
  <2>2. CASE TakeSmall
    <3> DEFINE pkt == Head(rx_from_tun)
    <3>1. pkt \in Packet /\ ~ IsLarge(pkt)
      BY <2>2, HeadTail DEF TakeSmall, BatchInv, TypeOK
    <3>2. pkt.len \in Nat
      BY <3>1, PktLenAssumption DEF Packet
    <3>3. batch \in Seq(Packet) /\ payload \in Nat
      BY DEF BatchInv, TypeOK
    <3>4. CASE BatchFull(pkt)
      <4>1. batch' = Append(<<>>, pkt) /\ payload' = 0 + 2 + pkt.len
        BY <2>2, <3>4, BatchAssumption DEF TakeSmall
      <4>2. Len(batch') = 1
        BY <4>1
      <4>3. payload' < MaxBatchBytes
        BY <3>1, <3>2, <4>1, BatchAssumption DEF IsLarge, BytesFit
      <4> QED  BY <4>2, <4>3, BatchAssumption DEF BatchWithinLimits
    <3>5. CASE ~ BatchFull(pkt) /\ Len(batch) # U16Max
      <4>1. batch' = Append(batch, pkt) /\ payload' = payload + 2 + pkt.len
        BY <2>2, <3>5 DEF TakeSmall
      <4>2. Len(batch') = Len(batch) + 1
        BY <3>1, <3>3, <4>1
      <4>3. Len(batch) < MaxBatchPkts /\ payload + pkt.len + 2 < MaxBatchBytes
        BY <3>2, <3>3, <3>5, BatchAssumption DEF BatchFull
      <4>4. Len(batch) < U16Max
        BY <3>3, <3>5, BatchAssumption DEF BatchInv, BatchWithinLimits
      <4> QED
        BY <3>2, <3>3, <4>1, <4>2, <4>3, <4>4, BatchAssumption DEF BatchWithinLimits
    <3>6. CASE ~ BatchFull(pkt) /\ Len(batch) = U16Max
      <4>1. batch' = batch /\ payload' = payload
        BY <2>2, <3>6 DEF TakeSmall
      <4> QED  BY <4>1 DEF BatchInv, BatchWithinLimits
    <3> QED  BY <3>4, <3>5, <3>6
  <2>3. CASE UNCHANGED <<batch, payload>>
    BY <2>3 DEF BatchInv, BatchWithinLimits
  <2> QED
    BY <2>1, <2>2, <2>3 DEF Next, PacketRead, Connect, vars
<1>3. BatchInv => BatchWithinLimits
  BY DEF BatchInv
<1>4. TypeOK /\ BatchWithinLimits => BatchInv
  BY DEF BatchInv
<1> QED  BY <1>1, <1>2, <1>3, <1>4, TypeCorrect, PTL DEF Spec

(* Every packet read is handed over, gathered or waiting, once and in the  *)
(* order it was read, whichever arm flushes the batch, for every limit of  *)
(* bytes and for limits of packets up to u16::MAX.                         *)
THEOREM NothingLostOrOvertaken == ASSUME CountFits PROVE Spec => []HandedOverInOrder
<1>1. Init => HandedOverInOrder
  BY DEF Init, HandedOverInOrder, Packets
<1>2. TypeOK /\ TypeOK' /\ HandedOverInOrder /\ [Next]_vars => HandedOverInOrder'
  <2> SUFFICES ASSUME TypeOK, TypeOK', HandedOverInOrder, [Next]_vars
               PROVE  HandedOverInOrder'
    OBVIOUS
  <2> DEFINE done == Packets(out)
  <2>1. /\ done \in Seq(Packet) /\ batch \in Seq(Packet) /\ rx_from_tun \in Seq(Packet)
        /\ out \in Seq(HandedOver)
        /\ (done \o batch) \o rx_from_tun = input
    <3>1. \A i \in 1..Len(out) : out[i].pkt \in Packet
      <4> SUFFICES ASSUME NEW i \in 1..Len(out) PROVE out[i].pkt \in Packet
        OBVIOUS
      <4>1. out[i] \in HandedOver
        BY DEF TypeOK
      <4> QED  BY <4>1 DEF HandedOver
    <3>2. done \in Seq(Packet)
      BY <3>1 DEF Packets, TypeOK
    <3> QED  BY <3>2 DEF TypeOK, HandedOverInOrder
  <2>2. Packets(Flushed) = done \o batch
    <3>1. Addressed(batch, direct_peers) \in Seq(HandedOver)
      BY AddressedType DEF TypeOK
    <3> QED
      BY <2>1, <3>1, PacketsConcat, PacketsAddressed DEF Flushed, TypeOK
  <2>3. ASSUME NEW len \in PktLen, PacketRead(len) PROVE HandedOverInOrder'
    <3> DEFINE pkt == [n |-> Len(input) + 1, len |-> len]
    <3>1. pkt \in Packet
      BY DEF Packet, TypeOK
    <3>2. /\ rx_from_tun' = Append(rx_from_tun, pkt) /\ input' = Append(input, pkt)
          /\ batch' = batch /\ out' = out
      BY <2>3 DEF PacketRead
    <3> HIDE DEF pkt, done
    <3>3. (done \o batch) \o Append(rx_from_tun, pkt) = Append(input, pkt)
      <4>1. done \o batch \in Seq(Packet)
        BY <2>1
      <4> QED  BY <2>1, <3>1, <4>1, AppendConcat
    <3> QED  BY <3>2, <3>3 DEF HandedOverInOrder, done
  <2>4. CASE IntervalTick
    <3>1. out' = Flushed /\ batch' = <<>> /\ UNCHANGED <<rx_from_tun, input>>
      BY <2>4 DEF IntervalTick
    <3>2. Packets(out') \o batch' = done \o batch
      <4>1. done \o batch \in Seq(Packet)
        BY <2>1
      <4> QED  BY <2>2, <3>1, <4>1
    <3> QED  BY <2>1, <3>1, <3>2 DEF HandedOverInOrder
  <2>5. CASE TakeLarge
    <3> DEFINE pkt == Head(rx_from_tun)
    <3>1. /\ rx_from_tun # <<>> /\ rx_from_tun' = Tail(rx_from_tun)
          /\ out' = Flushed \o Addressed(<<pkt>>, Mesh)
          /\ batch' = <<>> /\ input' = input
      BY <2>5 DEF TakeLarge
    <3>2. pkt \in Packet /\ Tail(rx_from_tun) \in Seq(Packet)
          /\ rx_from_tun = <<pkt>> \o Tail(rx_from_tun)
      BY <2>1, <3>1, HeadTail
    <3>3. <<pkt>> \in Seq(Packet) /\ Mesh \in SUBSET Peer
      BY <3>2 DEF Mesh
    <3>4. Packets(out') = (done \o batch) \o <<pkt>>
      <4>1. Addressed(<<pkt>>, Mesh) \in Seq(HandedOver)
        BY <3>3, AddressedType
      <4>2. Packets(Addressed(<<pkt>>, Mesh)) = <<pkt>>
        BY <3>3, PacketsAddressed
      <4> QED  BY <2>2, <3>1, <4>1, <4>2, FlushedType, PacketsConcat
    <3> HIDE DEF pkt, done
    <3>5. done \o batch \in Seq(Packet) /\ (done \o batch) \o <<pkt>> \in Seq(Packet)
      BY <2>1, <3>3
    <3>6. ((done \o batch) \o <<pkt>>) \o Tail(rx_from_tun) = input
      BY <2>1, <3>2, <3>3, <3>5, ConcatAssoc
    <3>7. Packets(out') \o batch' = (done \o batch) \o <<pkt>>
      <4> DEFINE all == (done \o batch) \o <<pkt>>
      <4>1. all \in Seq(Packet)
        BY <3>5
      <4> HIDE DEF all
      <4>2. all \o <<>> = all
        BY <4>1
      <4> QED  BY <3>1, <3>4, <4>2 DEF all
    <3> QED  BY <3>1, <3>6, <3>7 DEF HandedOverInOrder
  <2>6. CASE TakeSmall
    <3> DEFINE pkt == Head(rx_from_tun)
    <3>1. /\ rx_from_tun # <<>> /\ rx_from_tun' = Tail(rx_from_tun) /\ input' = input
          /\ batch' = Append(IF BatchFull(pkt) THEN <<>> ELSE batch, pkt)
          /\ out' = IF BatchFull(pkt) THEN Flushed ELSE out
      BY <2>6, TakeSmallAdds DEF TakeSmall
    <3>2. pkt \in Packet /\ Tail(rx_from_tun) \in Seq(Packet)
          /\ rx_from_tun = <<pkt>> \o Tail(rx_from_tun)
      BY <2>1, <3>1, HeadTail
    <3> HIDE DEF pkt
    <3>3. Packets(out') \o batch' = (done \o batch) \o <<pkt>>
      <4>1. CASE BatchFull(pkt)
        <5>1. batch' = <<pkt>> /\ Packets(out') = done \o batch
          BY <2>2, <3>1, <4>1
        <5> QED  BY <5>1
      <4>2. CASE ~ BatchFull(pkt)
        <5>1. batch' = Append(batch, pkt) /\ Packets(out') = done
          BY <3>1, <4>2
        <5> HIDE DEF done
        <5>2. done \o Append(batch, pkt) = Append(done \o batch, pkt)
          BY <2>1, <3>2, AppendConcat
        <5>3. done \o batch \in Seq(Packet)
          BY <2>1
        <5>4. Append(done \o batch, pkt) = (done \o batch) \o <<pkt>>
          BY <3>2, <5>3, AppendConcat
        <5> QED  BY <5>1, <5>2, <5>4
      <4> QED  BY <4>1, <4>2
    <3> HIDE DEF done
    <3>4. done \o batch \in Seq(Packet) /\ <<pkt>> \in Seq(Packet)
      BY <2>1, <3>2
    <3>5. ((done \o batch) \o <<pkt>>) \o Tail(rx_from_tun) = input
      BY <2>1, <3>2, <3>4, ConcatAssoc
    <3> QED  BY <3>1, <3>3, <3>5 DEF HandedOverInOrder
  <2>7. CASE UNCHANGED <<rx_from_tun, batch, input, out>>
    BY <2>7 DEF HandedOverInOrder, Packets
  <2> QED
    BY <2>3, <2>4, <2>5, <2>6, <2>7 DEF Next, Connect, vars
<1> QED  BY <1>1, <1>2, TypeCorrect, PTL DEF Spec

-----------------------------------------------------------------------------
(* The data plane implements Forwarding.                                   *)

(* A step that hands packets over, all to current destinations, is one of  *)
(* Forwarding, for what it hands over is what is next.                     *)
LEMMA HandsOverNext ==
  ASSUME TypeOK, TypeOK', HandedOverInOrder', UNCHANGED <<input, direct_peers>>,
         NEW more \in Seq(HandedOver), out' = out \o more,
         \A i \in 1..Len(more) : more[i].to \in {Mesh, direct_peers}
  PROVE  [Forward!Next]_(Forward!fwdVars)
<1> DEFINE n == Len(more)
           to == [i \in 1..n |-> more[i].to]
           next == [i \in 1..n |-> [pkt |-> input[Len(out) + i], to |-> to[i]]]
<1>1. n \in Nat /\ out \in Seq(HandedOver) /\ Len(out) \in Nat
  <2> HIDE DEF HandedOver
  <2> QED  BY DEF TypeOK
<1>2. /\ Len(out) + n <= Len(input)
      /\ \A i \in 1..(Len(out) + n) : input[i] = out'[i].pkt
      /\ Len(input) \in Nat
  <2>1. /\ out' \in Seq(HandedOver) /\ batch' \in Seq(Packet) /\ rx_from_tun' \in Seq(Packet)
        /\ (Packets(out') \o batch') \o rx_from_tun' = input
    BY DEF TypeOK, HandedOverInOrder
  <2> HIDE DEF HandedOver, Packet
  <2> DEFINE o == out'
             b == batch'
             r == rx_from_tun'
  <2>2. o \in Seq(HandedOver) /\ b \in Seq(Packet) /\ r \in Seq(Packet)
        /\ (Packets(o) \o b) \o r = input
    BY <2>1
  <2> HIDE DEF o, b, r
  <2> DEFINE done == Packets(o)
  <2>3. done \in Seq(Packet) /\ Len(done) = Len(o) /\ \A i \in 1..Len(o) : done[i] = o[i].pkt
    <3>1. ASSUME NEW i \in 1..Len(o) PROVE o[i].pkt \in Packet
      <4>1. o[i] \in HandedOver
        BY <2>2
      <4> QED  BY <4>1 DEF HandedOver
    <3> QED  BY <2>2, <3>1 DEF Packets
  <2>4. (done \o b) \o r = input
    BY <2>2
  <2> HIDE DEF done
  <2>5. done \in Seq(Packet) /\ b \in Seq(Packet) /\ r \in Seq(Packet)
    BY <2>2, <2>3
  <2>6. (done \o b) \o r = done \o (b \o r)
    BY ONLY <2>5, ConcatAssoc
  <2> DEFINE rest == b \o r
  <2>7. rest \in Seq(Packet)
    BY ONLY <2>5
  <2>8. rest \in Seq(Packet) /\ input = done \o rest
    BY ONLY <2>4, <2>6, <2>7
  <2> HIDE DEF rest
  <2>9. Len(done) <= Len(input) /\ \A i \in 1..Len(done) : input[i] = done[i]
    BY ONLY <2>3, <2>8
  <2>10. Len(out') <= Len(input) /\ \A i \in 1..Len(out') : input[i] = out'[i].pkt
    BY <2>3, <2>9 DEF o
  <2>11. Len(out') = Len(out) + n
    BY <1>1
  <2>12. Len(input) \in Nat
    BY DEF TypeOK
  <2> QED  BY <2>10, <2>11, <2>12
<1>3. \A i \in 1..n : out'[Len(out) + i] = more[i]
  <2> HIDE DEF HandedOver
  <2> QED  BY <1>1
<1>4. ASSUME NEW i \in 1..n PROVE more[i] = next[i]
  <2>1. more[i] = [pkt |-> more[i].pkt, to |-> more[i].to]
    <3>1. more[i] \in HandedOver
      OBVIOUS
    <3> QED  BY <3>1 DEF HandedOver
  <2>2. Len(out) + i \in 1..(Len(out) + n)
    BY <1>1
  <2>3. more[i].pkt = input[Len(out) + i]
    BY <1>2, <1>3, <2>2
  <2> QED  BY <2>1, <2>3
<1>5. more = next
  <2>1. more = [i \in 1..n |-> more[i]]
    OBVIOUS
  <2> HIDE DEF n
  <2> QED  BY <1>4, <2>1
<1>6. CASE n = 0
  <2>1. out' = out
    <3>1. more = <<>>
      BY <1>6
    <3> HIDE DEF HandedOver
    <3> QED  BY <1>1, <3>1
  <2> QED  BY <2>1 DEF Forward!fwdVars
<1>7. CASE n > 0
  <2>1. n \in 1..(Len(input) - Len(out))
    BY <1>1, <1>2, <1>7
  <2>2. to \in [1..n -> {Mesh, direct_peers}]
    OBVIOUS
  <2>3. out' = out \o next
    BY <1>5
  <2> HIDE DEF n, to
  <2>4. Forward!HandOver
    BY <2>1, <2>2, <2>3 DEF Forward!HandOver, Forward!Mesh, Mesh
  <2> QED  BY <2>4 DEF Forward!Next
<1> QED  BY <1>1, <1>6, <1>7

(* Packets that go to one destination.                                     *)
LEMMA AddressedTo ==
  ASSUME NEW pkts \in Seq(Packet), NEW to
  PROVE  /\ Len(Addressed(pkts, to)) = Len(pkts)
         /\ \A i \in 1..Len(pkts) : Addressed(pkts, to)[i].to = to
BY DEF Addressed

(* With its channel, its batch and their limits hidden, the data plane     *)
(* does nothing but forward the packets that are next, each batch to all   *)
(* the peers that are direct when it is flushed (p2p.rs 329 to 375), for   *)
(* limits of packets up to u16::MAX.                                       *)
THEOREM ForwardsInOrder == ASSUME CountFits PROVE Spec => Forward!Safety
<1>1. Init => Forward!Init
  BY DEF Init, Forward!Init
<1>2. TypeOK /\ TypeOK' /\ HandedOverInOrder' /\ [Next]_vars
        => [Forward!Next]_(Forward!fwdVars)
  <2> SUFFICES ASSUME TypeOK, TypeOK', HandedOverInOrder', [Next]_vars
               PROVE  [Forward!Next]_(Forward!fwdVars)
    OBVIOUS
  <2> DEFINE flushed == Addressed(batch, direct_peers)
  <2>1. /\ flushed \in Seq(HandedOver) /\ Flushed = out \o flushed
        /\ \A i \in 1..Len(flushed) : flushed[i].to \in {Mesh, direct_peers}
    <3>1. batch \in Seq(Packet) /\ direct_peers \in SUBSET Peer
      BY DEF TypeOK
    <3> QED  BY <3>1, AddressedType, AddressedTo DEF Flushed
  <2> HIDE DEF flushed
  <2>2. ASSUME NEW len \in PktLen, PacketRead(len) PROVE Forward!Read(len)
    BY <2>2 DEF PacketRead, Forward!Read
  <2>3. CASE IntervalTick
    <3>1. UNCHANGED <<input, direct_peers>> /\ out' = out \o flushed
      BY <2>1, <2>3 DEF IntervalTick
    <3> QED  BY <2>1, <3>1, HandsOverNext
  <2>4. CASE TakeLarge
    <3> DEFINE large == Addressed(<<Head(rx_from_tun)>>, Mesh)
               more == flushed \o large
    <3>1. UNCHANGED <<input, direct_peers>> /\ out' = (out \o flushed) \o large
      BY <2>1, <2>4 DEF TakeLarge
    <3>2. large \in Seq(HandedOver) /\ \A i \in 1..Len(large) : large[i].to = Mesh
      <4>1. <<Head(rx_from_tun)>> \in Seq(Packet) /\ Mesh \in SUBSET Peer
        BY <2>4, HeadTail DEF TakeLarge, TypeOK, Mesh
      <4> QED  BY <4>1, AddressedType, AddressedTo
    <3> HIDE DEF large, HandedOver
    <3>3. more \in Seq(HandedOver)
          /\ \A i \in 1..Len(more) : more[i].to \in {Mesh, direct_peers}
      BY <2>1, <3>2
    <3>4. out' = out \o more
      <4>1. out \in Seq(HandedOver)
        BY DEF TypeOK
      <4> QED  BY <2>1, <3>1, <3>2, <4>1, ConcatAssoc
    <3> HIDE DEF more
    <3> QED  BY <3>1, <3>3, <3>4, HandsOverNext
  <2>5. CASE TakeSmall
    <3>1. UNCHANGED <<input, direct_peers>> /\ (out' = out \o flushed \/ out' = out)
      BY <2>1, <2>5 DEF TakeSmall
    <3>2. CASE out' = out \o flushed
      BY <2>1, <3>1, <3>2, HandsOverNext
    <3>3. CASE out' = out
      BY <3>1, <3>3 DEF Forward!fwdVars
    <3> QED  BY <3>1, <3>2, <3>3
  <2>6. ASSUME NEW p \in Peer, Connect(p) PROVE Forward!Upgrade(p)
    BY <2>6 DEF Connect, Forward!Upgrade
  <2>7. CASE UNCHANGED vars
    BY <2>7 DEF vars, Forward!fwdVars
  <2> QED
    BY <2>2, <2>3, <2>4, <2>5, <2>6, <2>7 DEF Next, Forward!Next
<1>3. Spec => []HandedOverInOrder
  BY NothingLostOrOvertaken
<1> QED
  BY <1>1, <1>2, <1>3, TypeCorrect, PTL DEF Spec, Forward!Safety
=============================================================================
