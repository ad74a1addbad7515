--------------------------- MODULE OverlayProofs ---------------------------
(***************************************************************************)
(* Proofs about Overlay, for any nodes and any number of batches: that a   *)
(* batch is delivered at most once, and that what the direct path loses is *)
(* reported.                                                               *)
(***************************************************************************)
EXTENDS Overlay, TLAPS

(* What is known of requests and copies is about batches handed over, and  *)
(* a batch goes by requests or by the mesh, not by both.                   *)
Known ==
  /\ \A x \in wire \cup acks \cup waiting \cup acked \cup failed :
       x[1] \in 1..Len(sent) /\ x[2] \in sent[x[1]].to
  /\ \A c \in copies : c.batch \in 1..Len(sent) /\ sent[c.batch].to = {}

(* A request of which the sender has heard is not waited for.              *)
Settled == waiting \cap (acked \cup failed) = {}

(* No node is its own direct peer.                                         *)
NotToSelf ==
  /\ \A n \in Node : n \notin direct_peers[n]
  /\ \A b \in 1..Len(sent) : sent[b].from \notin sent[b].to

(* Nothing is delivered before it is handed over, nor to its sender, nor   *)
(* twice.                                                                  *)
Once ==
  \A n \in Node, b \in BatchNo :
    /\ tun[n][b] \in {0, 1}
    /\ b \notin 1..Len(sent) => tun[n][b] = 0
    /\ b \in 1..Len(sent) /\ n = sent[b].from => tun[n][b] = 0

(* What is still under way would not be delivered a second time.           *)
UnderWay ==
  /\ \A x \in wire : tun[x[2]][x[1]] = 0
  /\ \A c \in copies, n \in Node :
       n = sent[c.batch].from \/ tun[n][c.batch] = 1 => MessageId(c.batch) \in seen[n]

(* An answer means a delivery; without one, the sender waits or was told.  *)
Answered ==
  /\ \A x \in acks \cup acked : tun[x[2]][x[1]] = 1
  /\ \A b \in 1..Len(sent) : \A m \in sent[b].to :
       tun[m][b] = 1 \/ <<b, m>> \in waiting \cup failed

Inv == TypeOK /\ Known /\ Settled /\ NotToSelf /\ Once /\ UnderWay /\ Answered

-----------------------------------------------------------------------------
(* Requests are pairs.                                                     *)
LEMMA RequestPair ==
  \A x \in Request : x[1] \in BatchNo /\ x[2] \in Node /\ x = <<x[1], x[2]>>
BY DEF Request

(* The batches handed over, and the requests made of them.                 *)
LEMMA SentIs ==
  ASSUME TypeOK
  PROVE  \A b \in 1..Len(sent) :
           b \in BatchNo /\ sent[b].from \in Node /\ sent[b].to \subseteq Node
<1> DEFINE S == [from : Node, to : SUBSET Node]
<1>1. sent \in Seq(S) /\ Len(sent) \in Nat /\ Len(sent) <= MaxBatches  BY DEF TypeOK
<1>2. \A b \in 1..Len(sent) : sent[b] \in S
  <2> HIDE DEF S
  <2> QED  BY <1>1
<1>3. \A b \in 1..Len(sent) : b \in BatchNo  BY <1>1, MaxBatchesAssumption DEF BatchNo
<1> QED  BY <1>2, <1>3

LEMMA RequestsAre ==
  ASSUME Inv
  PROVE  \A x \in wire \cup acks \cup waiting \cup acked \cup failed :
           /\ x[1] \in BatchNo /\ x[2] \in Node /\ x = <<x[1], x[2]>>
           /\ x[1] \in 1..Len(sent) /\ x[2] \in sent[x[1]].to /\ sent[x[1]].to # {}
<1>1. wire \cup acks \cup waiting \cup acked \cup failed \subseteq Request
  BY DEF Inv, TypeOK
<1> QED  BY <1>1, RequestPair DEF Inv, Known

(* What is delivered is counted, and nothing else.                         *)
LEMMA DeliveredCount ==
  ASSUME TypeOK, NEW n \in Node, NEW b \in BatchNo, Delivered(n, b)
  PROVE  /\ tun' \in [Node -> [BatchNo -> Nat]]
         /\ \A m \in Node, a \in BatchNo :
              tun'[m][a] = IF m = n /\ a = b THEN tun[m][a] + 1 ELSE tun[m][a]
BY DEF TypeOK, Delivered

(* The copies a node sends.                                                *)
LEMMA CopiesAre ==
  ASSUME NEW n \in Node, NEW b \in BatchNo, NEW peers \in SUBSET Node
  PROVE  /\ CopiesFrom(n, b, peers) \subseteq [batch : BatchNo, from : Node, to : Node]
         /\ \A c \in CopiesFrom(n, b, peers) : c.batch = b
BY DEF CopiesFrom

LEMMA InitInv == Init => Inv
<1> SUFFICES ASSUME Init PROVE Inv  OBVIOUS
<1>1. <<>> \in Seq([from : Node, to : SUBSET Node]) /\ Len(<<>>) = 0  OBVIOUS
<1>2. Len(sent) = 0 /\ \A b : b \notin 1..Len(sent)  BY <1>1 DEF Init
<1>3. TypeOK  BY <1>1, MaxBatchesAssumption DEF Init, TypeOK
<1>4. Known /\ Settled /\ NotToSelf  BY <1>2 DEF Init, Known, Settled, NotToSelf
<1>5. UnderWay  BY DEF Init, UnderWay
<1>6. Answered
  <2>1. acks \cup acked = {}  BY DEF Init
  <2> QED  BY <1>2, <2>1 DEF Answered
<1>7. Once
  <2>1. \A n \in Node, b \in BatchNo : tun[n][b] = 0  BY DEF Init
  <2> QED  BY <1>2, <2>1 DEF Once
<1> QED  BY <1>3, <1>4, <1>5, <1>6, <1>7 DEF Inv

-----------------------------------------------------------------------------
(* A step that delivers nothing and only loses what is under way.          *)
LEMMA LossKeepsInv ==
  ASSUME Inv, TypeOK', NotToSelf',
         UNCHANGED <<sent, waiting, acked, failed, tun>>,
         wire' \subseteq wire, acks' \subseteq acks, copies' \subseteq copies,
         \A n \in Node : seen[n] \subseteq seen'[n]
  PROVE  Inv'
<1>1. Known'  BY DEF Inv, Known
<1>2. Settled'  BY DEF Inv, Settled
<1>3. Once'  BY DEF Inv, Once
<1>4. UnderWay'
  <2>1. \A x \in wire' : tun'[x[2]][x[1]] = 0  BY DEF Inv, UnderWay
  <2>2. \A c \in copies', n \in Node :
          n = sent'[c.batch].from \/ tun'[n][c.batch] = 1 => MessageId(c.batch) \in seen'[n]
    BY DEF Inv, UnderWay
  <2>3. \A b : MessageId(b)' = MessageId(b)  BY DEF MessageId
  <2> QED  BY <2>1, <2>2, <2>3 DEF UnderWay, MessageId
<1>5. Answered'  BY DEF Inv, Answered
<1> QED  BY <1>1, <1>2, <1>3, <1>4, <1>5 DEF Inv

(* Connections change nothing that is counted.                             *)
LEMMA ConnectionsKeepInv ==
  ASSUME Inv,
         \/ \E link \in Link : Connect(link) \/ Disconnect(link)
         \/ \E n, m \in Node : SeesDirect(n, m)
  PROVE  Inv'
<1>1. ASSUME NEW link \in Link, Connect(link) PROVE Inv'
  <2>1. TypeOK'  BY <1>1 DEF Connect, Inv, TypeOK, rrVars, meshVars
  <2>2. NotToSelf'  BY <1>1 DEF Connect, Inv, NotToSelf
  <2> QED  BY <1>1, <2>1, <2>2, LossKeepsInv DEF Connect, rrVars, meshVars
<1>2. ASSUME NEW n \in Node, NEW m \in Node, SeesDirect(n, m) PROVE Inv'
  <2>1. direct_peers' \in [Node -> SUBSET Node]  BY <1>2 DEF SeesDirect, Inv, TypeOK
  <2>2. \A k \in Node : k \notin direct_peers'[k]
    BY <1>2 DEF SeesDirect, Inv, TypeOK, NotToSelf
  <2>3. TypeOK'  BY <1>2, <2>1 DEF SeesDirect, Inv, TypeOK, rrVars, meshVars
  <2>4. NotToSelf'  BY <1>2, <2>2 DEF SeesDirect, Inv, NotToSelf
  <2> QED  BY <1>2, <2>3, <2>4, LossKeepsInv DEF SeesDirect, rrVars, meshVars
<1>3. ASSUME NEW link \in Link, Disconnect(link) PROVE Inv'
  <2>1. wire' \subseteq wire /\ acks' \subseteq acks /\ copies' \subseteq copies
        /\ linked' \subseteq linked
    BY <1>3 DEF Disconnect
  <2>2. UNCHANGED <<direct_peers, sent, waiting, acked, failed, seen, refused, tun>>
    BY <1>3 DEF Disconnect
  <2>3. TypeOK'  BY <2>1, <2>2 DEF Inv, TypeOK
  <2>4. NotToSelf'  BY <2>2 DEF Inv, NotToSelf
  <2> QED  BY <2>1, <2>2, <2>3, <2>4, LossKeepsInv
<1> QED  BY <1>1, <1>2, <1>3

(* An id is forgotten when no copy is under way.                           *)
LEMMA ForgetKeepsInv ==
  ASSUME Inv, NEW n \in Node, Forget(n)
  PROVE  Inv'
<1>1. seen' \in [Node -> SUBSET {MessageId(b) : b \in BatchNo}]
  BY DEF Forget, Inv, TypeOK
<1>2. TypeOK'  BY <1>1 DEF Forget, Inv, TypeOK, rrVars
<1>3. Known' /\ Settled' /\ NotToSelf'
  BY DEF Forget, Inv, Known, Settled, NotToSelf, rrVars
<1>4. Once'  BY DEF Forget, Inv, Once
<1>5. UnderWay'  BY DEF Forget, Inv, UnderWay, rrVars
<1>6. Answered'  BY DEF Forget, Inv, Answered, rrVars
<1> QED  BY <1>2, <1>3, <1>4, <1>5, <1>6 DEF Inv

(* A gossipsub message is delivered if it was not seen, so not before.     *)
LEMMA GossipKeepsInv ==
  ASSUME Inv, NEW c \in copies, GossipMessage(c)
  PROVE  Inv'
<1>1. /\ c.to \in Node /\ c.from \in Node /\ c.batch \in BatchNo
      /\ c.batch \in 1..Len(sent) /\ sent[c.batch].to = {}
  BY DEF Inv, TypeOK, Known
<1>2. UNCHANGED <<linked, direct_peers, sent, wire, acks, waiting, acked, failed, refused>>
  BY DEF GossipMessage, rrVars
<1>3. CASE copies' = copies \ {c} /\ UNCHANGED <<seen, tun>>
  <2>1. copies' \subseteq copies  BY <1>3
  <2>2. TypeOK'  BY <1>2, <1>3, <2>1 DEF Inv, TypeOK
  <2>3. NotToSelf'  BY <1>2 DEF Inv, NotToSelf
  <2> QED  BY <1>2, <1>3, <2>1, <2>2, <2>3, LossKeepsInv
<1>4. CASE /\ MessageId(c.batch) \notin seen[c.to]
           /\ copies' = (copies \ {c}) \cup CopiesFrom(c.to, c.batch, Neighbours(c.to) \ {c.from})
           /\ seen' = [seen EXCEPT ![c.to] = @ \cup {MessageId(c.batch)}]
           /\ Delivered(c.to, c.batch)
  <2> DEFINE passed == CopiesFrom(c.to, c.batch, Neighbours(c.to) \ {c.from})
  <2>1. /\ passed \subseteq [batch : BatchNo, from : Node, to : Node]
        /\ \A d \in passed : d.batch = c.batch
    BY <1>1, CopiesAre DEF Neighbours
  <2>2. copies' = (copies \ {c}) \cup passed  BY <1>4
  <2> HIDE DEF passed
  <2>3. /\ tun' \in [Node -> [BatchNo -> Nat]]
        /\ \A m \in Node, a \in BatchNo :
             tun'[m][a] = IF m = c.to /\ a = c.batch THEN tun[m][a] + 1 ELSE tun[m][a]
    BY <1>1, <1>4, DeliveredCount DEF Inv
  <2>4. tun[c.to][c.batch] = 0 /\ c.to # sent[c.batch].from
    BY <1>1, <1>4 DEF Inv, UnderWay, Once
  <2>5. /\ seen' \in [Node -> SUBSET {MessageId(b) : b \in BatchNo}]
        /\ \A k \in Node : seen[k] \subseteq seen'[k]
        /\ MessageId(c.batch) \in seen'[c.to]
    BY <1>1, <1>4 DEF Inv, TypeOK
  <2>6. TypeOK'
    <3>1. copies' \subseteq [batch : BatchNo, from : Node, to : Node]
      BY <2>1, <2>2 DEF Inv, TypeOK
    <3>2. seen' \in [Node -> SUBSET {MessageId(b)' : b \in BatchNo}]
      BY <2>5 DEF MessageId
    <3>3. /\ linked' \subseteq Link
          /\ direct_peers' \in [Node -> SUBSET Node]
          /\ sent' \in Seq([from : Node, to : SUBSET Node]) /\ Len(sent') <= MaxBatches
          /\ wire' \subseteq Request /\ acks' \subseteq Request /\ waiting' \subseteq Request
          /\ acked' \subseteq Request /\ failed' \subseteq Request
          /\ acked' \cap failed' = {} /\ refused' \subseteq BatchNo
      BY <1>2 DEF Inv, TypeOK
    <3> QED  BY <2>3, <3>1, <3>2, <3>3 DEF TypeOK
  <2>7. Known' /\ Settled' /\ NotToSelf'
    BY <1>1, <1>2, <2>1, <2>2 DEF Inv, Known, Settled, NotToSelf
  <2>8. Once'
    BY <1>1, <1>2, <2>3, <2>4 DEF Inv, Once
  <2>9. \A x \in wire \cup acks \cup acked :
          tun'[x[2]][x[1]] = tun[x[2]][x[1]]
    BY <1>1, <2>3, RequestsAre
  <2>10. UnderWay'
    <3>1. \A d \in copies' : d \in copies \/ d.batch = c.batch
      BY <2>1, <2>2
    <3>2. ASSUME NEW d \in copies', NEW k \in Node,
                 k = sent[d.batch].from \/ tun'[k][d.batch] = 1
          PROVE  MessageId(d.batch) \in seen'[k]
      <4>1. CASE k = c.to /\ d.batch = c.batch
        BY <2>5, <4>1
      <4>2. CASE ~ (k = c.to /\ d.batch = c.batch)
        <5>1. d.batch \in BatchNo  BY <1>1, <3>1 DEF Inv, TypeOK
        <5>2. k = sent[d.batch].from \/ tun[k][d.batch] = 1
          BY <2>3, <3>2, <4>2, <5>1
        <5>3. PICK e \in copies : e.batch = d.batch  BY <3>1
        <5>4. MessageId(d.batch) \in seen[k]
          BY <5>2, <5>3 DEF Inv, UnderWay
        <5> QED  BY <2>5, <5>4
      <4> QED  BY <4>1, <4>2
    <3> QED  BY <1>2, <2>9, <3>2 DEF Inv, UnderWay
  <2>11. Answered'
    <3>1. \A b \in 1..Len(sent) : \A m \in sent[b].to : b \in BatchNo /\ m \in Node /\ b # c.batch
      BY <1>1, SentIs DEF Inv
    <3> QED  BY <1>2, <2>3, <2>9, <3>1 DEF Inv, Answered
  <2> QED  BY <2>6, <2>7, <2>8, <2>10, <2>11 DEF Inv
<1> QED  BY <1>3, <1>4 DEF GossipMessage

-----------------------------------------------------------------------------
(* A batch that is handed over is new: nothing of it is under way.         *)
LEMMA PublishFacts ==
  ASSUME TypeOK, NEW n \in Node, NEW b \in BatchNo, Publish(n, b)
  PROVE  /\ copies' \subseteq [batch : BatchNo, from : Node, to : Node]
         /\ seen' \in [Node -> SUBSET {MessageId(a) : a \in BatchNo}]
         /\ refused' \subseteq BatchNo
         /\ copies \subseteq copies'
         /\ \A c \in copies' \ copies : c.batch = b /\ MessageId(b) \in seen'[n]
         /\ \A k \in Node : seen[k] \subseteq seen'[k]
<1>1. CASE MessageId(b) \in seen[n] /\ refused' = refused \cup {b} /\ UNCHANGED <<copies, seen>>
  BY <1>1 DEF TypeOK
<1>2. CASE UNCHANGED meshVars
  BY <1>2 DEF meshVars, TypeOK
<1>3. CASE /\ copies' = copies \cup CopiesFrom(n, b, Neighbours(n))
           /\ seen' = [seen EXCEPT ![n] = @ \cup {MessageId(b)}]
           /\ UNCHANGED refused
  <2>1. Neighbours(n) \subseteq Node  BY DEF Neighbours
  <2>2. /\ CopiesFrom(n, b, Neighbours(n)) \subseteq [batch : BatchNo, from : Node, to : Node]
        /\ \A c \in CopiesFrom(n, b, Neighbours(n)) : c.batch = b
    BY <2>1, CopiesAre
  <2>3. /\ seen' \in [Node -> SUBSET {MessageId(a) : a \in BatchNo}]
        /\ MessageId(b) \in seen'[n]
        /\ \A k \in Node : seen[k] \subseteq seen'[k]
    BY <1>3 DEF TypeOK
  <2>4. copies \subseteq [batch : BatchNo, from : Node, to : Node] /\ refused \subseteq BatchNo
    BY DEF TypeOK
  <2> QED  BY <1>3, <2>2, <2>3, <2>4
<1> QED  BY <1>1, <1>2, <1>3 DEF Publish

LEMMA HandOverKeepsInv ==
  ASSUME Inv, NEW n \in Node, NEW is_large \in BOOLEAN, HandOver(n, is_large)
  PROVE  Inv'
<1> DEFINE b == Len(sent) + 1
           to == IF is_large THEN {} ELSE direct_peers[n]
           S  == [from : Node, to : SUBSET Node]
           r  == [from |-> n, to |-> to]
<1>1. /\ b <= MaxBatches /\ sent' = Append(sent, r)
      /\ wire' = wire \cup ({b} \X to) /\ waiting' = waiting \cup ({b} \X to)
      /\ UNCHANGED <<linked, direct_peers, acks, acked, failed, tun>>
      /\ IF to = {} THEN Publish(n, b) ELSE UNCHANGED meshVars
  BY DEF HandOver
<1>2. sent \in Seq(S) /\ Len(sent) \in Nat  BY DEF Inv, TypeOK
<1>3. b \in BatchNo /\ b \notin 1..Len(sent)
  BY <1>1, <1>2, MaxBatchesAssumption DEF BatchNo
<1>4. to \subseteq Node /\ n \notin to  BY DEF Inv, TypeOK, NotToSelf
<1>5. r \in S /\ r.from = n /\ r.to = to  BY <1>4
<1>6. /\ sent' \in Seq(S) /\ Len(sent') = b /\ sent'[b] = r
      /\ \A a \in 1..Len(sent) : a \in 1..Len(sent') /\ a # b /\ sent'[a] = sent[a]
      /\ \A a \in 1..Len(sent') : a = b \/ a \in 1..Len(sent)
      /\ b \in 1..Len(sent')
  <2> HIDE DEF S, r
  <2> QED  BY <1>1, <1>2, <1>5
<1>7. \A k \in Node : tun[k][b] = 0  BY <1>3 DEF Inv, Once
<1>8. /\ copies' \subseteq [batch : BatchNo, from : Node, to : Node]
      /\ seen' \in [Node -> SUBSET {MessageId(a) : a \in BatchNo}]
      /\ refused' \subseteq BatchNo
      /\ \A c \in copies' :
           c \in copies \/ (to = {} /\ c.batch = b /\ MessageId(b) \in seen'[n])
      /\ \A k \in Node : seen[k] \subseteq seen'[k]
  <2>1. CASE to = {}
    <3>1. Publish(n, b)  BY <1>1, <2>1
    <3> QED  BY <1>3, <2>1, <3>1, PublishFacts DEF Inv
  <2>2. CASE to # {}
    <3>1. UNCHANGED <<copies, seen, refused>>  BY <1>1, <2>2 DEF meshVars
    <3> QED  BY <3>1 DEF Inv, TypeOK
  <2> QED  BY <2>1, <2>2
<1>9. \A x \in {b} \X to : x[1] = b /\ x[2] \in to /\ x \in Request
  BY <1>3, <1>4 DEF Request
<1> HIDE DEF b, to, r, S
<1>10. TypeOK'
  <2>1. sent' \in Seq([from : Node, to : SUBSET Node]) /\ Len(sent') <= MaxBatches
    BY <1>1, <1>6 DEF S
  <2>2. seen' \in [Node -> SUBSET {MessageId(a)' : a \in BatchNo}]
    BY <1>8 DEF MessageId
  <2>3. wire' \subseteq Request /\ waiting' \subseteq Request
    BY <1>1, <1>9 DEF Inv, TypeOK
  <2>4. /\ linked' \subseteq Link
        /\ direct_peers' \in [Node -> SUBSET Node]
        /\ acks' \subseteq Request /\ acked' \subseteq Request /\ failed' \subseteq Request
        /\ acked' \cap failed' = {}
        /\ tun' \in [Node -> [BatchNo -> Nat]]
    BY <1>1 DEF Inv, TypeOK
  <2> QED  BY <1>8, <2>1, <2>2, <2>3, <2>4 DEF TypeOK
<1>11. Known'
  <2>1. ASSUME NEW x \in wire' \cup acks' \cup waiting' \cup acked' \cup failed'
        PROVE  x[1] \in 1..Len(sent') /\ x[2] \in sent'[x[1]].to
    <3>1. CASE x \in {b} \X to  BY <1>5, <1>6, <1>9, <3>1
    <3>2. CASE x \notin {b} \X to
      <4>1. x \in wire \cup acks \cup waiting \cup acked \cup failed  BY <1>1, <3>2
      <4> QED  BY <1>6, <4>1 DEF Inv, Known
    <3> QED  BY <3>1, <3>2
  <2>2. \A c \in copies' : c.batch \in 1..Len(sent') /\ sent'[c.batch].to = {}
    BY <1>5, <1>6, <1>8 DEF Inv, Known
  <2> QED  BY <2>1, <2>2 DEF Known
<1>12. Settled'
  <2>1. \A x \in acked \cup failed : x \notin {b} \X to
    BY <1>3, <1>9, RequestsAre
  <2> QED  BY <1>1, <2>1 DEF Inv, Settled
<1>13. NotToSelf'
  BY <1>1, <1>4, <1>5, <1>6 DEF Inv, NotToSelf
<1>14. Once'
  BY <1>1, <1>6, <1>7 DEF Inv, Once
<1>15. UnderWay'
  <2>1. \A x \in wire' : tun'[x[2]][x[1]] = 0
    BY <1>1, <1>4, <1>7, <1>9 DEF Inv, UnderWay
  <2>2. ASSUME NEW c \in copies', NEW k \in Node,
               k = sent'[c.batch].from \/ tun'[k][c.batch] = 1
        PROVE  MessageId(c.batch) \in seen'[k]
    <3>1. CASE c \in copies
      <4>1. k = sent[c.batch].from \/ tun[k][c.batch] = 1
        BY <1>1, <1>6, <2>2, <3>1 DEF Inv, Known
      <4>2. MessageId(c.batch) \in seen[k]  BY <3>1, <4>1 DEF Inv, UnderWay
      <4> QED  BY <1>8, <4>2
    <3>2. CASE c \notin copies
      <4>1. c.batch = b /\ MessageId(b) \in seen'[n]  BY <1>8, <3>2
      <4>2. k = n  BY <1>1, <1>5, <1>6, <1>7, <2>2, <4>1
      <4> QED  BY <4>1, <4>2
    <3> QED  BY <3>1, <3>2
  <2> QED  BY <2>1, <2>2 DEF UnderWay, MessageId
<1>16. Answered'
  <2>1. \A x \in acks' \cup acked' : tun'[x[2]][x[1]] = 1  BY <1>1 DEF Inv, Answered
  <2>2. ASSUME NEW a \in 1..Len(sent'), NEW m \in sent'[a].to
        PROVE  tun'[m][a] = 1 \/ <<a, m>> \in waiting' \cup failed'
    <3>1. CASE a = b
      <4>1. <<a, m>> \in {b} \X to  BY <1>5, <1>6, <2>2, <3>1
      <4> QED  BY <1>1, <4>1
    <3>2. CASE a \in 1..Len(sent)
      BY <1>1, <1>6, <2>2, <3>2 DEF Inv, Answered
    <3> QED  BY <1>6, <3>1, <3>2
  <2> QED  BY <2>1, <2>2 DEF Answered
<1> QED  BY <1>10, <1>11, <1>12, <1>13, <1>14, <1>15, <1>16 DEF Inv

-----------------------------------------------------------------------------
(* A request is taken off the wire when it is delivered.                   *)
LEMMA RequestKeepsInv ==
  ASSUME Inv, NEW x \in Request, RrRequest(x)
  PROVE  Inv'
<1>1. /\ x \in wire /\ wire' = wire \ {x} /\ acks' = acks \cup {x}
      /\ Delivered(x[2], x[1])
      /\ UNCHANGED <<linked, direct_peers, sent, waiting, acked, failed, copies, seen, refused>>
  BY DEF RrRequest, meshVars
<1>2. /\ x[1] \in BatchNo /\ x[2] \in Node /\ x = <<x[1], x[2]>>
      /\ x[1] \in 1..Len(sent) /\ x[2] \in sent[x[1]].to /\ sent[x[1]].to # {}
  BY <1>1, RequestsAre
<1>3. /\ tun' \in [Node -> [BatchNo -> Nat]]
      /\ \A m \in Node, a \in BatchNo :
           tun'[m][a] = IF m = x[2] /\ a = x[1] THEN tun[m][a] + 1 ELSE tun[m][a]
  BY <1>1, <1>2, DeliveredCount DEF Inv
<1>4. tun[x[2]][x[1]] = 0 /\ tun'[x[2]][x[1]] = 1
  BY <1>1, <1>2, <1>3 DEF Inv, UnderWay
<1>5. x[2] # sent[x[1]].from  BY <1>2 DEF Inv, NotToSelf
<1>6. TypeOK'
  <2>1. wire' \subseteq Request /\ acks' \subseteq Request  BY <1>1 DEF Inv, TypeOK
  <2>2. seen' \in [Node -> SUBSET {MessageId(a)' : a \in BatchNo}]
    <3>1. seen' \in [Node -> SUBSET {MessageId(a) : a \in BatchNo}]  BY <1>1 DEF Inv, TypeOK
    <3> QED  BY <3>1 DEF MessageId
  <2>3. /\ linked' \subseteq Link
        /\ direct_peers' \in [Node -> SUBSET Node]
        /\ sent' \in Seq([from : Node, to : SUBSET Node]) /\ Len(sent') <= MaxBatches
        /\ waiting' \subseteq Request /\ acked' \subseteq Request /\ failed' \subseteq Request
        /\ acked' \cap failed' = {} /\ refused' \subseteq BatchNo
        /\ copies' \subseteq [batch : BatchNo, from : Node, to : Node]
    BY <1>1 DEF Inv, TypeOK
  <2> QED  BY <1>3, <2>1, <2>2, <2>3 DEF TypeOK
<1>7. Known'  BY <1>1, <1>2 DEF Inv, Known
<1>8. Settled' /\ NotToSelf'  BY <1>1 DEF Inv, Settled, NotToSelf
<1>9. Once'  BY <1>1, <1>2, <1>3, <1>4, <1>5 DEF Inv, Once
<1>10. UnderWay'
  <2>1. ASSUME NEW y \in wire' PROVE tun'[y[2]][y[1]] = 0
    <3>1. y \in wire /\ y # x  BY <1>1
    <3>2. y[1] \in BatchNo /\ y[2] \in Node /\ ~ (y[2] = x[2] /\ y[1] = x[1])
      BY <1>2, <3>1, RequestsAre
    <3> QED  BY <1>3, <3>1, <3>2 DEF Inv, UnderWay
  <2>2. \A c \in copies : c.batch \in BatchNo /\ c.batch # x[1]
    BY <1>2 DEF Inv, Known, TypeOK
  <2>3. \A c \in copies', n \in Node :
          n = sent'[c.batch].from \/ tun'[n][c.batch] = 1 => MessageId(c.batch) \in seen'[n]
    BY <1>1, <1>3, <2>2 DEF Inv, UnderWay
  <2> QED  BY <2>1, <2>3 DEF UnderWay, MessageId
<1>11. Answered'
  <2>1. ASSUME NEW y \in acks' \cup acked' PROVE tun'[y[2]][y[1]] = 1
    <3>1. CASE y = x  BY <1>4, <3>1
    <3>2. CASE y # x
      <4>1. y \in acks \cup acked  BY <1>1, <3>2
      <4>2. y[1] \in BatchNo /\ y[2] \in Node /\ ~ (y[2] = x[2] /\ y[1] = x[1])
        BY <1>2, <3>2, <4>1, RequestsAre
      <4> QED  BY <1>3, <4>1, <4>2 DEF Inv, Answered
    <3> QED  BY <3>1, <3>2
  <2>2. \A b \in 1..Len(sent) : \A m \in sent[b].to : b \in BatchNo /\ m \in Node
    BY SentIs DEF Inv
  <2>3. ASSUME NEW b \in 1..Len(sent'), NEW m \in sent'[b].to
        PROVE  tun'[m][b] = 1 \/ <<b, m>> \in waiting' \cup failed'
    <3>1. tun[m][b] = 1 \/ <<b, m>> \in waiting \cup failed
      BY <1>1, <2>3 DEF Inv, Answered
    <3>2. b \in BatchNo /\ m \in Node  BY <1>1, <2>2, <2>3
    <3>3. m = x[2] /\ b = x[1] => tun'[m][b] = 1  BY <1>4
    <3>4. ~ (m = x[2] /\ b = x[1]) => tun'[m][b] = tun[m][b]  BY <1>3, <3>2
    <3> QED  BY <1>1, <3>1, <3>3, <3>4
  <2> QED  BY <2>1, <2>3 DEF Answered
<1> QED  BY <1>6, <1>7, <1>8, <1>9, <1>10, <1>11 DEF Inv

(* A request is settled: by the answer, which says it was delivered, or by *)
(* a failure, which is then what is known of it.                           *)
LEMMA SettlingKeepsInv ==
  ASSUME Inv, NEW x \in Request, RrResponse(x) \/ OutboundFailure(x)
  PROVE  Inv'
<1>1. /\ x \in waiting /\ waiting' = waiting \ {x}
      /\ wire' \subseteq wire /\ acks' \subseteq acks
      /\ UNCHANGED <<linked, direct_peers, sent, copies, seen, refused, tun>>
      /\ \/ x \in acks /\ acked' = acked \cup {x} /\ failed' = failed
         \/ acked' = acked /\ failed' = failed \cup {x}
  BY DEF RrResponse, OutboundFailure, meshVars
<1>2. /\ x[1] \in 1..Len(sent) /\ x[2] \in sent[x[1]].to /\ x = <<x[1], x[2]>>
      /\ x \notin acked \cup failed
      /\ x \in acks => tun[x[2]][x[1]] = 1
  BY <1>1, RequestsAre DEF Inv, Settled, Answered
<1>3. TypeOK'
  <2>1. /\ wire' \subseteq Request /\ acks' \subseteq Request /\ waiting' \subseteq Request
        /\ acked' \subseteq Request /\ failed' \subseteq Request
        /\ acked' \cap failed' = {}
    BY <1>1, <1>2 DEF Inv, TypeOK
  <2>2. seen' \in [Node -> SUBSET {MessageId(a)' : a \in BatchNo}]
    <3>1. seen' \in [Node -> SUBSET {MessageId(a) : a \in BatchNo}]  BY <1>1 DEF Inv, TypeOK
    <3> QED  BY <3>1 DEF MessageId
  <2>3. /\ linked' \subseteq Link
        /\ direct_peers' \in [Node -> SUBSET Node]
        /\ sent' \in Seq([from : Node, to : SUBSET Node]) /\ Len(sent') <= MaxBatches
        /\ refused' \subseteq BatchNo /\ tun' \in [Node -> [BatchNo -> Nat]]
        /\ copies' \subseteq [batch : BatchNo, from : Node, to : Node]
    BY <1>1 DEF Inv, TypeOK
  <2> QED  BY <2>1, <2>2, <2>3 DEF TypeOK
<1>4. Known'  BY <1>1, <1>2 DEF Inv, Known
<1>5. Settled' /\ NotToSelf'  BY <1>1 DEF Inv, Settled, NotToSelf
<1>6. Once'  BY <1>1 DEF Inv, Once
<1>7. UnderWay'
  <2>1. \A y \in wire' : tun'[y[2]][y[1]] = 0  BY <1>1 DEF Inv, UnderWay
  <2>2. \A c \in copies', n \in Node :
          n = sent'[c.batch].from \/ tun'[n][c.batch] = 1 => MessageId(c.batch) \in seen'[n]
    BY <1>1 DEF Inv, UnderWay
  <2> QED  BY <2>1, <2>2 DEF UnderWay, MessageId
<1>8. Answered'
  <2>1. \A y \in acks' \cup acked' : tun'[y[2]][y[1]] = 1  BY <1>1, <1>2 DEF Inv, Answered
  <2>2. ASSUME NEW b \in 1..Len(sent'), NEW m \in sent'[b].to
        PROVE  tun'[m][b] = 1 \/ <<b, m>> \in waiting' \cup failed'
    <3>1. tun[m][b] = 1 \/ <<b, m>> \in waiting \cup failed
      BY <1>1, <2>2 DEF Inv, Answered
    <3>2. <<b, m>> = x => x[2] = m /\ x[1] = b  OBVIOUS
    <3> QED  BY <1>1, <1>2, <3>1, <3>2
  <2> QED  BY <2>1, <2>2 DEF Answered
<1> QED  BY <1>3, <1>4, <1>5, <1>6, <1>7, <1>8 DEF Inv

-----------------------------------------------------------------------------
LEMMA NextKeepsInv ==
  ASSUME Inv, [Next]_vars
  PROVE  Inv'
<1>1. CASE UNCHANGED vars
  <2>1. UNCHANGED <<linked, direct_peers, sent, wire, acks, waiting, acked, failed,
                    copies, seen, refused, tun>>
    BY <1>1 DEF vars, rrVars, meshVars
  <2>2. TypeOK'  BY <2>1 DEF Inv, TypeOK
  <2>3. NotToSelf'  BY <2>1 DEF Inv, NotToSelf
  <2> QED  BY <2>1, <2>2, <2>3, LossKeepsInv
<1>2. CASE \/ \E link \in Link \ linked : Connect(link)
           \/ \E link \in linked : Disconnect(link)
           \/ \E n, m \in Node : SeesDirect(n, m)
  <2>1. linked \subseteq Link  BY DEF Inv, TypeOK
  <2> QED  BY <1>2, <2>1, ConnectionsKeepInv
<1>3. CASE \E n \in Node, is_large \in BOOLEAN : HandOver(n, is_large)
  BY <1>3, HandOverKeepsInv
<1>4. CASE \E c \in copies : GossipMessage(c)  BY <1>4, GossipKeepsInv
<1>5. CASE \E n \in Node : Forget(n)  BY <1>5, ForgetKeepsInv
<1>6. CASE \E x \in Request : RrRequest(x) \/ RrResponse(x) \/ OutboundFailure(x)
  BY <1>6, RequestKeepsInv, SettlingKeepsInv
<1> QED  BY <1>1, <1>2, <1>3, <1>4, <1>5, <1>6 DEF Next

(* Inv is an inductive invariant of the overlay.                           *)
THEOREM Invariance == Spec => []Inv
BY InitInv, NextKeepsInv, PTL DEF Spec

(* The types, and that a request is settled once (p2p.rs 564 to 576).      *)
THEOREM TypeCorrect == Spec => []TypeOK
<1>1. Inv => TypeOK  BY DEF Inv
<1> QED  BY <1>1, Invariance, PTL

(* A batch gets to each other node's TUN device at most once and never to  *)
(* its sender's, whichever way flush_batch sent it (p2p.rs 329 to 346) and *)
(* whatever the network loses or delays.                                   *)
THEOREM DeliveredAtMostOnce == Spec => []DeliveredOnce
<1>1. Inv => DeliveredOnce
  <2> SUFFICES ASSUME Inv, NEW n \in Node, NEW b \in 1..Len(sent)
               PROVE  tun[n][b] <= (IF n = sent[b].from THEN 0 ELSE 1)
    BY DEF DeliveredOnce
  <2>1. b \in BatchNo  BY SentIs DEF Inv
  <2> QED  BY <2>1 DEF Inv, Once
<1> QED  BY <1>1, Invariance, PTL

(* A batch for direct peers is with each of them, or waited for, or        *)
(* reported as failed; an acknowledged one is delivered (p2p.rs 564-572).  *)
THEOREM LossReported == Spec => []LossIsReported
<1>1. Inv => LossIsReported
  <2> SUFFICES ASSUME Inv PROVE LossIsReported  OBVIOUS
  <2>1. ASSUME NEW b \in 1..Len(sent), NEW m \in sent[b].to
        PROVE  tun[m][b] > 0 \/ <<b, m>> \in waiting \cup failed
    <3>1. tun[m][b] = 1 \/ <<b, m>> \in waiting \cup failed  BY DEF Inv, Answered
    <3> QED  BY <3>1
  <2>2. \A x \in acked : tun[x[2]][x[1]] > 0  BY DEF Inv, Answered
  <2> QED  BY <2>1, <2>2 DEF LossIsReported
<1> QED  BY <1>1, Invariance, PTL

-----------------------------------------------------------------------------
(* The overlay implements Datagrams.                                       *)

(* A delivery is one of the service, if the batch is for the node and did  *)
(* not come before.                                                        *)
LEMMA DeliveryServes ==
  ASSUME Inv, NEW n \in Node, NEW b \in 1..Len(sent), Delivered(n, b),
         UNCHANGED <<sent, waiting, acked, failed>>,
         n # sent[b].from, sent[b].to = {} \/ n \in sent[b].to, tun[n][b] = 0
  PROVE  Service!Deliver
<1>1. b \in BatchNo  BY SentIs DEF Inv
<1>2. tun' = [tun EXCEPT ![n][b] = 1]
  <2>1. tun' = [tun EXCEPT ![n][b] = tun[n][b] + 1]  BY DEF Delivered
  <2> QED  BY <2>1
<1>3. Service!IsFor(b, n)  BY DEF Service!IsFor
<1> QED  BY <1>2, <1>3 DEF Service!Deliver

(* Through both ways a batch can take, and whatever is lost on them, nodes *)
(* see the service of Datagrams: no batch goes to a node it is not for, or *)
(* twice, and what the sender hears of a request is true and heard once    *)
(* (p2p.rs 329 to 346, 378 to 400 and 550 to 579).                         *)
THEOREM ServesDatagrams == Spec => Service!Spec
<1>1. Init => Service!Init
  BY DEF Init, Service!Init, BatchNo
<1>2. Inv /\ [Next]_vars => [Service!Next]_(Service!dataVars)
  <2> SUFFICES ASSUME Inv, [Next]_vars PROVE [Service!Next]_(Service!dataVars)
    OBVIOUS
  <2>1. ASSUME UNCHANGED <<sent, tun, waiting, acked, failed>>
        PROVE  UNCHANGED Service!dataVars
    BY <2>1 DEF Service!dataVars
  <2>2. CASE UNCHANGED vars
    BY <2>1, <2>2 DEF vars, rrVars
  <2>3. ASSUME NEW link \in Link, Connect(link) \/ Disconnect(link)
        PROVE  UNCHANGED Service!dataVars
    BY <2>1, <2>3 DEF Connect, Disconnect, rrVars
  <2>4. ASSUME NEW n \in Node, (\E m \in Node : SeesDirect(n, m)) \/ Forget(n)
        PROVE  UNCHANGED Service!dataVars
    BY <2>1, <2>4 DEF SeesDirect, Forget, rrVars
  <2>5. ASSUME NEW n \in Node, NEW is_large \in BOOLEAN, HandOver(n, is_large)
        PROVE  Service!Send
    <3> DEFINE to == IF is_large THEN {} ELSE direct_peers[n]
    <3>1. to \in SUBSET (Node \ {n})
      BY DEF Inv, TypeOK, NotToSelf
    <3>2. /\ Len(sent) + 1 <= MaxBatches
          /\ sent' = Append(sent, [from |-> n, to |-> to])
          /\ waiting' = waiting \cup ({Len(sent) + 1} \X to)
          /\ UNCHANGED <<tun, acked, failed>>
      BY <2>5 DEF HandOver
    <3> HIDE DEF to
    <3>3. Len(sent) < MaxBatches
      <4>1. Len(sent) \in Nat /\ MaxBatches \in Nat
        BY MaxBatchesAssumption DEF Inv, TypeOK
      <4> QED  BY <3>2, <4>1
    <3> QED  BY <3>1, <3>2, <3>3 DEF Service!Send
  <2>6. ASSUME NEW c \in copies, GossipMessage(c)
        PROVE  Service!Deliver \/ UNCHANGED Service!dataVars
    <3>1. UNCHANGED <<sent, waiting, acked, failed>>
      BY <2>6 DEF GossipMessage, rrVars
    <3>2. CASE UNCHANGED tun
      BY <2>1, <3>1, <3>2
    <3>3. CASE MessageId(c.batch) \notin seen[c.to] /\ Delivered(c.to, c.batch)
      <4>1. /\ c.to \in Node /\ c.batch \in BatchNo
            /\ c.batch \in 1..Len(sent) /\ sent[c.batch].to = {}
        BY DEF Inv, TypeOK, Known
      <4>2. tun[c.to][c.batch] = 0 /\ c.to # sent[c.batch].from
        BY <3>3, <4>1 DEF Inv, UnderWay, Once
      <4> QED  BY <3>1, <3>3, <4>1, <4>2, DeliveryServes
    <3> QED  BY <2>6, <3>2, <3>3 DEF GossipMessage
  <2>7. ASSUME NEW x \in Request, RrRequest(x)
        PROVE  Service!Deliver
    <3>1. x \in wire /\ Delivered(x[2], x[1]) /\ UNCHANGED <<sent, waiting, acked, failed>>
      BY <2>7 DEF RrRequest
    <3>2. /\ x[2] \in Node /\ x[1] \in 1..Len(sent) /\ x[2] \in sent[x[1]].to
          /\ tun[x[2]][x[1]] = 0
      BY <3>1, RequestsAre DEF Inv, UnderWay
    <3>3. x[2] # sent[x[1]].from
      BY <3>2 DEF Inv, NotToSelf
    <3> QED  BY <3>1, <3>2, <3>3, DeliveryServes
  <2>8. ASSUME NEW x \in Request, RrResponse(x)
        PROVE  Service!Confirm
    <3>1. tun[x[2]][x[1]] = 1
      BY <2>8 DEF RrResponse, Inv, Answered
    <3> QED  BY <2>8, <3>1 DEF RrResponse, Service!Confirm
  <2>9. ASSUME NEW x \in Request, OutboundFailure(x)
        PROVE  Service!GiveUp
    BY <2>9 DEF OutboundFailure, Service!GiveUp
  <2>10. linked \subseteq Link
    BY DEF Inv, TypeOK
  <2> QED
    BY <2>2, <2>3, <2>4, <2>5, <2>6, <2>7, <2>8, <2>9, <2>10 DEF Next, Service!Next
<1> QED  BY <1>1, <1>2, Invariance, PTL DEF Spec, Service!Spec
=============================================================================
