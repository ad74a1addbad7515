---------------------------- MODULE InputsProofs ----------------------------
(***************************************************************************)
(* Proofs about the pure functions of the node, for inputs of any length   *)
(* and every size of a byte and of an address.  The invariants of MCInputs *)
(* follow, which say the same of the inputs that its Spec goes through.    *)
(* The loops of the code are recursive functions in the model, so the      *)
(* first part proves what is needed to reason about them: induction over   *)
(* the natural numbers, and that a function defined turn by turn exists.   *)
(* Both are about sets and functions and take no operator as a parameter.  *)
(* Then come the numbers, the batch, the request, the address, the         *)
(* checksum, and at the end the invariants of MCInputs.                    *)
(***************************************************************************)
EXTENDS MCInputs, MultiaddrProofs, WellFoundedInduction, TLAPS

-----------------------------------------------------------------------------
(* Induction and recursion.                                                *)

(* Every set of natural numbers that is not empty has a least element.     *)
LEMMA Least ==
  ASSUME NEW T \in SUBSET Nat, T # {}
  PROVE  \E x \in T : \A y \in T : ~ (y < x)
<1> DEFINE R == {ss \in Nat \X Nat : ss[1] < ss[2]}
<1>1. IsWellFoundedOn(R, Nat)
  BY NatLessThanWellFounded DEF OpToRel
<1> HIDE DEF R
<1>2. PICK x \in T : \A y \in T : ~ (<<y, x>> \in R)
  BY <1>1, WFMin
<1>3. \A y \in T : y < x => <<y, x>> \in R
  BY DEF R
<1> QED  BY <1>2, <1>3

(* Induction, for the set of numbers that have some property.              *)
LEMMA Induction ==
  ASSUME NEW S, 0 \in S, \A n \in Nat : n \in S => n + 1 \in S
  PROVE  \A n \in Nat : n \in S
<1> SUFFICES ASSUME Nat \ S # {} PROVE FALSE
  OBVIOUS
<1>1. PICK x \in Nat \ S : \A y \in Nat \ S : ~ (y < x)
  BY Least
<1>2. x # 0 /\ x - 1 \in Nat /\ x - 1 < x /\ (x - 1) + 1 = x
  BY <1>1
<1>3. x - 1 \in S
  BY <1>1, <1>2
<1> QED  BY <1>1, <1>2, <1>3

Follows(f, a, step) == f[0] = a /\ \A n \in Nat : f[n + 1] = step[n][f[n]]

(* A function that starts from a and goes on by step exists: for every n   *)
(* there is one that is defined up to n, and any two agree where both are. *)
LEMMA FunctionByTurns ==
  ASSUME NEW X, NEW a \in X, NEW step \in [Nat -> [X -> X]]
  PROVE  \E f \in [Nat -> X] : Follows(f, a, step)
<1> DEFINE UpTo(n) == {g \in [0..n -> X] :
                         g[0] = a /\ \A i \in 0..(n - 1) : g[i + 1] = step[i][g[i]]}
<1>1. \A n \in Nat : UpTo(n) # {}
  <2> DEFINE S == {n \in Nat : UpTo(n) # {}}
  <2>1. 0 \in S
    <3>1. [i \in 0..0 |-> a] \in UpTo(0)
      OBVIOUS
    <3> QED  BY <3>1
  <2>2. ASSUME NEW n \in Nat, n \in S PROVE n + 1 \in S
    <3>1. PICK g : g \in UpTo(n)
      BY <2>2
    <3> DEFINE h == [i \in 0..(n + 1) |-> IF i <= n THEN g[i] ELSE step[n][g[n]]]
    <3>2. h \in [0..(n + 1) -> X] /\ h[0] = a
      BY <3>1
    <3>3. ASSUME NEW i \in 0..n PROVE h[i + 1] = step[i][h[i]]
      BY <3>1
    <3>4. (n + 1) - 1 = n /\ n + 1 \in Nat
      OBVIOUS
    <3> HIDE DEF h
    <3>5. h \in UpTo(n + 1)
      BY <3>2, <3>3, <3>4
    <3> HIDE DEF UpTo
    <3> QED  BY <3>4, <3>5
  <2> HIDE DEF S
  <2>3. \A n \in Nat : n \in S
    BY <2>1, <2>2, Induction
  <2> QED  BY <2>3 DEF S
<1>2. ASSUME NEW m \in Nat, NEW n \in Nat, NEW g \in UpTo(m), NEW h \in UpTo(n)
      PROVE  \A i \in Nat : i <= m /\ i <= n => g[i] = h[i]
  <2> DEFINE S == {i \in Nat : i <= m /\ i <= n => g[i] = h[i]}
  <2>1. 0 \in S
    OBVIOUS
  <2>2. ASSUME NEW i \in Nat, i \in S PROVE i + 1 \in S
    <3> SUFFICES ASSUME i + 1 <= m, i + 1 <= n PROVE g[i + 1] = h[i + 1]
      OBVIOUS
    <3>1. g[i] = h[i] /\ i \in 0..(m - 1) /\ i \in 0..(n - 1)
      BY <2>2
    <3> QED  BY <3>1
  <2> HIDE DEF S
  <2>3. \A i \in Nat : i \in S
    BY <2>1, <2>2, Induction
  <2> QED  BY <2>3 DEF S
<1> DEFINE G(n) == CHOOSE g \in UpTo(n) : TRUE
           f == [n \in Nat |-> G(n)[n]]
<1>3. \A n \in Nat : G(n) \in UpTo(n)
  BY <1>1
<1> HIDE DEF G
<1>4. f \in [Nat -> X] /\ f[0] = a
  BY <1>3
<1>5. ASSUME NEW n \in Nat PROVE f[n + 1] = step[n][f[n]]
  <2>1. G(n + 1) \in UpTo(n + 1) /\ G(n) \in UpTo(n) /\ n + 1 \in Nat
    BY <1>3
  <2>2. G(n + 1)[n + 1] = step[n][G(n + 1)[n]]
    BY <2>1
  <2> HIDE DEF UpTo
  <2>3. G(n + 1)[n] = G(n)[n]
    BY <1>2, <2>1
  <2> QED  BY <2>1, <2>2, <2>3
<1> QED  BY <1>4, <1>5 DEF Follows

-----------------------------------------------------------------------------
(* Numbers as bytes.                                                       *)

(* Division leaves a remainder smaller than the divisor.                   *)
LEMMA Division ==
  ASSUME NEW n \in Nat, NEW b \in Nat, b > 0
  PROVE  /\ n \div b \in Nat /\ n % b \in 0..(b - 1)
         /\ n = (n \div b) * b + (n % b)
OBVIOUS

(* A quotient is as small as its dividend allows.                          *)
LEMMA QuotientBound ==
  ASSUME NEW n \in Nat, NEW b \in Nat, NEW c \in Nat, b > 0, n < c * b
  PROVE  n \div b < c
<1> DEFINE q == n \div b
<1>1. q \in Nat /\ q * b <= n
  BY Division
<1> HIDE DEF q
<1>2. ASSUME c <= q PROVE FALSE
  <2>1. c * b <= q * b
    BY <1>1, <1>2
  <2> QED  BY <1>1, <2>1
<1>3. q < c
  BY <1>1, <1>2
<1> QED  BY <1>3 DEF q

(* Two bytes make a number of Nat.                                         *)
LEMMA ReadU16Type ==
  ASSUME NEW data \in Seq(Bytes), NEW i \in Nat, i >= 1, i + 1 <= Len(data)
  PROVE  ReadU16(data, i) \in Nat
<1>1. data[i] \in Nat /\ data[i + 1] \in Nat /\ Base \in Nat
  BY CodecAssumption DEF Bytes
<1>2. data[i] * Base \in Nat
  BY <1>1
<1> QED  BY <1>1, <1>2 DEF ReadU16

(* put_u16 writes two bytes.                                               *)
LEMMA U16Type ==
  ASSUME NEW n \in Nat
  PROVE  U16(n) \in Seq(Bytes) /\ Len(U16(n)) = 2
<1>1. n \div Base \in Nat /\ n % Base \in Bytes
  BY Division, CodecAssumption DEF Bytes
<1>2. (n \div Base) % Base \in Bytes
  BY <1>1, Division, CodecAssumption DEF Bytes
<1> QED  BY <1>1, <1>2 DEF U16

(* And they are read as the number that was written, if it fits.           *)
LEMMA U16Reads ==
  ASSUME NEW n \in Nat, n <= u16_max
  PROVE  U16(n)[1] * Base + U16(n)[2] = n
<1> DEFINE q == n \div Base
<1>1. q \in Nat /\ n % Base \in Nat /\ n = q * Base + (n % Base)
  BY Division, CodecAssumption
<1>2. q < Base
  <2>1. n < Base * Base /\ Base \in Nat
    BY CodecAssumption DEF u16_max
  <2> QED  BY <2>1, QuotientBound, CodecAssumption
<1> HIDE DEF q
<1>3. q % Base = q
  BY <1>1, <1>2, CodecAssumption
<1> QED  BY <1>1, <1>3 DEF U16, q

-----------------------------------------------------------------------------
(* The loop of the receiver.                                               *)

Range16 == [from : Nat, to : Nat]
LoopState == [idx : Nat, left : BOOLEAN, slices : Seq(Range16)]

(* What a turn does when the next packet is there in full, and when not.   *)
LEMMA TurnTakes ==
  ASSUME NEW data \in Seq(Bytes), NEW at \in LoopState
  PROVE  LET len == ReadU16(data, at.idx + 1)
             fits == /\ ~ at.left
                     /\ at.idx + 2 <= Len(data)
                     /\ at.idx + 2 + len <= Len(data)
         IN  /\ Turn(data, at) \in LoopState
             /\ fits => /\ len \in Nat
                        /\ Turn(data, at).idx = at.idx + 2 + len
                        /\ ~ Turn(data, at).left
                        /\ Turn(data, at).slices =
                             Append(at.slices, [from |-> at.idx + 3, to |-> at.idx + 2 + len])
             /\ ~ fits => /\ Turn(data, at).idx = at.idx
                          /\ Turn(data, at).left
                          /\ Turn(data, at).slices = at.slices
<1> DEFINE len == ReadU16(data, at.idx + 1)
           fits == /\ ~ at.left
                   /\ at.idx + 2 <= Len(data)
                   /\ at.idx + 2 + len <= Len(data)
<1>1. /\ at.idx \in Nat /\ at.left \in BOOLEAN /\ at.slices \in Seq(Range16)
      /\ at = [idx |-> at.idx, left |-> at.left, slices |-> at.slices]
  BY DEF LoopState
<1>2. CASE fits
  <2>1. len \in Nat
    BY <1>1, <1>2, ReadU16Type
  <2> HIDE DEF len
  <2>2. /\ Slice(at.idx + 2, len) = [from |-> at.idx + 3, to |-> at.idx + 2 + len]
        /\ Slice(at.idx + 2, len) \in Range16
    BY <1>1, <2>1 DEF Slice, Range16
  <2> HIDE DEF Range16
  <2>3. ~ (at.left \/ at.idx + 2 > Len(data) \/ at.idx + 2 + len > Len(data))
    BY <1>1, <1>2, <2>1
  <2>4. Turn(data, at) = TakeSlice(at, len)
    BY <2>3 DEF Turn, len
  <2>5. TakeSlice(at, len) =
          [idx |-> at.idx + 2 + len, left |-> FALSE,
           slices |-> Append(at.slices, Slice(at.idx + 2, len))]
    BY DEF TakeSlice
  <2>6. Append(at.slices, Slice(at.idx + 2, len)) \in Seq(Range16)
    BY <1>1, <2>2
  <2>7. Turn(data, at) \in LoopState
    BY <1>1, <2>1, <2>4, <2>5, <2>6 DEF LoopState
  <2> QED  BY <1>1, <1>2, <2>1, <2>2, <2>4, <2>5, <2>7 DEF len
<1>3. CASE ~ fits
  <2>1. at.left \/ at.idx + 2 > Len(data) \/ at.idx + 2 + len > Len(data)
    <3>1. CASE at.left \/ at.idx + 2 > Len(data)
      BY <3>1
    <3>2. CASE ~ at.left /\ at.idx + 2 <= Len(data)
      <4>1. len \in Nat
        BY <1>1, <3>2, ReadU16Type
      <4> QED  BY <1>1, <1>3, <3>2, <4>1
    <3> QED  BY <1>1, <3>1, <3>2
  <2>2. Turn(data, at) = [at EXCEPT !.left = TRUE]
    BY <2>1 DEF Turn
  <2>3. Turn(data, at) = [idx |-> at.idx, left |-> TRUE, slices |-> at.slices]
    BY <1>1, <2>2
  <2> QED  BY <1>1, <1>3, <2>3 DEF LoopState
<1> QED  BY <1>2, <1>3

(* The loop is what its recursive definition says.                         *)
LEMMA TurnsDefined ==
  ASSUME NEW data \in Seq(Bytes)
  PROVE  /\ Turns(data) \in [Nat -> LoopState]
         /\ Turns(data)[0] = LoopStart
         /\ \A n \in Nat : Turns(data)[n + 1] = Turn(data, Turns(data)[n])
<1> DEFINE step == [n \in Nat |-> [at \in LoopState |-> Turn(data, at)]]
           IsLoop(t) == t = [n \in Nat |-> IF n = 0 THEN LoopStart ELSE Turn(data, t[n - 1])]
<1>1. LoopStart \in LoopState
  BY DEF LoopStart, LoopState, HDR_LEN
<1>2. \A at \in LoopState : Turn(data, at) \in LoopState
  BY TurnTakes
<1>3. step \in [Nat -> [LoopState -> LoopState]]
  BY <1>2
<1> HIDE DEF step
<1>4. PICK f \in [Nat -> LoopState] : Follows(f, LoopStart, step)
  BY <1>1, <1>3, FunctionByTurns
<1>5. f[0] = LoopStart /\ \A n \in Nat : f[n + 1] = Turn(data, f[n])
  BY <1>4 DEF Follows, step
<1>6. IsLoop(f)
  <2>1. ASSUME NEW n \in Nat
        PROVE  f[n] = IF n = 0 THEN LoopStart ELSE Turn(data, f[n - 1])
    <3>1. CASE n = 0
      BY <1>5, <3>1
    <3>2. CASE n # 0
      <4>1. n - 1 \in Nat /\ (n - 1) + 1 = n
        BY <3>2
      <4>2. f[(n - 1) + 1] = Turn(data, f[n - 1])
        BY <1>5, <4>1
      <4> QED  BY <3>2, <4>1, <4>2
    <3> QED  BY <3>1, <3>2
  <2> QED  BY <1>4, <2>1
<1>7. IsLoop(Turns(data))
  <2>1. Turns(data) = CHOOSE t : IsLoop(t)
    BY DEF Turns
  <2> HIDE DEF IsLoop
  <2> QED  BY <1>6, <2>1
<1> DEFINE T == Turns(data)
<1>8. T = [n \in Nat |-> IF n = 0 THEN LoopStart ELSE Turn(data, T[n - 1])]
  BY <1>7
<1> HIDE DEF T, IsLoop
<1>9. T[0] = LoopStart /\ \A n \in Nat : T[n + 1] = Turn(data, T[n])
  <2>1. T[0] = LoopStart
    BY <1>8
  <2>2. ASSUME NEW n \in Nat PROVE T[n + 1] = Turn(data, T[n])
    <3>1. n + 1 \in Nat /\ n + 1 # 0 /\ (n + 1) - 1 = n
      OBVIOUS
    <3>2. T[n + 1] = Turn(data, T[(n + 1) - 1])
      BY <1>8, <3>1
    <3> QED  BY <3>1, <3>2
  <2> QED  BY <2>1, <2>2
<1>10. \A n \in Nat : T[n] \in LoopState
  <2> DEFINE S == {n \in Nat : T[n] \in LoopState}
  <2>1. 0 \in S
    BY <1>1, <1>9
  <2>2. ASSUME NEW n \in Nat, n \in S PROVE n + 1 \in S
    <3>1. T[n + 1] = Turn(data, T[n]) /\ T[n] \in LoopState /\ n + 1 \in Nat
      BY <1>9, <2>2
    <3>2. T[n + 1] \in LoopState
      BY <1>2, <3>1
    <3> QED  BY <3>1, <3>2
  <2> HIDE DEF S
  <2>3. \A n \in Nat : n \in S
    BY <2>1, <2>2, Induction
  <2> QED  BY <2>3 DEF S
<1>11. T \in [Nat -> LoopState]
  BY <1>8, <1>10
<1> QED  BY <1>9, <1>11 DEF T

(* The slices of a state: within the bytes read so far, one behind the     *)
(* other.                                                                  *)
SlicesInside(data, at) ==
  /\ at.idx \in HDR_LEN..Len(data)
  /\ \A k \in 1..Len(at.slices) :
       /\ at.slices[k].from >= 1 /\ at.slices[k].from <= at.slices[k].to + 1
       /\ at.slices[k].to <= at.idx
       /\ k > 1 => at.slices[k].from > at.slices[k - 1].to

(* A turn leaves them so.                                                  *)
LEMMA TurnStaysInside ==
  ASSUME NEW data \in Seq(Bytes), NEW at \in LoopState, SlicesInside(data, at)
  PROVE  SlicesInside(data, Turn(data, at))
<1> DEFINE len == ReadU16(data, at.idx + 1)
           fits == /\ ~ at.left
                   /\ at.idx + 2 <= Len(data)
                   /\ at.idx + 2 + len <= Len(data)
           new == [from |-> at.idx + 3, to |-> at.idx + 2 + len]
           next == Turn(data, at)
<1>1. at.idx \in Nat /\ at.slices \in Seq(Range16) /\ Len(data) \in Nat
  BY DEF LoopState
<1>2. CASE fits
  <2>1. /\ len \in Nat
        /\ next.idx = at.idx + 2 + len
        /\ next.slices = Append(at.slices, new)
    BY <1>2, TurnTakes
  <2>2. at.idx + 2 + len <= Len(data)
    BY <1>2
  <2> DEFINE n == Len(at.slices)
  <2>3. n \in Nat /\ Len(next.slices) = n + 1 /\ next.slices[n + 1] = new
        /\ \A k \in 1..n : next.slices[k] = at.slices[k] /\ at.slices[k] \in Range16
    BY <1>1, <2>1
  <2> HIDE DEF len, next
  <2>4. \A k \in 1..n : at.slices[k].from \in Nat /\ at.slices[k].to \in Nat
    BY <2>3 DEF Range16
  <2>5. next.idx \in HDR_LEN..Len(data)
    BY <1>1, <2>1, <2>2 DEF SlicesInside, HDR_LEN
  <2>6. ASSUME NEW k \in 1..(n + 1)
        PROVE  /\ next.slices[k].from >= 1 /\ next.slices[k].from <= next.slices[k].to + 1
               /\ next.slices[k].to <= next.idx
               /\ k > 1 => next.slices[k].from > next.slices[k - 1].to
    <3>1. CASE k \in 1..n
      <4>1. next.slices[k] = at.slices[k] /\ (k > 1 => next.slices[k - 1] = at.slices[k - 1])
        BY <2>3, <3>1
      <4>2. /\ at.slices[k].from >= 1 /\ at.slices[k].from <= at.slices[k].to + 1
            /\ at.slices[k].to <= at.idx
            /\ k > 1 => at.slices[k].from > at.slices[k - 1].to
        BY <3>1 DEF SlicesInside
      <4>3. at.slices[k].to \in Nat
        BY <2>4, <3>1
      <4>4. at.slices[k].to <= next.idx
        BY <1>1, <2>1, <4>2, <4>3
      <4> QED  BY <4>1, <4>2, <4>4
    <3>2. CASE k = n + 1
      <4>1. next.slices[k].from = at.idx + 3 /\ next.slices[k].to = at.idx + 2 + len
        BY <2>3, <3>2
      <4>2. k > 1 => next.slices[k - 1] = at.slices[n] /\ n \in 1..n
        BY <2>3, <3>2
      <4>3. k > 1 => next.slices[k - 1].to <= at.idx /\ next.slices[k - 1].to \in Nat
        BY <2>4, <4>2 DEF SlicesInside
      <4>4. k > 1 => next.slices[k].from > next.slices[k - 1].to
        BY <1>1, <4>1, <4>3
      <4>5. at.idx + 3 >= 1 /\ at.idx + 3 <= (at.idx + 2 + len) + 1
            /\ at.idx + 2 + len <= at.idx + 2 + len
        BY <1>1, <2>1
      <4>6. /\ next.slices[k].from >= 1 /\ next.slices[k].from <= next.slices[k].to + 1
            /\ next.slices[k].to <= next.idx
        BY <2>1, <4>1, <4>5
      <4> QED  BY <4>4, <4>6
    <3> QED  BY <2>3, <3>1, <3>2
  <2>7. SlicesInside(data, next)
    BY <2>3, <2>5, <2>6 DEF SlicesInside
  <2> QED  BY <2>7 DEF next
<1>3. CASE ~ fits
  <2>1. next.idx = at.idx /\ next.slices = at.slices
    BY <1>3, TurnTakes
  <2> QED  BY <2>1 DEF SlicesInside
<1> QED  BY <1>2, <1>3

(* Whatever bytes a peer sends, no slice the loop takes leaves them or     *)
(* overlaps another (p2p.rs 384 to 399 and 554 to 563).                    *)
THEOREM LoopStaysInside ==
  ASSUME NEW data \in Seq(Bytes)
  PROVE  StaysInside(data)
<1>1. CASE IsBatch(data)
  <2> DEFINE T == Turns(data)
             S == {n \in Nat : SlicesInside(data, T[n])}
  <2>1. T \in [Nat -> LoopState] /\ T[0] = LoopStart
        /\ \A n \in Nat : T[n + 1] = Turn(data, T[n])
    BY TurnsDefined
  <2> HIDE DEF T
  <2>2. SlicesInside(data, LoopStart)
    BY <1>1 DEF SlicesInside, LoopStart, IsBatch, HDR_LEN
  <2>3. ASSUME NEW n \in Nat, n \in S PROVE n + 1 \in S
    <3>1. T[n] \in LoopState /\ SlicesInside(data, T[n])
      BY <2>1, <2>3
    <3>2. SlicesInside(data, T[n + 1])
      BY <2>1, <3>1, TurnStaysInside
    <3> QED  BY <3>2
  <2>4. 0 \in S
    BY <2>1, <2>2
  <2> HIDE DEF S
  <2>5. \A n \in Nat : n \in S
    BY <2>3, <2>4, Induction
  <2>6. ReadU16(data, 4) \in Nat
    BY <1>1, ReadU16Type DEF IsBatch, HDR_LEN
  <2> DEFINE at == T[ReadU16(data, 4)]
  <2>7. at \in LoopState /\ SlicesInside(data, at)
    BY <2>1, <2>5, <2>6 DEF S
  <2>8. Slices(data) = at.slices
    BY <1>1 DEF Slices, Unpack, T
  <2> HIDE DEF at
  <2>9. at.slices \in Seq(Range16) /\ DOMAIN at.slices = 1..Len(at.slices)
    BY <2>7 DEF LoopState
  <2>10. \A k \in 1..Len(at.slices) : at.slices[k].to \in Nat
    <3>1. \A k \in 1..Len(at.slices) : at.slices[k] \in Range16
      BY <2>9
    <3> QED  BY <3>1 DEF Range16
  <2>11. at.idx \in Nat /\ at.idx <= Len(data)
    BY <2>7 DEF SlicesInside, HDR_LEN
  <2> QED  BY <2>7, <2>8, <2>9, <2>10, <2>11 DEF StaysInside, SlicesInside
<1>2. CASE ~ IsBatch(data)
  <2>1. Slices(data) = <<[from |-> 1, to |-> Len(data)]>> /\ Len(data) \in Nat
    BY <1>2 DEF Slices, Slice
  <2>2. /\ DOMAIN Slices(data) = 1..1
        /\ Slices(data)[1].from = 1 /\ Slices(data)[1].to = Len(data)
    BY <2>1
  <2> QED  BY <2>1, <2>2 DEF StaysInside
<1> QED  BY <1>1, <1>2

-----------------------------------------------------------------------------
(* The bytes BatchBuilder writes.                                          *)

(* The packets of a batch: no more of them than the count can say, none of *)
(* them longer than its length can.  add checks the first, and the second  *)
(* is so because a packet comes from the TUN device.                       *)
Batchable(pkts) ==
  /\ pkts \in Seq(Seq(Bytes)) /\ Len(pkts) <= u16_max
  /\ \A k \in 1..Len(pkts) : Len(pkts[k]) <= u16_max

(* t begins with s.                                                        *)
Begins(t, s) == Len(s) <= Len(t) /\ \A i \in 1..Len(s) : t[i] = s[i]

LEMMA BeginsConcat ==
  ASSUME NEW s \in Seq(Bytes), NEW t \in Seq(Bytes)
  PROVE  Begins(s \o t, s)
<1> HIDE DEF Bytes
<1> QED  BY DEF Begins

LEMMA BeginsTransitive ==
  ASSUME NEW s \in Seq(Bytes), NEW t \in Seq(Bytes), NEW u \in Seq(Bytes),
         Begins(t, s), Begins(u, t)
  PROVE  Begins(u, s)
<1> HIDE DEF Bytes
<1> QED  BY DEF Begins

(* w is s with t behind it.                                                *)
Joins(w, s, t) ==
  /\ Len(w) = Len(s) + Len(t)
  /\ \A i \in 1..Len(s) : w[i] = s[i]
  /\ \A i \in 1..Len(t) : w[Len(s) + i] = t[i]

LEMMA Concat ==
  ASSUME NEW S, NEW s \in Seq(S), NEW t \in Seq(S)
  PROVE  /\ s \o t \in Seq(S) /\ Len(s) \in Nat /\ Len(t) \in Nat
         /\ Joins(s \o t, s, t)
BY DEF Joins

(* A packet with its length before it.                                     *)
LEMMA PrefixedType ==
  ASSUME NEW pkt \in Seq(Bytes)
  PROVE  Prefixed(pkt) \in Seq(Bytes) /\ Len(Prefixed(pkt)) = Len(pkt) + 2
<1> DEFINE u == U16(Len(pkt))
<1>1. u \in Seq(Bytes) /\ Len(u) = 2
  BY U16Type
<1> HIDE DEF Bytes, u
<1>2. u \o pkt \in Seq(Bytes) /\ Len(u \o pkt) = Len(u) + Len(pkt) /\ Len(pkt) \in Nat
  BY <1>1, Concat DEF Joins
<1>3. Len(u \o pkt) = Len(pkt) + 2
  BY <1>1, <1>2
<1> QED  BY <1>2, <1>3 DEF Prefixed, u

(* The buffer is what its recursive definition says.                       *)
LEMMA WrittenDefined ==
  ASSUME NEW pkts \in Seq(Seq(Bytes))
  PROVE  /\ Written(pkts) \in [0..Len(pkts) -> Seq(Bytes)]
         /\ Written(pkts)[0] = Magic \o U16(Len(pkts))
         /\ \A n \in 0..(Len(pkts) - 1) :
              Written(pkts)[n + 1] = Written(pkts)[n] \o Prefixed(pkts[n + 1])
<1> DEFINE L == Len(pkts)
           start == Magic \o U16(L)
           step == [n \in Nat |-> [b \in Seq(Bytes) |->
                      IF n < L THEN b \o Prefixed(pkts[n + 1]) ELSE b]]
           IsBuf(t) == t = [n \in 0..L |-> IF n = 0 THEN start
                                           ELSE t[n - 1] \o Prefixed(pkts[n])]
<1>1. L \in Nat /\ start \in Seq(Bytes)
  <2>1. L \in Nat
    OBVIOUS
  <2>2. U16(L) \in Seq(Bytes)
    BY <2>1, U16Type
  <2> HIDE DEF Bytes, L
  <2> QED  BY <2>1, <2>2, CodecAssumption
<1>2. \A n \in Nat : n < L => Prefixed(pkts[n + 1]) \in Seq(Bytes)
  <2> SUFFICES ASSUME NEW n \in Nat, n < L PROVE Prefixed(pkts[n + 1]) \in Seq(Bytes)
    OBVIOUS
  <2> HIDE DEF Bytes
  <2>1. pkts[n + 1] \in Seq(Bytes)
    OBVIOUS
  <2> QED  BY <2>1, PrefixedType
<1> HIDE DEF L, start, Bytes
<1>3. step \in [Nat -> [Seq(Bytes) -> Seq(Bytes)]]
  <2>1. ASSUME NEW n \in Nat, NEW b \in Seq(Bytes)
        PROVE  (IF n < L THEN b \o Prefixed(pkts[n + 1]) ELSE b) \in Seq(Bytes)
    <3>1. n < L => Prefixed(pkts[n + 1]) \in Seq(Bytes)
      BY <1>2
    <3> QED  BY <3>1
  <2> QED  BY <2>1
<1> HIDE DEF step
<1>4. PICK f \in [Nat -> Seq(Bytes)] : Follows(f, start, step)
  BY <1>1, <1>3, FunctionByTurns
<1>5. f[0] = start
      /\ \A n \in Nat : n < L => f[n + 1] = f[n] \o Prefixed(pkts[n + 1])
  BY <1>4 DEF Follows, step
<1> DEFINE g == [n \in 0..L |-> f[n]]
<1>6. IsBuf(g)
  <2>1. ASSUME NEW n \in 0..L
        PROVE  g[n] = IF n = 0 THEN start ELSE g[n - 1] \o Prefixed(pkts[n])
    <3>1. CASE n = 0
      BY <1>1, <1>5, <3>1
    <3>2. CASE n # 0
      <4>1. n - 1 \in Nat /\ (n - 1) + 1 = n /\ n - 1 < L /\ n - 1 \in 0..L
        BY <1>1, <3>2
      <4>2. f[(n - 1) + 1] = f[n - 1] \o Prefixed(pkts[(n - 1) + 1])
        BY <1>5, <4>1
      <4> QED  BY <3>2, <4>1, <4>2
    <3> QED  BY <3>1, <3>2
  <2> HIDE DEF start
  <2> QED  BY <2>1
<1>7. IsBuf(Written(pkts))
  <2>1. Written(pkts) = CHOOSE t : IsBuf(t)
    BY DEF Written, L, start
  <2> HIDE DEF IsBuf
  <2> QED  BY <1>6, <2>1
<1> DEFINE W == Written(pkts)
<1>8. W = [n \in 0..L |-> IF n = 0 THEN start ELSE W[n - 1] \o Prefixed(pkts[n])]
  BY <1>7
<1> HIDE DEF W, IsBuf
<1>9. /\ W[0] = start
      /\ \A n \in 0..(L - 1) : W[n + 1] = W[n] \o Prefixed(pkts[n + 1])
  <2>1. W[0] = start
    BY <1>1, <1>8
  <2>2. ASSUME NEW n \in 0..(L - 1) PROVE W[n + 1] = W[n] \o Prefixed(pkts[n + 1])
    <3>1. n + 1 \in 0..L /\ n + 1 # 0 /\ (n + 1) - 1 = n
      BY <1>1
    <3>2. W[n + 1] = W[(n + 1) - 1] \o Prefixed(pkts[n + 1])
      BY <1>8, <3>1
    <3> QED  BY <3>1, <3>2
  <2> QED  BY <2>1, <2>2
<1>10. \A n \in 0..L : W[n] \in Seq(Bytes)
  <2> DEFINE S == {n \in Nat : n <= L => W[n] \in Seq(Bytes)}
  <2>1. 0 \in S
    BY <1>1, <1>9
  <2>2. ASSUME NEW n \in Nat, n \in S PROVE n + 1 \in S
    <3> SUFFICES ASSUME n + 1 <= L PROVE W[n + 1] \in Seq(Bytes)
      OBVIOUS
    <3>1. n \in 0..(L - 1) /\ n < L /\ n <= L
      BY <1>1
    <3>2. W[n] \in Seq(Bytes) /\ Prefixed(pkts[n + 1]) \in Seq(Bytes)
      BY <1>2, <2>2, <3>1
    <3>3. W[n + 1] = W[n] \o Prefixed(pkts[n + 1])
      BY <1>9, <3>1
    <3> QED  BY <3>2, <3>3
  <2> HIDE DEF S
  <2>3. \A n \in Nat : n \in S
    BY <2>1, <2>2, Induction
  <2> QED  BY <1>1, <2>3 DEF S
<1>11. W \in [0..L -> Seq(Bytes)]
  BY <1>8, <1>10
<1> QED  BY <1>9, <1>11 DEF W, L, start

(* What is written is never changed: the buffer begins with each of its    *)
(* earlier states.                                                         *)
LEMMA WrittenGrows ==
  ASSUME NEW pkts \in Seq(Seq(Bytes)), NEW m \in 0..Len(pkts), NEW n \in m..Len(pkts)
  PROVE  Begins(Written(pkts)[n], Written(pkts)[m])
<1> DEFINE W == Written(pkts)
           L == Len(pkts)
           S == {d \in Nat : m + d <= L => Begins(W[m + d], W[m])}
<1>1. L \in Nat
  OBVIOUS
<1>2. /\ W \in [0..L -> Seq(Bytes)]
      /\ \A i \in 0..(L - 1) : W[i + 1] = W[i] \o Prefixed(pkts[i + 1])
  BY WrittenDefined
<1>3. \A i \in 0..(L - 1) : Prefixed(pkts[i + 1]) \in Seq(Bytes)
  <2> SUFFICES ASSUME NEW i \in 0..(L - 1) PROVE Prefixed(pkts[i + 1]) \in Seq(Bytes)
    OBVIOUS
  <2> HIDE DEF Bytes
  <2>1. pkts[i + 1] \in Seq(Bytes)
    OBVIOUS
  <2> QED  BY <2>1, PrefixedType
<1> HIDE DEF W, L, Bytes
<1>4. 0 \in S
  <2>1. m \in 0..L /\ m + 0 = m
    BY DEF L
  <2>2. W[m] \in Seq(Bytes)
    BY <1>2, <2>1
  <2> QED  BY <2>1, <2>2 DEF Begins
<1>5. ASSUME NEW d \in Nat, d \in S PROVE d + 1 \in S
  <2> SUFFICES ASSUME m + (d + 1) <= L PROVE Begins(W[m + (d + 1)], W[m])
    OBVIOUS
  <2>1. m + d \in 0..(L - 1) /\ m + d <= L /\ m + (d + 1) = (m + d) + 1
        /\ m \in 0..L /\ m + d \in 0..L /\ m + (d + 1) \in 0..L
    BY <1>1 DEF L
  <2>2. W[m] \in Seq(Bytes) /\ W[m + d] \in Seq(Bytes) /\ W[m + (d + 1)] \in Seq(Bytes)
    BY <1>2, <2>1
  <2>3. Begins(W[m + d], W[m])
    BY <1>5, <2>1
  <2>4. Begins(W[m + (d + 1)], W[m + d])
    <3>1. W[(m + d) + 1] = W[m + d] \o Prefixed(pkts[(m + d) + 1])
          /\ Prefixed(pkts[(m + d) + 1]) \in Seq(Bytes)
      BY <1>2, <1>3, <2>1
    <3> QED  BY <2>1, <2>2, <3>1, BeginsConcat
  <2> QED  BY <2>2, <2>3, <2>4, BeginsTransitive
<1> HIDE DEF S
<1>6. \A d \in Nat : d \in S
  BY <1>4, <1>5, Induction
<1>7. n - m \in Nat /\ m + (n - m) = n /\ n <= L
  BY <1>1 DEF L
<1> QED  BY <1>6, <1>7 DEF S, W

-----------------------------------------------------------------------------
(* What a receiver reads of a batch, all of it or its first bytes.         *)

\* data is what is left of the batch of pkts
CutBatch(pkts, data) ==
  data \in Seq(Bytes) /\ Len(data) >= HDR_LEN /\ Begins(Batch(pkts), data)

(* One packet in the buffer: its length before it, the packet behind.      *)
LEMMA PacketWritten ==
  ASSUME NEW pkts, Batchable(pkts), NEW j \in 0..(Len(pkts) - 1)
  PROVE  LET W == Written(pkts)
             pkt == pkts[j + 1]
         IN  /\ W[j] \in Seq(Bytes) /\ W[j + 1] \in Seq(Bytes) /\ pkt \in Seq(Bytes)
             /\ Len(W[j]) \in Nat /\ Len(pkt) \in Nat
             /\ Len(W[j + 1]) = Len(W[j]) + 2 + Len(pkt)
             /\ ReadU16(W[j + 1], Len(W[j]) + 1) = Len(pkt)
             /\ \A i \in 1..Len(pkt) : W[j + 1][Len(W[j]) + 2 + i] = pkt[i]
<1> DEFINE W == Written(pkts)
           pkt == pkts[j + 1]
           u == U16(Len(pkt))
<1>1. pkts \in Seq(Seq(Bytes)) /\ j + 1 \in 1..Len(pkts)
  BY DEF Batchable
<1>2. pkt \in Seq(Bytes) /\ Len(pkt) \in Nat /\ Len(pkt) <= u16_max
  <2> HIDE DEF Bytes
  <2>1. pkt \in Seq(Bytes)
    BY <1>1
  <2> QED  BY <1>1, <2>1 DEF Batchable
<1>3. W[j] \in Seq(Bytes) /\ W[j + 1] = W[j] \o (u \o pkt)
  <2>1. j \in 0..Len(pkts)
    BY <1>1
  <2> QED  BY <1>1, <2>1, WrittenDefined DEF Prefixed
<1>4. u \in Seq(Bytes) /\ Len(u) = 2 /\ u[1] * Base + u[2] = Len(pkt)
  BY <1>2, U16Type, U16Reads
<1> HIDE DEF W, pkt, u, Bytes
<1>5. /\ u \o pkt \in Seq(Bytes) /\ Len(u \o pkt) = 2 + Len(pkt)
      /\ (u \o pkt)[1] = u[1] /\ (u \o pkt)[2] = u[2]
      /\ \A i \in 1..Len(pkt) : (u \o pkt)[2 + i] = pkt[i]
  <2>1. u \o pkt \in Seq(Bytes) /\ Joins(u \o pkt, u, pkt)
    BY <1>2, <1>4, Concat
  <2>2. Len(u) = 2 /\ 1 \in 1..2 /\ 2 \in 1..2
    BY <1>4
  <2> QED  BY <2>1, <2>2 DEF Joins
<1>6. /\ W[j + 1] \in Seq(Bytes) /\ Len(W[j]) \in Nat
      /\ Len(W[j + 1]) = Len(W[j]) + (2 + Len(pkt))
      /\ \A i \in 1..(2 + Len(pkt)) : W[j + 1][Len(W[j]) + i] = (u \o pkt)[i]
  <2> DEFINE v == u \o pkt
  <2>1. v \in Seq(Bytes) /\ Len(v) = 2 + Len(pkt) /\ W[j] \in Seq(Bytes)
        /\ W[j + 1] = W[j] \o v
    BY <1>3, <1>5
  <2> HIDE DEF v
  <2>2. Len(W[j]) \in Nat /\ W[j + 1] \in Seq(Bytes) /\ Joins(W[j + 1], W[j], v)
    BY <2>1, Concat
  <2>3. /\ Len(W[j + 1]) = Len(W[j]) + (2 + Len(pkt))
        /\ \A i \in 1..(2 + Len(pkt)) : W[j + 1][Len(W[j]) + i] = v[i]
    BY <2>1, <2>2 DEF Joins
  <2> QED  BY <2>2, <2>3 DEF v
<1> DEFINE before == Len(W[j])
           size == Len(pkt)
<1>11. before \in Nat /\ size \in Nat
  BY <1>2, <1>6
<1> HIDE DEF before, size
<1>7. W[j + 1][Len(W[j]) + 1] = u[1] /\ W[j + 1][(Len(W[j]) + 1) + 1] = u[2]
  <2>1. /\ (Len(W[j]) + 1) + 1 = Len(W[j]) + 2
        /\ 1 \in 1..(2 + Len(pkt)) /\ 2 \in 1..(2 + Len(pkt))
    BY <1>2, <1>6
  <2> QED  BY <1>5, <1>6, <2>1
<1>8. ReadU16(W[j + 1], Len(W[j]) + 1) = Len(pkt)
  BY <1>4, <1>7 DEF ReadU16
<1>9. \A i \in 1..Len(pkt) : W[j + 1][Len(W[j]) + 2 + i] = pkt[i]
  <2> SUFFICES ASSUME NEW i \in 1..Len(pkt) PROVE W[j + 1][Len(W[j]) + 2 + i] = pkt[i]
    OBVIOUS
  <2>1. 2 + i \in 1..(2 + Len(pkt)) /\ Len(W[j]) + 2 + i = Len(W[j]) + (2 + i)
    <3>1. i \in 1..size
      BY DEF size
    <3>2. 2 + i \in 1..(2 + size) /\ before + 2 + i = before + (2 + i)
      BY <1>11, <3>1
    <3> QED  BY <3>2 DEF before, size
  <2>2. W[j + 1][Len(W[j]) + (2 + i)] = pkt[i]
    BY <1>5, <1>6, <2>1
  <2> QED  BY <2>1, <2>2
<1>10. Len(W[j + 1]) = Len(W[j]) + 2 + Len(pkt)
  <2>1. before + (2 + size) = before + 2 + size
    BY <1>11
  <2> QED  BY <1>6, <2>1 DEF before, size
<1> QED  BY <1>2, <1>3, <1>6, <1>8, <1>9, <1>10 DEF W, pkt

(* The header says that it is a batch and counts its packets.              *)
LEMMA HeaderWritten ==
  ASSUME NEW pkts, Batchable(pkts)
  PROVE  /\ Written(pkts)[0] \in Seq(Bytes)
         /\ Len(Written(pkts)[0]) = HDR_LEN
         /\ \A i \in 1..3 : Written(pkts)[0][i] = Magic[i]
         /\ ReadU16(Written(pkts)[0], 4) = Len(pkts)
<1> DEFINE u == U16(Len(pkts))
<1>1. pkts \in Seq(Seq(Bytes)) /\ Len(pkts) \in Nat /\ Len(pkts) <= u16_max
  BY DEF Batchable
<1>2. u \in Seq(Bytes) /\ Len(u) = 2 /\ u[1] * Base + u[2] = Len(pkts)
  BY <1>1, U16Type, U16Reads
<1>3. Magic \in Seq(Bytes) /\ Len(Magic) = 3
  BY CodecAssumption
<1>4. Written(pkts)[0] = Magic \o u
  BY <1>1, WrittenDefined
<1> HIDE DEF u, Bytes
<1>5. /\ Magic \o u \in Seq(Bytes) /\ Len(Magic \o u) = 5
      /\ \A i \in 1..3 : (Magic \o u)[i] = Magic[i]
      /\ (Magic \o u)[3 + 1] = u[1] /\ (Magic \o u)[3 + 2] = u[2]
  <2>1. Magic \o u \in Seq(Bytes) /\ Joins(Magic \o u, Magic, u)
    BY <1>2, <1>3, Concat
  <2>2. Len(Magic) = 3 /\ Len(u) = 2 /\ 1 \in 1..2 /\ 2 \in 1..2
    BY <1>2, <1>3
  <2> QED  BY <2>1, <2>2 DEF Joins
<1>6. ReadU16(Magic \o u, 4) = Len(pkts)
  BY <1>2, <1>5 DEF ReadU16
<1> QED  BY <1>4, <1>5, <1>6 DEF HDR_LEN

(* The first bytes of a batch are those of the buffer at any time: those   *)
(* of a header, and of each packet that was not cut off.                   *)
LEMMA CutBeginsWritten ==
  ASSUME NEW pkts, Batchable(pkts), NEW data, CutBatch(pkts, data),
         NEW m \in 0..Len(pkts)
  PROVE  /\ Batch(pkts) \in Seq(Bytes) /\ Written(pkts)[m] \in Seq(Bytes)
         /\ Len(Written(pkts)[m]) <= Len(Batch(pkts))
         /\ Len(data) <= Len(Batch(pkts))
         /\ \A i \in 1..Len(data) :
              i <= Len(Written(pkts)[m]) => data[i] = Written(pkts)[m][i]
<1> DEFINE W == Written(pkts)
           L == Len(pkts)
<1>1. pkts \in Seq(Seq(Bytes)) /\ L \in Nat
  BY DEF Batchable
<1>2. W[m] \in Seq(Bytes) /\ W[L] \in Seq(Bytes) /\ Batch(pkts) = W[L]
  <2>1. W \in [0..L -> Seq(Bytes)]
    BY <1>1, WrittenDefined
  <2>2. m \in 0..L /\ L \in 0..L
    BY <1>1
  <2> HIDE DEF W, L, Bytes
  <2>3. W[m] \in Seq(Bytes) /\ W[L] \in Seq(Bytes)
    BY <2>1, <2>2
  <2> QED  BY <2>3 DEF Batch, W, L
<1>3. Begins(W[L], W[m])
  BY <1>1, WrittenGrows
<1> HIDE DEF W, L, Bytes
<1>4. Begins(W[L], data) /\ data \in Seq(Bytes)
  BY <1>2 DEF CutBatch
<1> QED  BY <1>2, <1>3, <1>4 DEF Begins, W

(* So the receiver takes what is left for a batch, and for one of so many  *)
(* packets.                                                                *)
LEMMA CutHeaderRead ==
  ASSUME NEW pkts, Batchable(pkts), NEW data, CutBatch(pkts, data)
  PROVE  IsBatch(data) /\ ReadU16(data, 4) = Len(pkts)
<1> DEFINE H == Written(pkts)[0]
<1>1. data \in Seq(Bytes) /\ Len(data) >= 5 /\ Len(data) \in Nat
  BY DEF CutBatch, HDR_LEN
<1>2. /\ H \in Seq(Bytes) /\ Len(H) = 5
      /\ \A i \in 1..3 : H[i] = Magic[i]
      /\ ReadU16(H, 4) = Len(pkts)
  BY HeaderWritten DEF HDR_LEN
<1>3. \A i \in 1..Len(data) : i <= Len(H) => data[i] = H[i]
  <2>1. 0 \in 0..Len(pkts)
    BY DEF Batchable
  <2> QED  BY <2>1, CutBeginsWritten
<1> HIDE DEF H
<1>4. \A i \in 1..5 : data[i] = H[i]
  BY <1>1, <1>2, <1>3
<1>5. SubSeq(data, 1, 3) = Magic
  <2>1. \A i \in 1..3 : data[i] = Magic[i]
    BY <1>2, <1>4
  <2>2. Magic \in Seq(Bytes) /\ Len(Magic) = 3
    BY CodecAssumption
  <2> HIDE DEF Bytes
  <2>3. /\ SubSeq(data, 1, 3) \in Seq(Bytes) /\ Len(SubSeq(data, 1, 3)) = 3
        /\ \A i \in 1..3 : SubSeq(data, 1, 3)[i] = data[i]
    BY <1>1
  <2> QED  BY <2>1, <2>2, <2>3
<1>6. ReadU16(data, 4) = Len(pkts)
  BY <1>2, <1>4 DEF ReadU16
<1> QED  BY <1>1, <1>5, <1>6 DEF IsBatch, HDR_LEN

(* After j turns the receiver has a slice for each packet so far that is   *)
(* there, and has left the loop only if one was not.                       *)
Read(pkts, data, j, at) ==
  LET W == Written(pkts)
  IN  /\ Len(at.slices) <= j
      /\ \A k \in 1..Len(at.slices) :
           /\ at.slices[k].from = Len(W[k - 1]) + 3 /\ at.slices[k].to = Len(W[k])
           /\ Len(W[k]) <= Len(data)
      /\ ~ at.left => Len(at.slices) = j /\ at.idx = Len(W[j]) /\ Len(W[j]) <= Len(data)
      /\ Len(data) = Len(Batch(pkts)) => ~ at.left

(* A turn goes on to the next packet.                                      *)
LEMMA TurnReads ==
  ASSUME NEW pkts, Batchable(pkts), NEW data, CutBatch(pkts, data),
         NEW j \in 0..(Len(pkts) - 1), NEW at \in LoopState, Read(pkts, data, j, at)
  PROVE  Read(pkts, data, j + 1, Turn(data, at))
<1> DEFINE W == Written(pkts)
           size == Len(pkts[j + 1])
           before == Len(W[j])
           after == Len(W[j + 1])
           D == Len(data)
           len == ReadU16(data, at.idx + 1)
           next == Turn(data, at)
<1>1. /\ before \in Nat /\ size \in Nat /\ after = before + 2 + size /\ j \in Nat
      /\ ReadU16(W[j + 1], before + 1) = size
  <2>1. j \in Nat
    BY DEF Batchable
  <2> QED  BY <2>1, PacketWritten
<1>2. /\ D \in Nat /\ D <= Len(Batch(pkts)) /\ after <= Len(Batch(pkts))
      /\ \A i \in 1..D : i <= after => data[i] = W[j + 1][i]
      /\ data \in Seq(Bytes) /\ Batch(pkts) \in Seq(Bytes)
  <2>1. j + 1 \in 0..Len(pkts)
    BY DEF Batchable
  <2>2. data \in Seq(Bytes)
    BY DEF CutBatch
  <2>3. D \in Nat
    BY <2>2
  <2>4. /\ Batch(pkts) \in Seq(Bytes) /\ D <= Len(Batch(pkts)) /\ after <= Len(Batch(pkts))
        /\ \A i \in 1..Len(data) :
             i <= Len(Written(pkts)[j + 1]) => data[i] = Written(pkts)[j + 1][i]
    <3> HIDE DEF Bytes
    <3> QED  BY <2>1, CutBeginsWritten
  <2> QED  BY <2>2, <2>3, <2>4
<1>3. at.slices \in Seq(Range16) /\ at.idx \in Nat /\ at.left \in BOOLEAN
  BY DEF LoopState
<1>4. CASE at.left
  <2>1. next.slices = at.slices /\ next.left
    BY <1>2, <1>4, TurnTakes
  <2>2. Len(at.slices) <= j + 1
    BY <1>1, <1>3 DEF Read
  <2> QED  BY <1>4, <2>1, <2>2 DEF Read
<1>5. CASE ~ at.left
  <2>1. Len(at.slices) = j /\ at.idx = before /\ before <= D
    BY <1>5 DEF Read
  <2>2. ASSUME before + 2 <= D PROVE len = size
    <3>1. before + 1 \in 1..D /\ (before + 1) + 1 \in 1..D
          /\ before + 1 <= after /\ (before + 1) + 1 <= after
      <4> HIDE DEF before, after, size, D
      <4> QED  BY <1>1, <1>2, <2>2
    <3>2. data[before + 1] = W[j + 1][before + 1]
          /\ data[(before + 1) + 1] = W[j + 1][(before + 1) + 1]
      BY <1>2, <3>1
    <3> QED  BY <1>1, <2>1, <3>2 DEF ReadU16
  <2>3. CASE after <= D
    <3>1. before + 2 <= D /\ before + 2 + size <= D
      <4> HIDE DEF before, after, size, D
      <4> QED  BY <1>1, <1>2, <2>3
    <3>2. len = size
      BY <2>2, <3>1
    <3>3. /\ next.idx = after /\ ~ next.left
          /\ next.slices = Append(at.slices, [from |-> before + 3, to |-> after])
      <4> HIDE DEF before, after, size, D, len, next, W
      <4>1. at.idx + 2 <= D /\ at.idx + 2 + len <= D
        BY <2>1, <3>1, <3>2
      <4> QED  BY <1>1, <1>2, <1>5, <2>1, <3>2, <4>1, TurnTakes DEF len, next, D
    <3> HIDE DEF before, after, size, D, len, next
    <3>4. /\ Len(next.slices) = j + 1 /\ next.slices[j + 1] = [from |-> before + 3, to |-> after]
          /\ \A k \in 1..j : next.slices[k] = at.slices[k]
      <4>1. [from |-> before + 3, to |-> after] \in Range16
        BY <1>1 DEF Range16
      <4> HIDE DEF Range16
      <4> QED  BY <1>1, <1>3, <2>1, <3>3, <4>1
    <3>5. ASSUME NEW k \in 1..(j + 1)
          PROVE  /\ next.slices[k].from = Len(W[k - 1]) + 3 /\ next.slices[k].to = Len(W[k])
                 /\ Len(W[k]) <= Len(data)
      <4>1. CASE k \in 1..j
        <5>1. next.slices[k] = at.slices[k] /\ k \in 1..Len(at.slices)
          BY <2>1, <3>4, <4>1
        <5> QED  BY <5>1 DEF Read
      <4>2. CASE k = j + 1
        <5>1. k - 1 = j
          BY <1>1, <4>2
        <5> QED  BY <2>3, <3>4, <4>2, <5>1 DEF before, after, D
      <4> QED  BY <1>1, <4>1, <4>2
    <3>6. Len(next.slices) <= j + 1
      BY <1>1, <3>4
    <3> QED  BY <2>3, <3>3, <3>4, <3>5, <3>6 DEF Read, next, after, D
  <2>4. CASE ~ after <= D
    <3>1. ~ (at.idx + 2 <= D /\ at.idx + 2 + len <= D)
      <4>1. CASE at.idx + 2 <= D
        <5>1. len = size
          BY <2>1, <2>2, <4>1
        <5> HIDE DEF before, after, size, D, len
        <5> QED  BY <1>1, <1>2, <2>1, <2>4, <5>1
      <4>2. CASE ~ at.idx + 2 <= D
        BY <4>2
      <4> QED  BY <4>1, <4>2
    <3>2. next.slices = at.slices /\ next.left
      BY <1>2, <3>1, TurnTakes
    <3>3. D # Len(Batch(pkts))
      BY <1>2, <2>4
    <3>4. Len(at.slices) <= j + 1
      BY <1>1, <2>1
    <3> HIDE DEF next
    <3> QED  BY <3>2, <3>3, <3>4 DEF Read, D, next
  <2> QED  BY <2>3, <2>4
<1> QED  BY <1>3, <1>4, <1>5

(* So do all of its turns.                                                 *)
LEMMA LoopReads ==
  ASSUME NEW pkts, Batchable(pkts), NEW data, CutBatch(pkts, data)
  PROVE  /\ Turns(data)[Len(pkts)] \in LoopState
         /\ Read(pkts, data, Len(pkts), Turns(data)[Len(pkts)])
<1> DEFINE T == Turns(data)
           L == Len(pkts)
           S == {j \in Nat : j <= L => Read(pkts, data, j, T[j])}
<1>1. L \in Nat /\ data \in Seq(Bytes)
  BY DEF Batchable, CutBatch
<1>2. /\ T \in [Nat -> LoopState] /\ T[0] = LoopStart
      /\ \A n \in Nat : T[n + 1] = Turn(data, T[n])
  BY <1>1, TurnsDefined
<1> HIDE DEF T
<1>3. 0 \in S
  <2>1. Len(Written(pkts)[0]) = HDR_LEN
    BY HeaderWritten
  <2>2. Len(data) >= HDR_LEN /\ Len(data) \in Nat
    BY <1>1 DEF CutBatch
  <2>3. Read(pkts, data, 0, LoopStart)
    BY <2>1, <2>2 DEF Read, LoopStart, HDR_LEN
  <2> QED  BY <1>2, <2>3
<1>4. ASSUME NEW j \in Nat, j \in S PROVE j + 1 \in S
  <2> SUFFICES ASSUME j + 1 <= L PROVE Read(pkts, data, j + 1, T[j + 1])
    OBVIOUS
  <2>1. j \in 0..(L - 1) /\ j <= L
    BY <1>1
  <2>2. Read(pkts, data, j, T[j]) /\ T[j] \in LoopState /\ T[j + 1] = Turn(data, T[j])
    BY <1>2, <1>4, <2>1
  <2> QED  BY <2>1, <2>2, TurnReads
<1> HIDE DEF S, L
<1>5. \A j \in Nat : j \in S
  BY <1>3, <1>4, Induction
<1>6. L <= L
  BY <1>1
<1> QED  BY <1>1, <1>2, <1>5, <1>6 DEF S, T, L

(* A batch is a string of bytes.                                           *)
LEMMA BatchType ==
  ASSUME NEW pkts, Batchable(pkts)
  PROVE  Batch(pkts) \in Seq(Bytes)
<1> DEFINE W == Written(pkts)
           L == Len(pkts)
<1>1. pkts \in Seq(Seq(Bytes)) /\ L \in 0..L
  BY DEF Batchable
<1>2. W \in [0..L -> Seq(Bytes)]
  BY <1>1, WrittenDefined
<1> HIDE DEF W, L, Bytes
<1>3. W[L] \in Seq(Bytes)
  BY <1>1, <1>2
<1> QED  BY <1>3 DEF Batch, W, L

(* A slice holds the packet that was written there.                        *)
LEMMA SliceIsPacket ==
  ASSUME NEW pkts, Batchable(pkts), NEW data, CutBatch(pkts, data),
         NEW k \in 1..Len(pkts), Len(Written(pkts)[k]) <= Len(data)
  PROVE  SubSeq(data, Len(Written(pkts)[k - 1]) + 3, Len(Written(pkts)[k])) = pkts[k]
<1> DEFINE W == Written(pkts)
           before == Len(W[k - 1])
           after == Len(W[k])
           pkt == pkts[k]
           size == Len(pkt)
<1>1. k - 1 \in 0..(Len(pkts) - 1) /\ (k - 1) + 1 = k /\ k \in 0..Len(pkts)
  BY DEF Batchable
<1>2. /\ before \in Nat /\ size \in Nat /\ after = before + 2 + size
      /\ pkt \in Seq(Bytes)
      /\ \A i \in 1..size : W[k][before + 2 + i] = pkt[i]
  <2> DEFINE j == k - 1
  <2>1. j \in 0..(Len(pkts) - 1)
    BY <1>1
  <2> HIDE DEF Bytes, j
  <2>2. LET V == Written(pkts)
            p == pkts[j + 1]
        IN  /\ p \in Seq(Bytes) /\ Len(V[j]) \in Nat /\ Len(p) \in Nat
            /\ Len(V[j + 1]) = Len(V[j]) + 2 + Len(p)
            /\ \A i \in 1..Len(p) : V[j + 1][Len(V[j]) + 2 + i] = p[i]
    BY <2>1, PacketWritten
  <2>3. j + 1 = k
    BY <1>1 DEF j
  <2> QED  BY <2>2, <2>3 DEF j
<1>3. \A i \in 1..Len(data) : i <= Len(Written(pkts)[k]) => data[i] = Written(pkts)[k][i]
  <2> HIDE DEF Bytes
  <2> QED  BY <1>1, CutBeginsWritten
<1>4. data \in Seq(Bytes) /\ Len(data) \in Nat /\ after <= Len(data)
  BY DEF CutBatch
<1> HIDE DEF W, before, after, pkt, size, Bytes
<1>5. \A i \in 1..size : data[before + 2 + i] = pkt[i]
  <2> SUFFICES ASSUME NEW i \in 1..size PROVE data[before + 2 + i] = pkt[i]
    OBVIOUS
  <2>1. before + 2 + i \in 1..Len(data) /\ before + 2 + i <= after
    BY <1>2, <1>4
  <2>2. data[before + 2 + i] = W[k][before + 2 + i]
    BY <1>3, <2>1 DEF W, after
  <2> QED  BY <1>2, <2>2
<1>6. /\ SubSeq(data, before + 3, after) \in Seq(Bytes)
      /\ Len(SubSeq(data, before + 3, after)) = size
      /\ \A i \in 1..size : SubSeq(data, before + 3, after)[i] = data[before + 2 + i]
  <2> DEFINE a == before + 3
  <2>1. /\ a \in Nat /\ a >= 1 /\ after \in Nat /\ after <= Len(data)
        /\ a <= after + 1 /\ (after - a) + 1 = size
    BY <1>2, <1>4
  <2>2. \A i \in 1..size : (a + i) - 1 = before + 2 + i
    BY <1>2
  <2> HIDE DEF a
  <2>3. /\ SubSeq(data, a, after) \in Seq(Bytes)
        /\ Len(SubSeq(data, a, after)) = size
        /\ \A i \in 1..size : SubSeq(data, a, after)[i] = data[(a + i) - 1]
    BY <1>2, <1>4, <2>1
  <2> QED  BY <2>2, <2>3 DEF a
<1>7. SubSeq(data, before + 3, after) = pkt
  <2> DEFINE s == SubSeq(data, before + 3, after)
  <2>1. s \in Seq(Bytes) /\ pkt \in Seq(Bytes) /\ Len(s) = Len(pkt)
        /\ \A i \in 1..Len(pkt) : s[i] = pkt[i]
    BY <1>2, <1>5, <1>6 DEF size
  <2> HIDE DEF s
  <2>2. s = pkt
    BY <2>1
  <2> QED  BY <2>2 DEF s
<1> QED  BY <1>7 DEF W, before, after, pkt

(* What a receiver makes of the first bytes of a batch: some of its first  *)
(* packets, each of them whole; and of all the bytes, all of them.         *)
LEMMA CutDelivers ==
  ASSUME NEW pkts, Batchable(pkts), NEW data, CutBatch(pkts, data)
  PROVE  /\ Slices(data) \in Seq(Range16)
         /\ Len(Slices(data)) <= Len(pkts)
         /\ Len(data) = Len(Batch(pkts)) => Len(Slices(data)) = Len(pkts)
         /\ \A k \in 1..Len(Slices(data)) :
              Slices(data)[k].to <= Len(data) /\ Delivered(data)[k] = pkts[k]
<1> DEFINE at == Turns(data)[Len(pkts)]
<1>1. at \in LoopState /\ Read(pkts, data, Len(pkts), at)
  BY LoopReads
<1>2. Slices(data) = at.slices
  BY CutHeaderRead DEF Slices, Unpack
<1> HIDE DEF at
<1>3. at.slices \in Seq(Range16) /\ Len(at.slices) \in Nat /\ Len(pkts) \in Nat
  BY <1>1 DEF LoopState, Batchable
<1>4. ASSUME NEW k \in 1..Len(at.slices)
      PROVE  at.slices[k].to <= Len(data)
             /\ SubSeq(data, at.slices[k].from, at.slices[k].to) = pkts[k]
  <2>1. k \in 1..Len(pkts)
    BY <1>1, <1>3 DEF Read
  <2>2. /\ at.slices[k].from = Len(Written(pkts)[k - 1]) + 3
        /\ at.slices[k].to = Len(Written(pkts)[k])
        /\ Len(Written(pkts)[k]) <= Len(data)
    BY <1>1 DEF Read
  <2> QED  BY <2>1, <2>2, SliceIsPacket
<1>5. \A k \in 1..Len(Slices(data)) :
        Delivered(data)[k] = SubSeq(data, at.slices[k].from, at.slices[k].to)
  BY <1>2 DEF Delivered
<1> QED  BY <1>1, <1>2, <1>3, <1>4, <1>5 DEF Read

(* The first n bytes of a batch.                                           *)
LEMMA CutOf ==
  ASSUME NEW pkts, Batchable(pkts), NEW n \in HDR_LEN..Len(Batch(pkts))
  PROVE  /\ CutBatch(pkts, SubSeq(Batch(pkts), 1, n))
         /\ Len(SubSeq(Batch(pkts), 1, n)) = n
<1>1. Batch(pkts) \in Seq(Bytes)
  BY BatchType
<1> HIDE DEF Bytes
<1>2. n \in Nat /\ n <= Len(Batch(pkts)) /\ Len(Batch(pkts)) \in Nat /\ n >= HDR_LEN
  BY <1>1 DEF HDR_LEN
<1>3. /\ SubSeq(Batch(pkts), 1, n) \in Seq(Bytes)
      /\ Len(SubSeq(Batch(pkts), 1, n)) = n
      /\ \A i \in 1..n : SubSeq(Batch(pkts), 1, n)[i] = Batch(pkts)[i]
  BY <1>1, <1>2
<1> QED  BY <1>2, <1>3 DEF CutBatch, Begins

(* A batch that loses its end, wherever, gives the first of its packets,   *)
(* whole, and nothing else (p2p.rs 384 to 399).                            *)
THEOREM CutBatchRead ==
  ASSUME NEW pkts, Batchable(pkts)
  PROVE  CutGivesPrefix(pkts)
<1> SUFFICES ASSUME NEW n \in HDR_LEN..Len(Batch(pkts))
             PROVE  LET cut == SubSeq(Batch(pkts), 1, n)
                    IN  /\ Len(Slices(cut)) <= Len(pkts)
                        /\ \A k \in DOMAIN Slices(cut) :
                             Slices(cut)[k].to <= n /\ Delivered(cut)[k] = pkts[k]
  BY DEF CutGivesPrefix
<1> DEFINE cut == SubSeq(Batch(pkts), 1, n)
<1>1. CutBatch(pkts, cut) /\ Len(cut) = n
  BY CutOf
<1> HIDE DEF cut
<1>2. DOMAIN Slices(cut) = 1..Len(Slices(cut))
  BY <1>1, CutDelivers
<1>3. Len(Slices(cut)) <= Len(pkts)
  BY <1>1, CutDelivers
<1>4. \A k \in 1..Len(Slices(cut)) :
        Slices(cut)[k].to <= Len(cut) /\ Delivered(cut)[k] = pkts[k]
  BY <1>1, CutDelivers
<1> QED  BY <1>1, <1>2, <1>3, <1>4 DEF cut

(* A batch gives the packets that were added, in order (p2p.rs 277 to 327  *)
(* against 384 to 399): however many of whatever lengths, up to what the   *)
(* two u16 can say.                                                        *)
THEOREM BatchRead ==
  ASSUME NEW pkts, Batchable(pkts)
  PROVE  ReadsAsWritten(pkts)
<1> DEFINE data == Batch(pkts)
<1>1. CutBatch(pkts, data)
  <2>1. data \in Seq(Bytes) /\ Len(data) >= HDR_LEN
    <3>1. 0 \in 0..Len(pkts)
      BY DEF Batchable
    <3>2. data \in Seq(Bytes)
      BY BatchType
    <3>3. Len(Written(pkts)[0]) = HDR_LEN
      BY HeaderWritten
    <3>4. Begins(data, Written(pkts)[0])
      BY <3>1, WrittenGrows DEF Batch, Batchable
    <3>5. Len(data) \in Nat
      BY <3>2
    <3> QED  BY <3>2, <3>3, <3>4, <3>5 DEF Begins, HDR_LEN
  <2>2. Begins(data, data)
    BY <2>1 DEF Begins
  <2> QED  BY <2>1, <2>2 DEF CutBatch
<1> HIDE DEF data
<1>2. Len(Slices(data)) = Len(pkts)
  BY <1>1, CutDelivers DEF data
<1>3. \A k \in 1..Len(Slices(data)) :
        Slices(data)[k].to <= Len(data) /\ Delivered(data)[k] = pkts[k]
  BY <1>1, CutDelivers
<1>4. Delivered(data) = [k \in 1..Len(pkts) |-> pkts[k]]
  <2>1. Delivered(data) = [k \in 1..Len(pkts) |-> Delivered(data)[k]]
    BY <1>2 DEF Delivered
  <2> HIDE DEF Delivered
  <2> QED  BY <1>2, <1>3, <2>1
<1>5. pkts = [k \in 1..Len(pkts) |-> pkts[k]]
  BY DEF Batchable
<1> QED  BY <1>4, <1>5 DEF ReadsAsWritten, data


-----------------------------------------------------------------------------
(* The frame of a request.                                                 *)

(* There is one way to divide with a remainder.                            *)
LEMMA QuotientUnique ==
  ASSUME NEW p \in Nat, NEW q \in Nat, NEW b \in Nat, NEW r \in 0..(b - 1),
         NEW s \in 0..(b - 1), p * b + r = q * b + s
  PROVE  p = q
<1>1. ASSUME NEW x \in Nat, NEW y \in Nat, NEW u \in 0..(b - 1), NEW v \in 0..(b - 1),
             x * b + u = y * b + v, x < y
      PROVE  FALSE
  <2>1. (x + 1) * b <= y * b
    <3>1. x + 1 <= y
      BY <1>1
    <3>2. y = (x + 1) + (y - (x + 1)) /\ y - (x + 1) \in Nat
      BY <3>1
    <3> DEFINE d == y - (x + 1)
    <3>3. d \in Nat /\ y = (x + 1) + d
      BY <3>2
    <3> HIDE DEF d
    <3>4. ((x + 1) + d) * b = (x + 1) * b + d * b /\ d * b >= 0
      BY <3>3
    <3>5. (x + 1) * b \in Nat /\ d * b \in Nat
      BY <3>3
    <3> QED  BY <3>3, <3>4, <3>5
  <2>2. (x + 1) * b = x * b + b
    OBVIOUS
  <2>3. x * b \in Nat /\ y * b \in Nat
    OBVIOUS
  <2> DEFINE xb == x * b
             yb == y * b
  <2>4. xb \in Nat /\ yb \in Nat /\ xb + b <= yb /\ xb + u = yb + v
    BY <1>1, <2>1, <2>2, <2>3
  <2> HIDE DEF xb, yb
  <2> QED  BY <2>4
<1>2. ~ (p < q) /\ ~ (q < p)
  BY <1>1
<1> QED  BY <1>2

(* put_u32 writes four bytes, and they are read as the number.             *)
LEMMA U32Reads ==
  ASSUME NEW n \in Nat, n <= u32_max
  PROVE  /\ U32(n) \in Seq(Bytes) /\ Len(U32(n)) = 4
         /\ ReadU32(U32(n)) = n
<1> DEFINE BB == Base * Base
           hi == n \div BB
           lo == n % BB
           q == n \div Base
           r == n % Base
           q2 == q \div Base
           r2 == q % Base
<1>1. Base \in Nat /\ Base > 0 /\ BB \in Nat /\ BB > 0
  BY CodecAssumption
<1>2. /\ hi \in Nat /\ lo \in 0..(BB - 1) /\ n = hi * BB + lo
      /\ q \in Nat /\ r \in 0..(Base - 1) /\ n = q * Base + r
      /\ q2 \in Nat /\ r2 \in 0..(Base - 1) /\ q = q2 * Base + r2
  <2> HIDE DEF BB
  <2>1. hi \in Nat /\ lo \in 0..(BB - 1) /\ n = hi * BB + lo
    BY <1>1, Division
  <2>2. q \in Nat /\ r \in 0..(Base - 1) /\ n = q * Base + r
    BY <1>1, Division
  <2> HIDE DEF q
  <2>3. q2 \in Nat /\ r2 \in 0..(Base - 1) /\ q = q2 * Base + r2
    BY <1>1, <2>2, Division
  <2> QED  BY <2>1, <2>2, <2>3
<1>3. U16(n) = <<r2, r>>
  BY DEF U16
<1> HIDE DEF hi, lo, q, r, q2, r2
<1>4. n = q2 * BB + (r2 * Base + r)
  <2>1. (q2 * Base + r2) * Base = (q2 * Base) * Base + r2 * Base
    BY <1>1, <1>2
  <2>2. (q2 * Base) * Base = q2 * (Base * Base)
    BY <1>1, <1>2
  <2>3. n = (q2 * (Base * Base) + r2 * Base) + r
    BY <1>2, <2>1, <2>2
  <2>4. q2 * (Base * Base) \in Nat /\ r2 * Base \in Nat /\ r \in Nat
    BY <1>1, <1>2
  <2> QED  BY <2>3, <2>4
<1>5. r2 * Base + r \in 0..(BB - 1)
  <2>1. r2 + 1 <= Base /\ r2 \in Nat /\ r \in Nat /\ r < Base
    BY <1>1, <1>2
  <2>2. (r2 + 1) * Base <= Base * Base
    <3> DEFINE d == Base - (r2 + 1)
    <3>1. d \in Nat /\ Base = (r2 + 1) + d
      BY <1>1, <2>1
    <3> HIDE DEF d
    <3>2. ((r2 + 1) + d) * Base = (r2 + 1) * Base + d * Base /\ d * Base \in Nat
          /\ (r2 + 1) * Base \in Nat
      BY <1>1, <2>1, <3>1
    <3> QED  BY <3>1, <3>2
  <2>3. (r2 + 1) * Base = r2 * Base + Base
    BY <1>1, <2>1
  <2> DEFINE rb == r2 * Base
  <2>4. rb \in Nat /\ rb + Base <= BB
    BY <1>1, <2>1, <2>2, <2>3
  <2> HIDE DEF rb, BB
  <2>5. rb + r \in 0..(BB - 1)
    BY <1>1, <2>1, <2>4
  <2> QED  BY <2>5 DEF rb
<1>6. hi = q2
  <2> DEFINE s == r2 * Base + r
  <2>1. s \in 0..(BB - 1) /\ hi * BB + lo = q2 * BB + s
    BY <1>2, <1>4, <1>5
  <2> HIDE DEF s, BB
  <2> QED  BY <1>1, <1>2, <2>1, QuotientUnique
<1>7. lo = r2 * Base + r
  <2> DEFINE s == r2 * Base + r
             h == hi * BB
  <2>1. s \in Nat /\ lo \in Nat /\ h + lo = h + s
    BY <1>2, <1>4, <1>5, <1>6
  <2>2. h \in Nat
    BY <1>1, <1>2
  <2> HIDE DEF s, h, BB
  <2>3. lo = s
    BY <2>1, <2>2
  <2> QED  BY <2>3 DEF s
<1>8. hi <= u16_max
  <2>1. u32_max + 1 = BB * BB /\ BB * BB \in Nat
    <3>1. Base * Base * Base * Base = (Base * Base) * (Base * Base)
      BY <1>1
    <3>2. (Base * Base) * (Base * Base) \in Nat
      BY <1>1
    <3> QED  BY <3>1, <3>2 DEF u32_max
  <2>2. n < BB * BB
    <3> DEFINE four == BB * BB
    <3>1. four \in Nat /\ u32_max = four - 1
      <4>1. u32_max \in Int
        <5>1. Base * Base * Base * Base \in Nat
          BY <1>1
        <5> QED  BY <5>1 DEF u32_max
      <4> QED  BY <2>1, <4>1
    <3> HIDE DEF four, BB
    <3>2. n < four
      BY <3>1
    <3> QED  BY <3>2 DEF four
  <2>3. n \div BB < BB
    <3> HIDE DEF BB
    <3> QED  BY <1>1, <2>2, QuotientBound
  <2>4. hi < Base * Base
    BY <2>3 DEF hi
  <2> QED  BY <1>1, <1>2, <2>4 DEF u16_max
<1> DEFINE u == U16(hi)
           v == U16(n)
<1>9. /\ u \in Seq(Bytes) /\ Len(u) = 2 /\ u[1] * Base + u[2] = hi
      /\ v \in Seq(Bytes) /\ Len(v) = 2 /\ v[1] * Base + v[2] = lo
  <2>1. v[1] = r2 /\ v[2] = r
    BY <1>3
  <2> QED  BY <1>2, <1>7, <1>8, <2>1, U16Type, U16Reads
<1>10. U32(n) = u \o v
  BY DEF U32, hi
<1> HIDE DEF u, v, Bytes, BB
<1>11. u \o v \in Seq(Bytes) /\ Joins(u \o v, u, v)
  BY <1>9, Concat
<1>12. /\ Len(u \o v) = 4 /\ (u \o v)[1] = u[1] /\ (u \o v)[2] = u[2]
       /\ (u \o v)[3] = v[1] /\ (u \o v)[4] = v[2]
  <2>1. 1 \in 1..2 /\ 2 \in 1..2 /\ 2 + 1 = 3 /\ 2 + 2 = 4
    OBVIOUS
  <2>2. (u \o v)[2 + 1] = v[1] /\ (u \o v)[2 + 2] = v[2] /\ Len(u \o v) = 2 + 2
        /\ (u \o v)[1] = u[1] /\ (u \o v)[2] = u[2]
    BY <1>9, <1>11, <2>1 DEF Joins
  <2> QED  BY <2>1, <2>2
<1>13. ReadU32(u \o v) = hi * BB + lo
  BY <1>9, <1>12 DEF ReadU32, ReadU16, BB
<1> QED  BY <1>2, <1>10, <1>11, <1>12, <1>13

(* A request is read whole, or, wherever the stream ends too early, not    *)
(* at all: read_exact of its length and of so many bytes (p2p.rs 47 to 65).  *)
THEOREM RequestRead ==
  ASSUME NEW req \in Seq(Bytes)
  PROVE  WholeOrNot(req)
<1> DEFINE io == write_request(req)
           size == Len(req)
           pre == U32(size)
<1> SUFFICES ASSUME Len(req) <= u32_max, NEW n \in 0..Len(io)
             PROVE  read_request(SubSeq(io, 1, n)) = (IF n = Len(io) THEN {req} ELSE {})
  BY DEF WholeOrNot
<1>1. size \in Nat /\ size <= u32_max
  OBVIOUS
<1>2. pre \in Seq(Bytes) /\ Len(pre) = 4 /\ ReadU32(pre) = size
  BY <1>1, U32Reads
<1>3. io = pre \o req
  BY DEF write_request
<1> HIDE DEF io, size, pre, Bytes
<1>4. io \in Seq(Bytes) /\ Joins(io, pre, req)
  BY <1>2, <1>3, Concat
<1>5. /\ Len(io) = 4 + size
      /\ \A i \in 1..4 : io[i] = pre[i]
      /\ \A i \in 1..size : io[4 + i] = req[i]
  BY <1>2, <1>4 DEF Joins, size
<1> DEFINE cut == SubSeq(io, 1, n)
<1>6. n \in Nat /\ n <= 4 + size
  BY <1>1, <1>5
<1>7. cut \in Seq(Bytes) /\ Len(cut) = n /\ \A i \in 1..n : cut[i] = io[i]
  BY <1>4, <1>5, <1>6
<1> HIDE DEF cut
<1>8. CASE n < 4
  <2>1. n # Len(io)
    BY <1>1, <1>5, <1>8
  <2> QED  BY <1>7, <1>8, <2>1 DEF read_request, cut
<1>9. CASE n >= 4
  <2>1. \A i \in 1..4 : cut[i] = pre[i]
    BY <1>5, <1>6, <1>7, <1>9
  <2>2. ReadU32(cut) = size
    BY <1>2, <2>1 DEF ReadU32, ReadU16
  <2>3. CASE n = Len(io)
    <3>1. n = 4 + size
      BY <1>5, <2>3
    <3>2. read_request(cut) = {SubSeq(cut, 5, 4 + size)}
      BY <1>1, <1>7, <2>2, <3>1 DEF read_request
    <3>3. SubSeq(cut, 5, 4 + size) \in Seq(Bytes) /\ Len(SubSeq(cut, 5, 4 + size)) = size
          /\ \A i \in 1..size : SubSeq(cut, 5, 4 + size)[i] = cut[4 + i]
      <4>1. (4 + size) - 5 + 1 = size /\ \A i \in 1..size : 5 + i - 1 = 4 + i
        BY <1>1
      <4> QED  BY <1>1, <1>7, <3>1, <4>1
    <3>4. \A i \in 1..size : cut[4 + i] = req[i]
      BY <1>1, <1>5, <1>7, <3>1
    <3> DEFINE s == SubSeq(cut, 5, 4 + size)
    <3>5. s \in Seq(Bytes) /\ Len(s) = Len(req) /\ \A i \in 1..Len(req) : s[i] = req[i]
      BY <3>3, <3>4 DEF size
    <3> HIDE DEF s
    <3>6. s = req
      BY <3>5
    <3> QED  BY <2>3, <3>2, <3>6 DEF s, cut
  <2>4. CASE n # Len(io)
    <3>1. n < 4 + size
      BY <1>1, <1>5, <1>6, <2>4
    <3>2. read_request(cut) = {}
      BY <1>7, <2>2, <3>1 DEF read_request
    <3> QED  BY <2>4, <3>2 DEF cut
  <2> QED  BY <2>3, <2>4
<1> QED  BY <1>6, <1>8, <1>9

-----------------------------------------------------------------------------
(* The address on the virtual network.                                     *)

(* The powers of two are what their recursive definition says.             *)
LEMMA TwoToDefined ==
  /\ TwoTo \in [Nat -> Nat] /\ TwoTo[0] = 1
  /\ \A n \in Nat : TwoTo[n + 1] = 2 * TwoTo[n]
<1> DEFINE step == [n \in Nat |-> [p \in Nat |-> 2 * p]]
           IsPower(t) == t = [n \in Nat |-> IF n = 0 THEN 1 ELSE 2 * t[n - 1]]
<1>1. step \in [Nat -> [Nat -> Nat]]
  OBVIOUS
<1> HIDE DEF step
<1>2. PICK f \in [Nat -> Nat] : Follows(f, 1, step)
  BY <1>1, FunctionByTurns
<1>3. f[0] = 1 /\ \A n \in Nat : f[n + 1] = 2 * f[n]
  BY <1>2 DEF Follows, step
<1>4. IsPower(f)
  <2>1. ASSUME NEW n \in Nat
        PROVE  f[n] = IF n = 0 THEN 1 ELSE 2 * f[n - 1]
    <3>1. CASE n = 0
      BY <1>3, <3>1
    <3>2. CASE n # 0
      <4>1. n - 1 \in Nat /\ (n - 1) + 1 = n
        BY <3>2
      <4>2. f[(n - 1) + 1] = 2 * f[n - 1]
        BY <1>3, <4>1
      <4> QED  BY <3>2, <4>1, <4>2
    <3> QED  BY <3>1, <3>2
  <2> QED  BY <1>2, <2>1
<1>5. IsPower(TwoTo)
  <2>1. TwoTo = CHOOSE t : IsPower(t)
    BY DEF TwoTo
  <2> HIDE DEF IsPower
  <2> QED  BY <1>4, <2>1
<1> DEFINE T == TwoTo
<1>6. T = [n \in Nat |-> IF n = 0 THEN 1 ELSE 2 * T[n - 1]]
  BY <1>5
<1> HIDE DEF T, IsPower
<1>7. T[0] = 1 /\ \A n \in Nat : T[n + 1] = 2 * T[n]
  <2>1. T[0] = 1
    BY <1>6
  <2>2. ASSUME NEW n \in Nat PROVE T[n + 1] = 2 * T[n]
    <3>1. n + 1 \in Nat /\ n + 1 # 0 /\ (n + 1) - 1 = n
      OBVIOUS
    <3>2. T[n + 1] = 2 * T[(n + 1) - 1]
      BY <1>6, <3>1
    <3> QED  BY <3>1, <3>2
  <2> QED  BY <2>1, <2>2
<1>8. \A n \in Nat : T[n] \in Nat
  <2> DEFINE S == {n \in Nat : T[n] \in Nat}
  <2>1. 0 \in S
    BY <1>7
  <2>2. ASSUME NEW n \in Nat, n \in S PROVE n + 1 \in S
    <3>1. T[n] \in Nat /\ T[n + 1] = 2 * T[n]
      BY <1>7, <2>2
    <3> QED  BY <3>1
  <2> HIDE DEF S
  <2>3. \A n \in Nat : n \in S
    BY <2>1, <2>2, Induction
  <2> QED  BY <2>3 DEF S
<1>9. T \in [Nat -> Nat]
  BY <1>6, <1>8
<1> QED  BY <1>7, <1>9 DEF T

(* A prefix leaves 2^(AddrBits - prefix) addresses, and there are 2^prefix *)
(* such networks.                                                          *)
LEMMA TwoToSum ==
  ASSUME NEW m \in Nat, NEW n \in Nat
  PROVE  /\ TwoTo[m + n] = TwoTo[m] * TwoTo[n]
         /\ TwoTo[m] \in Nat /\ TwoTo[n] \in Nat /\ TwoTo[n] >= 1
         /\ n >= 2 => TwoTo[n] >= 4
<1>1. /\ TwoTo \in [Nat -> Nat] /\ TwoTo[0] = 1
      /\ \A k \in Nat : TwoTo[k + 1] = 2 * TwoTo[k]
  BY TwoToDefined
<1> DEFINE S == {k \in Nat : /\ TwoTo[m + k] = TwoTo[m] * TwoTo[k]
                             /\ TwoTo[k] >= 1
                             /\ k >= 1 => TwoTo[k] >= 2
                             /\ k >= 2 => TwoTo[k] >= 4}
<1>2. 0 \in S
  <2>1. m + 0 = m /\ TwoTo[m] * 1 = TwoTo[m]
    BY <1>1
  <2> QED  BY <1>1, <2>1
<1>3. ASSUME NEW k \in Nat, k \in S PROVE k + 1 \in S
  <2> DEFINE p == TwoTo[k]
             q == TwoTo[m]
  <2>1. p \in Nat /\ q \in Nat /\ TwoTo[k + 1] = 2 * p /\ TwoTo[m + k] = q * p
        /\ p >= 1 /\ (k >= 1 => p >= 2)
    BY <1>1, <1>3
  <2>2. TwoTo[m + (k + 1)] = 2 * TwoTo[m + k]
    <3>1. m + k \in Nat /\ m + (k + 1) = (m + k) + 1
      OBVIOUS
    <3> QED  BY <1>1, <3>1
  <2> HIDE DEF p, q
  <2>3. 2 * (q * p) = q * (2 * p)
    BY <2>1
  <2>4. TwoTo[m + (k + 1)] = q * TwoTo[k + 1]
    BY <2>1, <2>2, <2>3
  <2>5. 2 * p >= 2 /\ (k + 1 >= 2 => 2 * p >= 4)
    BY <2>1
  <2>6. TwoTo[k + 1] >= 1 /\ TwoTo[k + 1] >= 2 /\ (k + 1 >= 2 => TwoTo[k + 1] >= 4)
    BY <2>1, <2>5
  <2> QED  BY <2>4, <2>6 DEF q
<1> HIDE DEF S
<1>4. \A k \in Nat : k \in S
  BY <1>2, <1>3, Induction
<1>5. n \in S
  BY <1>4
<1> QED  BY <1>1, <1>5 DEF S

LEMMA NumAddrsType == NumAddrs \in Nat \ {0}
<1>1. 0 \in Nat /\ AddrBits \in Nat
  BY AddrBitsAssumption
<1>2. TwoTo[AddrBits] \in Nat /\ TwoTo[AddrBits] >= 1
  BY <1>1, TwoToSum
<1> QED  BY <1>2 DEF NumAddrs

(* The offset counts from 1 to the last host, whatever the hash.           *)
LEMMA OffsetInRange ==
  ASSUME NEW base \in Nat, NEW bcast \in Nat, bcast - base >= 2,
         NEW hash \in Nat
  PROVE  offset(base, bcast, hash) \in 1..(bcast - base - 1)
<1> DEFINE n == bcast - base - 1
           h == hash % NumAddrs
<1>1. n \in Nat \ {0}  OBVIOUS
<1>2. h \in Nat  BY NumAddrsType
<1>3. usable(base, bcast) = n  BY DEF usable
<1> HIDE DEF n, h
<1>4. (h % n) \in 0..(n - 1)  BY <1>1, <1>2
<1>5. ((h % n) + 1) \in 1..n  BY <1>1, <1>4
<1> QED  BY <1>3, <1>5 DEF offset, n, h

(* No hash gives the network's or the broadcast address (ipam.rs 13 to     *)
(* 18), for every network with room for a host, and none without.          *)
THEOREM DerivedAddressIsHost ==
  ASSUME NEW host_bits \in Int, NEW base \in Nat, NEW bcast \in Nat, base <= bcast,
         NEW hash \in Nat
  PROVE  IsHost(host_bits, base, bcast, hash)
<1>1. CASE host_bits < 2 \/ usable(base, bcast) = 0
  BY <1>1 DEF IsHost, derive
<1>2. CASE ~ (host_bits < 2 \/ usable(base, bcast) = 0)
  <2>1. bcast - base >= 2  BY <1>2 DEF usable
  <2>2. offset(base, bcast, hash) \in 1..(bcast - base - 1)
    BY <2>1, OffsetInRange
  <2>3. base + offset(base, bcast, hash) \in Hosts(base, bcast)
    BY <2>2 DEF Hosts
  <2> QED  BY <1>2, <2>3 DEF IsHost, derive
<1> QED  BY <1>1, <1>2

(* Every host address is that of some hash: the modulus leaves none out.   *)
THEOREM EveryHostHasHash ==
  ASSUME NEW host_bits \in Int, NEW base \in Nat, NEW bcast \in Nat,
         bcast - base >= 3, bcast < NumAddrs, host_bits >= 2
  PROVE  AllHosts(host_bits, base, bcast)
<1>1. ASSUME NEW a \in Hosts(base, bcast)
      PROVE  \E h \in 0..(NumAddrs - 1) : a \in derive(host_bits, base, bcast, h)
  <2> DEFINE h == a - base - 1
             n == bcast - base - 1
  <2>1. h \in 0..(n - 1) /\ n \in Nat \ {0} /\ h \in 0..(NumAddrs - 1) /\ base + (h + 1) = a
    BY NumAddrsType DEF Hosts
  <2>2. usable(base, bcast) = n /\ usable(base, bcast) # 0  BY <2>1 DEF usable
  <2> HIDE DEF h, n
  <2>3. h % NumAddrs = h  BY <2>1, NumAddrsType
  <2>4. h % n = h  BY <2>1
  <2>5. offset(base, bcast, h) = h + 1  BY <2>2, <2>3, <2>4 DEF offset
  <2>6. derive(host_bits, base, bcast, h) = {a}
    BY <2>1, <2>2, <2>5 DEF derive
  <2> QED  BY <2>1, <2>6
<1>2. ASSUME NEW h \in 0..(NumAddrs - 1)
      PROVE  derive(host_bits, base, bcast, h) \subseteq Hosts(base, bcast)
  <2>1. h \in Nat /\ base <= bcast  BY NumAddrsType
  <2> QED  BY <2>1, DerivedAddressIsHost DEF IsHost
<1>3. ~ host_bits < 2  OBVIOUS
<1> QED  BY <1>1, <1>2, <1>3 DEF AllHosts

(* A prefix makes a network of its size, within the address space.         *)
LEMMA NetworkOf ==
  ASSUME NEW ip \in 0..(NumAddrs - 1), NEW prefix \in 0..AddrBits
  PROVE  LET base == Network(ip, prefix)
             bcast == Broadcast(ip, prefix)
         IN  /\ base \in Nat /\ bcast \in Nat /\ base <= bcast /\ bcast < NumAddrs
             /\ AddrBits - prefix >= 2 => bcast - base >= 3
<1> DEFINE bits == AddrBits - prefix
           size == TwoTo[bits]
           nets == TwoTo[prefix]
           q == ip \div size
           r == ip % size
<1>1. bits \in Nat /\ prefix \in Nat /\ AddrBits = prefix + bits
  BY AddrBitsAssumption
<1> HIDE DEF bits
<1>2. /\ NumAddrs = nets * size /\ size \in Nat /\ nets \in Nat /\ size >= 1
      /\ bits >= 2 => size >= 4
  BY <1>1, TwoToSum DEF NumAddrs
<1>3. ip \in Nat /\ ip < nets * size
  <2> DEFINE all == nets * size
  <2>1. all \in Nat /\ NumAddrs = all
    BY <1>2
  <2> HIDE DEF all, nets, size
  <2>2. ip \in Nat /\ ip < all
    BY <2>1
  <2> QED  BY <2>2 DEF all
<1> HIDE DEF size, nets
<1>4. q \in Nat /\ r \in 0..(size - 1) /\ ip = q * size + r /\ q < nets
  <2>1. q \in Nat /\ r \in 0..(size - 1) /\ ip = q * size + r
    BY <1>2, <1>3, Division
  <2>2. q < nets
    BY <1>2, <1>3, QuotientBound
  <2> QED  BY <2>1, <2>2
<1>5. Network(ip, prefix) = ip - r /\ Broadcast(ip, prefix) = (ip - r) + size - 1
  BY DEF Network, Broadcast, NetSize, size, bits
<1> HIDE DEF q, r
<1>6. (q + 1) * size <= nets * size /\ (q + 1) * size = q * size + size
  <2> DEFINE d == nets - (q + 1)
  <2>1. d \in Nat /\ nets = (q + 1) + d
    BY <1>2, <1>4
  <2> HIDE DEF d
  <2>2. ((q + 1) + d) * size = (q + 1) * size + d * size /\ d * size \in Nat
        /\ (q + 1) * size \in Nat
    BY <1>2, <1>4, <2>1
  <2>3. (q + 1) * size = q * size + size
    BY <1>2, <1>4
  <2> QED  BY <2>1, <2>2, <2>3
<1> DEFINE base == q * size
           all == nets * size
<1>7. base \in Nat /\ all \in Nat /\ base + size <= all /\ ip - r = base
  <2>1. base \in Nat /\ all \in Nat
    BY <1>2, <1>4
  <2>2. base + size <= all
    BY <1>6
  <2>3. ip = base + r
    BY <1>4
  <2> HIDE DEF base, all
  <2> QED  BY <1>4, <2>1, <2>2, <2>3
<1>8. NumAddrs = all
  BY <1>2
<1> HIDE DEF base, all
<1>9. /\ base \in Nat /\ base + size - 1 \in Nat /\ base <= base + size - 1
      /\ base + size - 1 < all /\ (bits >= 2 => (base + size - 1) - base >= 3)
  BY <1>2, <1>7
<1> QED  BY <1>5, <1>7, <1>8, <1>9 DEF bits

-----------------------------------------------------------------------------
(* The checksum.                                                           *)

\* one's complement counts modulo this
Ones == WordMod - 1

LEMMA WordModType ==
  /\ WordMod \in Nat /\ WordMod > 1 /\ WordMod = Ones + 1
  /\ Ones \in Nat /\ Ones > 0
BY SMT DEF WordMod, Ones

FollowsTo(f, n, a, step) ==
  f[0] = a /\ \A i \in 0..(n - 1) : f[i + 1] = step[i + 1][f[i]]

(* A function that starts from a and goes on by step up to n exists.       *)
LEMMA FunctionUpTo ==
  ASSUME NEW X, NEW a \in X, NEW n \in Nat, NEW step \in [1..n -> [X -> X]]
  PROVE  \E f \in [0..n -> X] : FollowsTo(f, n, a, step)
<1> DEFINE next == [i \in Nat |-> [x \in X |-> IF i < n THEN step[i + 1][x] ELSE x]]
<1>1. next \in [Nat -> [X -> X]]
  <2>1. ASSUME NEW i \in Nat, NEW x \in X
        PROVE  (IF i < n THEN step[i + 1][x] ELSE x) \in X
    <3>1. i < n => i + 1 \in 1..n
      OBVIOUS
    <3> QED  BY <3>1
  <2> QED  BY <2>1
<1> HIDE DEF next
<1>2. PICK f \in [Nat -> X] : Follows(f, a, next)
  BY <1>1, FunctionByTurns
<1>3. f[0] = a /\ \A i \in Nat : i < n => f[i + 1] = step[i + 1][f[i]]
  BY <1>2 DEF Follows, next
<1> DEFINE g == [i \in 0..n |-> f[i]]
<1>4. g \in [0..n -> X]
  BY <1>2
<1>5. g[0] = a
  BY <1>3
<1>6. ASSUME NEW i \in 0..(n - 1) PROVE g[i + 1] = step[i + 1][g[i]]
  <2>1. i \in Nat /\ i < n /\ i \in 0..n /\ i + 1 \in 0..n
    OBVIOUS
  <2> QED  BY <1>3, <2>1
<1> HIDE DEF g
<1> QED  BY <1>4, <1>5, <1>6 DEF FollowsTo

(* Induction up to n.                                                      *)
LEMMA InductionTo ==
  ASSUME NEW S, NEW n \in Nat, 0 \in S, \A i \in 0..(n - 1) : i \in S => i + 1 \in S
  PROVE  \A i \in 0..n : i \in S
<1> DEFINE R == {i \in Nat : i <= n => i \in S}
<1>1. 0 \in R
  OBVIOUS
<1>2. ASSUME NEW i \in Nat, i \in R PROVE i + 1 \in R
  <2>1. i + 1 <= n => i \in 0..(n - 1) /\ i <= n
    OBVIOUS
  <2> QED  BY <1>2, <2>1
<1> HIDE DEF R
<1>3. \A i \in Nat : i \in R
  BY <1>1, <1>2, Induction
<1> QED  BY <1>3 DEF R

(* The sum of the words, word by word.                                     *)
LEMMA SumsDefined ==
  ASSUME NEW words \in Seq(Word)
  PROVE  /\ Sums(words) \in [0..Len(words) -> Nat] /\ Sums(words)[0] = 0
         /\ \A i \in 0..(Len(words) - 1) :
              Sums(words)[i + 1] = Sums(words)[i] + words[i + 1]
<1> DEFINE n == Len(words)
           step == [i \in 1..n |-> [s \in Nat |-> s + words[i]]]
           Is(t) == t = [i \in 0..n |-> IF i = 0 THEN 0 ELSE t[i - 1] + words[i]]
<1>1. n \in Nat /\ \A i \in 1..n : words[i] \in Nat
  <2> HIDE DEF Word
  <2>1. \A i \in 1..n : words[i] \in Word
    OBVIOUS
  <2>2. \A w \in Word : w \in Nat
    BY WordModType DEF Word
  <2> QED  BY <2>1, <2>2
<1> HIDE DEF n
<1>2. step \in [1..n -> [Nat -> Nat]]
  BY <1>1
<1> HIDE DEF step
<1>3. PICK f \in [0..n -> Nat] : FollowsTo(f, n, 0, step)
  BY <1>1, <1>2, FunctionUpTo
<1>4. f[0] = 0 /\ \A i \in 0..(n - 1) : f[i + 1] = f[i] + words[i + 1]
  <2>1. \A i \in 0..(n - 1) : i + 1 \in 1..n /\ f[i] \in Nat
    BY <1>1
  <2> QED  BY <1>3, <2>1 DEF FollowsTo, step
<1>5. Is(f)
  <2>1. ASSUME NEW i \in 0..n
        PROVE  f[i] = IF i = 0 THEN 0 ELSE f[i - 1] + words[i]
    <3>1. CASE i = 0
      BY <1>4, <3>1
    <3>2. CASE i # 0
      <4>1. i - 1 \in 0..(n - 1) /\ (i - 1) + 1 = i
        BY <1>1, <3>2
      <4>2. f[(i - 1) + 1] = f[i - 1] + words[(i - 1) + 1]
        BY <1>4, <4>1
      <4> QED  BY <3>2, <4>1, <4>2
    <3> QED  BY <3>1, <3>2
  <2> QED  BY <2>1
<1>6. Is(Sums(words))
  <2>1. Sums(words) = CHOOSE t : Is(t)
    BY DEF Sums, n
  <2> HIDE DEF Is
  <2> QED  BY <1>5, <2>1
<1> DEFINE u == Sums(words)
<1>7. u = [i \in 0..n |-> IF i = 0 THEN 0 ELSE u[i - 1] + words[i]]
  BY <1>6
<1> HIDE DEF u, Is
<1>8. u[0] = 0
  BY <1>1, <1>7
<1>9. ASSUME NEW i \in 0..(n - 1) PROVE u[i + 1] = u[i] + words[i + 1]
  <2>1. i + 1 \in 0..n /\ i + 1 # 0 /\ (i + 1) - 1 = i
    BY <1>1
  <2>2. u[i + 1] = u[(i + 1) - 1] + words[i + 1]
    BY <1>7, <2>1
  <2> QED  BY <2>1, <2>2
<1>10. \A i \in 0..n : u[i] \in Nat
  <2> DEFINE S == {i \in 0..n : u[i] \in Nat}
  <2>1. 0 \in S
    BY <1>1, <1>8
  <2>2. ASSUME NEW i \in 0..(n - 1), i \in S PROVE i + 1 \in S
    <3>1. u[i] \in Nat /\ i + 1 \in 1..n /\ i + 1 \in 0..n
      BY <1>1, <2>2
    <3>2. words[i + 1] \in Nat /\ u[i + 1] = u[i] + words[i + 1]
      BY <1>1, <1>9, <3>1
    <3>3. u[i + 1] \in Nat
      BY <3>1, <3>2
    <3> QED  BY <3>1, <3>3
  <2> HIDE DEF S
  <2>3. \A i \in 0..n : i \in S
    BY <1>1, <2>1, <2>2, InductionTo
  <2> QED  BY <2>3 DEF S
<1>11. u \in [0..n -> Nat]
  BY <1>7, <1>10
<1> QED  BY <1>8, <1>9, <1>11 DEF u, n

(* So is the sum with the carries added back at once.                      *)
LEMMA OnesSumsDefined ==
  ASSUME NEW words \in Seq(Word)
  PROVE  /\ OnesSums(words) \in [0..Len(words) -> Word] /\ OnesSums(words)[0] = 0
         /\ \A i \in 0..(Len(words) - 1) :
              OnesSums(words)[i + 1] = OnesAdd(OnesSums(words)[i], words[i + 1])
<1> DEFINE n == Len(words)
           step == [i \in 1..n |-> [s \in Word |-> OnesAdd(s, words[i])]]
           Is(t) == t = [i \in 0..n |-> IF i = 0 THEN 0 ELSE OnesAdd(t[i - 1], words[i])]
<1>1. n \in Nat /\ \A i \in 1..n : words[i] \in Word
  <2> HIDE DEF Word
  <2> QED  OBVIOUS
<1>2. 0 \in Word /\ \A s \in Word : \A w \in Word : OnesAdd(s, w) \in Word
  <2>1. 0 \in Word
    BY WordModType DEF Word
  <2>2. ASSUME NEW s \in Word, NEW w \in Word PROVE OnesAdd(s, w) \in Word
    BY WordModType DEF Word, OnesAdd
  <2> QED  BY <2>1, <2>2
<1> HIDE DEF n, Word, OnesAdd
<1>3. step \in [1..n -> [Word -> Word]]
  BY <1>1, <1>2
<1> HIDE DEF step
<1>4. PICK f \in [0..n -> Word] : FollowsTo(f, n, 0, step)
  BY <1>1, <1>2, <1>3, FunctionUpTo
<1>5. f[0] = 0 /\ \A i \in 0..(n - 1) : f[i + 1] = OnesAdd(f[i], words[i + 1])
  <2>1. \A i \in 0..(n - 1) : i + 1 \in 1..n /\ f[i] \in Word
    BY <1>1
  <2> QED  BY <1>4, <2>1 DEF FollowsTo, step
<1>6. Is(f)
  <2>1. ASSUME NEW i \in 0..n
        PROVE  f[i] = IF i = 0 THEN 0 ELSE OnesAdd(f[i - 1], words[i])
    <3>1. CASE i = 0
      BY <1>5, <3>1
    <3>2. CASE i # 0
      <4>1. i - 1 \in 0..(n - 1) /\ (i - 1) + 1 = i
        BY <1>1, <3>2
      <4>2. f[(i - 1) + 1] = OnesAdd(f[i - 1], words[(i - 1) + 1])
        BY <1>5, <4>1
      <4> QED  BY <3>2, <4>1, <4>2
    <3> QED  BY <3>1, <3>2
  <2> QED  BY <2>1
<1>7. Is(OnesSums(words))
  <2>1. OnesSums(words) = CHOOSE t : Is(t)
    BY DEF OnesSums, n
  <2> HIDE DEF Is
  <2> QED  BY <1>6, <2>1
<1> DEFINE u == OnesSums(words)
<1>8. u = [i \in 0..n |-> IF i = 0 THEN 0 ELSE OnesAdd(u[i - 1], words[i])]
  BY <1>7
<1> HIDE DEF u, Is
<1>9. u[0] = 0
  BY <1>1, <1>8
<1>10. ASSUME NEW i \in 0..(n - 1) PROVE u[i + 1] = OnesAdd(u[i], words[i + 1])
  <2>1. i + 1 \in 0..n /\ i + 1 # 0 /\ (i + 1) - 1 = i
    BY <1>1
  <2>2. u[i + 1] = OnesAdd(u[(i + 1) - 1], words[i + 1])
    BY <1>8, <2>1
  <2> QED  BY <2>1, <2>2
<1>11. \A i \in 0..n : u[i] \in Word
  <2> DEFINE S == {i \in 0..n : u[i] \in Word}
  <2>1. 0 \in S
    BY <1>1, <1>2, <1>9
  <2>2. ASSUME NEW i \in 0..(n - 1), i \in S PROVE i + 1 \in S
    <3>1. u[i] \in Word /\ i + 1 \in 1..n /\ i + 1 \in 0..n
      BY <1>1, <2>2
    <3>2. u[i + 1] \in Word
      BY <1>1, <1>2, <1>10, <3>1
    <3> QED  BY <3>1, <3>2
  <2> HIDE DEF S
  <2>3. \A i \in 0..n : i \in S
    BY <1>1, <2>1, <2>2, InductionTo
  <2> QED  BY <2>3 DEF S
<1>12. u \in [0..n -> Word]
  BY <1>8, <1>11
<1> QED  BY <1>9, <1>10, <1>12 DEF u, n

(* The one word that is congruent to s modulo WordMod - 1 and is zero only *)
(* if s is: what is left when every carry has been added back.             *)
Folded(s) == IF s = 0 THEN 0 ELSE ((s - 1) % Ones) + 1

LEMMA FoldedIs ==
  ASSUME NEW s \in Nat, NEW k \in Nat, NEW r \in 0..(Ones - 1), s = k * Ones + r + 1
  PROVE  Folded(s) = r + 1
<1> DEFINE x == s - 1
           q == x \div Ones
           m == x % Ones
           kn == k * Ones
<1>1. kn \in Nat /\ r \in Nat /\ s = kn + r + 1
  BY WordModType
<1> HIDE DEF kn
<1>2. x \in Nat /\ x = kn + r /\ s # 0
  BY <1>1
<1> HIDE DEF x
<1>3. q \in Nat /\ m \in 0..(Ones - 1) /\ x = q * Ones + m
  BY <1>2, Division, WordModType
<1> HIDE DEF q, m
<1>4. q * Ones + m = k * Ones + r
  BY <1>2, <1>3 DEF kn
<1>5. q = k
  BY <1>3, <1>4, QuotientUnique, WordModType
<1>6. m = r
  <2>1. kn + m = kn + r
    BY <1>4, <1>5 DEF kn
  <2>2. m \in Nat
    BY <1>3, WordModType
  <2> QED  BY <1>1, <2>1, <2>2
<1> QED  BY <1>2, <1>6 DEF Folded, m, x

LEMMA FoldedOf ==
  ASSUME NEW s \in Nat, s > 0
  PROVE  \E k \in Nat : \E r \in 0..(Ones - 1) :
           s = k * Ones + r + 1 /\ Folded(s) = r + 1
<1> DEFINE x == s - 1
           q == x \div Ones
           m == x % Ones
<1>1. x \in Nat /\ s = x + 1
  OBVIOUS
<1> HIDE DEF x
<1>2. q \in Nat /\ m \in 0..(Ones - 1) /\ x = q * Ones + m
  BY <1>1, Division, WordModType
<1> HIDE DEF q, m
<1>3. s = q * Ones + m + 1
  BY <1>1, <1>2
<1>4. Folded(s) = m + 1
  BY <1>2, <1>3, FoldedIs
<1> QED  BY <1>2, <1>3, <1>4

LEMMA FoldedType ==
  ASSUME NEW s \in Nat
  PROVE  Folded(s) \in Word
<1>1. CASE s = 0
  BY <1>1, WordModType DEF Folded, Word
<1>2. CASE s > 0
  <2>1. PICK r \in 0..(Ones - 1) : Folded(s) = r + 1
    BY <1>2, FoldedOf
  <2> QED  BY <2>1, WordModType DEF Word
<1> QED  BY <1>1, <1>2

(* A sum that is a word is left alone.                                     *)
LEMMA FoldedWord ==
  ASSUME NEW s \in Nat, s < WordMod
  PROVE  Folded(s) = s
<1>1. CASE s = 0
  BY <1>1 DEF Folded
<1>2. CASE s > 0
  <2> DEFINE r == s - 1
  <2>1. r \in 0..(Ones - 1) /\ s = r + 1
    BY <1>2, WordModType
  <2> HIDE DEF r
  <2>2. s = 0 * Ones + r + 1 /\ 0 \in Nat
    BY <2>1, WordModType
  <2>3. Folded(s) = r + 1
    BY <2>1, <2>2, FoldedIs
  <2> QED  BY <2>1, <2>3
<1> QED  BY <1>1, <1>2

(* Adding the carries of a larger one makes it smaller, not other.         *)
LEMMA FoldedCarry ==
  ASSUME NEW s \in Nat, s >= WordMod
  PROVE  LET t == (s % WordMod) + s \div WordMod
         IN  t \in Nat /\ t < s /\ Folded(t) = Folded(s)
<1> DEFINE q == s \div WordMod
           r == s % WordMod
           t == r + q
           qn == q * Ones
<1>1. q \in Nat /\ r \in 0..(WordMod - 1) /\ s = q * WordMod + r
  BY Division, WordModType
<1> HIDE DEF q, r
<1>2. q >= 1
  <2> SUFFICES ASSUME q = 0 PROVE FALSE
    BY <1>1
  <2>1. 0 * WordMod = 0
    BY WordModType
  <2> QED  BY <1>1, <2>1, WordModType
<1>3. q * WordMod = qn + q /\ qn \in Nat /\ qn > 0
  <2>1. q * (Ones + 1) = q * Ones + q
    BY <1>1, WordModType
  <2>2. q * Ones \in Nat /\ q * Ones > 0
    BY <1>1, <1>2, WordModType
  <2> QED  BY <2>1, <2>2, WordModType
<1> HIDE DEF qn
<1>4. t \in Nat /\ t > 0 /\ t < s /\ s = t + qn
  BY <1>1, <1>2, <1>3, WordModType
<1> HIDE DEF t
<1>5. PICK k \in Nat : \E m \in 0..(Ones - 1) : t = k * Ones + m + 1 /\ Folded(t) = m + 1
  BY <1>4, FoldedOf
<1>6. PICK m \in 0..(Ones - 1) : t = k * Ones + m + 1 /\ Folded(t) = m + 1
  BY <1>5
<1>7. k + q \in Nat /\ s = (k + q) * Ones + m + 1
  <2> DEFINE kn == k * Ones
  <2>1. (k + q) * Ones = kn + qn /\ kn \in Nat
    BY <1>1, WordModType DEF qn
  <2>2. t = kn + m + 1 /\ m \in Nat
    BY <1>6, WordModType
  <2> HIDE DEF kn
  <2>3. s = (kn + qn) + m + 1
    BY <1>3, <1>4, <2>1, <2>2
  <2> QED  BY <1>1, <2>1, <2>3
<1>8. Folded(s) = m + 1
  BY <1>7, FoldedIs
<1> QED  BY <1>4, <1>6, <1>8 DEF t, q, r

(* To add a word, with its carry, to what is left is to add it first.      *)
LEMMA FoldedAdd ==
  ASSUME NEW s \in Nat, NEW w \in Word
  PROVE  OnesAdd(Folded(s), w) = Folded(s + w)
<1>1. w \in Nat /\ w < WordMod /\ s + w \in Nat
  BY WordModType DEF Word
<1>2. CASE s = 0
  <2>1. Folded(s) = 0 /\ s + w = w /\ Folded(w) = w
    BY <1>1, <1>2, FoldedWord DEF Folded
  <2> QED  BY <1>1, <2>1 DEF OnesAdd
<1>3. CASE s > 0
  <2>1. PICK k \in Nat : \E r \in 0..(Ones - 1) : s = k * Ones + r + 1 /\ Folded(s) = r + 1
    BY <1>3, FoldedOf
  <2>2. PICK r \in 0..(Ones - 1) : s = k * Ones + r + 1 /\ Folded(s) = r + 1
    BY <2>1
  <2> DEFINE kn == k * Ones
  <2>3. kn \in Nat /\ r \in Nat /\ s = kn + r + 1
    BY <2>2, WordModType
  <2>4. CASE r + 1 + w < WordMod
    <3> DEFINE m == r + w
    <3>1. m \in 0..(Ones - 1) /\ m + 1 = r + 1 + w
      BY <1>1, <2>3, <2>4, WordModType
    <3>2. s + w = kn + m + 1
      <4> HIDE DEF kn
      <4> QED  BY <1>1, <2>3
    <3>3. OnesAdd(Folded(s), w) = m + 1
      BY <1>1, <2>2, <2>4, <3>1 DEF OnesAdd
    <3> HIDE DEF m
    <3>4. Folded(s + w) = m + 1
      BY <1>1, <3>1, <3>2, FoldedIs
    <3> QED  BY <3>3, <3>4
  <2>5. CASE ~ r + 1 + w < WordMod
    <3> DEFINE m == r + w - Ones
    <3>1. m \in 0..(Ones - 1) /\ m + 1 = r + 1 + w + 1 - WordMod
      BY <1>1, <2>3, <2>5, WordModType
    <3>2. s + w = (kn + Ones) + m + 1
      <4> HIDE DEF kn
      <4> QED  BY <1>1, <2>3, WordModType
    <3>3. OnesAdd(Folded(s), w) = m + 1
      BY <1>1, <2>2, <2>5, <3>1 DEF OnesAdd
    <3> HIDE DEF m
    <3>4. (k + 1) * Ones = kn + Ones /\ k + 1 \in Nat
      BY WordModType
    <3>5. Folded(s + w) = m + 1
      BY <1>1, <3>1, <3>2, <3>4, FoldedIs
    <3> QED  BY <3>3, <3>5
  <2> QED  BY <2>4, <2>5
<1> QED  BY <1>2, <1>3

(* The carry loop ends, and leaves just that word.                         *)
LEMMA CarriedIsFolded ==
  ASSUME NEW total \in Nat
  PROVE  Carried(total) = Folded(total)
<1> DEFINE Is(t) == t = [sum \in Nat |->
                          IF sum < WordMod THEN sum
                          ELSE t[(sum % WordMod) + sum \div WordMod]]
           f == [s \in Nat |-> Folded(s)]
           u == CHOOSE t : Is(t)
<1>1. Is(f)
  <2>1. ASSUME NEW s \in Nat
        PROVE  f[s] = IF s < WordMod THEN s ELSE f[(s % WordMod) + s \div WordMod]
    <3> DEFINE t == (s % WordMod) + s \div WordMod
    <3>1. CASE s < WordMod
      <4>1. Folded(s) = s
        BY <3>1, FoldedWord
      <4> QED  BY <3>1, <4>1
    <3>2. CASE ~ s < WordMod
      <4>1. t \in Nat /\ Folded(t) = Folded(s)
        <5>1. s >= WordMod
          BY <3>2, WordModType
        <5> QED  BY <5>1, FoldedCarry
      <4> HIDE DEF t
      <4>2. f[s] = f[t]
        BY <4>1
      <4> QED  BY <3>2, <4>2 DEF t
    <3> QED  BY <3>1, <3>2
  <2> HIDE DEF Folded
  <2> QED  BY <2>1
<1>2. Is(u)
  <2> HIDE DEF Is, f
  <2> QED  BY <1>1
<1>3. Carried(total) = u[total]
  BY DEF Carried
<1>4. \A s \in Nat : u[s] = IF s < WordMod THEN s
                             ELSE u[(s % WordMod) + s \div WordMod]
  <2> HIDE DEF u
  <2> QED  BY <1>2
<1> HIDE DEF Is, u, f
<1>5. ASSUME NEW x \in Nat, \A y \in Nat : y < x => u[y] = Folded(y)
      PROVE  u[x] = Folded(x)
  <2>1. CASE x < WordMod
    <3>1. u[x] = x
      BY <1>4, <2>1
    <3> QED  BY <2>1, <3>1, FoldedWord
  <2>2. CASE ~ x < WordMod
    <3> DEFINE t == (x % WordMod) + x \div WordMod
    <3>1. t \in Nat /\ t < x /\ Folded(t) = Folded(x)
      <4>1. x >= WordMod
        BY <2>2, WordModType
      <4> QED  BY <4>1, FoldedCarry
    <3>2. u[x] = u[t]
      BY <1>4, <2>2
    <3> HIDE DEF t
    <3> QED  BY <1>5, <3>1, <3>2
  <2> QED  BY <2>1, <2>2
<1> DEFINE T == {s \in Nat : u[s] # Folded(s)}
<1>6. T = {}
  <2> SUFFICES ASSUME T # {} PROVE FALSE
    OBVIOUS
  <2>1. T \in SUBSET Nat
    OBVIOUS
  <2> HIDE DEF T
  <2>2. PICK x \in T : \A y \in T : ~ (y < x)
    BY <2>1, Least
  <2>3. x \in Nat /\ u[x] # Folded(x)
    BY <2>2 DEF T
  <2>4. \A y \in Nat : y < x => u[y] = Folded(y)
    BY <2>2 DEF T
  <2> QED  BY <1>5, <2>3, <2>4
<1> QED  BY <1>3, <1>6

(* Adding the words with their carries leaves that word of their sum.      *)
LEMMA OnesSumsFolded ==
  ASSUME NEW words \in Seq(Word)
  PROVE  OnesSums(words)[Len(words)] = Folded(Sums(words)[Len(words)])
<1> DEFINE n == Len(words)
           u == Sums(words)
           v == OnesSums(words)
           S == {i \in 0..n : v[i] = Folded(u[i])}
<1>1. n \in Nat /\ \A i \in 1..n : words[i] \in Word
  <2> HIDE DEF Word
  <2> QED  OBVIOUS
<1>2. /\ u \in [0..n -> Nat] /\ u[0] = 0
      /\ \A i \in 0..(n - 1) : u[i + 1] = u[i] + words[i + 1]
  BY SumsDefined
<1>3. /\ v[0] = 0
      /\ \A i \in 0..(n - 1) : v[i + 1] = OnesAdd(v[i], words[i + 1])
  BY OnesSumsDefined
<1> HIDE DEF n, u, v
<1>4. 0 \in S
  <2>1. 0 \in 0..n
    BY <1>1
  <2> QED  BY <1>2, <1>3, <2>1 DEF Folded
<1>5. ASSUME NEW i \in 0..(n - 1), i \in S PROVE i + 1 \in S
  <2>1. i + 1 \in 1..n /\ i + 1 \in 0..n /\ i \in 0..n
    BY <1>1
  <2>2. u[i] \in Nat /\ words[i + 1] \in Word /\ v[i] = Folded(u[i])
    BY <1>1, <1>2, <1>5, <2>1
  <2>3. OnesAdd(Folded(u[i]), words[i + 1]) = Folded(u[i] + words[i + 1])
    BY <2>2, FoldedAdd
  <2>4. v[i + 1] = Folded(u[i + 1])
    BY <1>2, <1>3, <2>2, <2>3
  <2> QED  BY <2>1, <2>4
<1> HIDE DEF S
<1>6. \A i \in 0..n : i \in S
  BY <1>1, <1>4, <1>5, InductionTo
<1>7. n \in S
  BY <1>1, <1>6
<1> QED  BY <1>7 DEF S, n, u, v

(* To put a word where there was none adds it to the sum.                  *)
LEMMA SumsExcept ==
  ASSUME NEW words \in Seq(Word), NEW k \in 1..Len(words), words[k] = 0, NEW c \in Word
  PROVE  LET put == [words EXCEPT ![k] = c]
         IN  put \in Seq(Word) /\ Len(put) = Len(words)
             /\ Sums(put)[Len(words)] = Sums(words)[Len(words)] + c
<1> DEFINE n == Len(words)
           put == [words EXCEPT ![k] = c]
           u == Sums(words)
           v == Sums(put)
           S == {i \in 0..n : v[i] = IF i < k THEN u[i] ELSE u[i] + c}
<1>1. n \in Nat /\ k \in 1..n /\ \A i \in 1..n : words[i] \in Word
  <2> HIDE DEF Word
  <2> QED  OBVIOUS
<1>2. put \in Seq(Word) /\ Len(put) = n
      /\ \A i \in 1..n : put[i] = IF i = k THEN c ELSE words[i]
  <2> HIDE DEF Word
  <2> QED  BY <1>1
<1>3. \A w \in Word : w \in Nat
  BY WordModType DEF Word
<1>4. /\ u \in [0..n -> Nat] /\ u[0] = 0
      /\ \A i \in 0..(n - 1) : u[i + 1] = u[i] + words[i + 1]
  BY SumsDefined
<1> HIDE DEF n, put
<1>5. /\ v \in [0..n -> Nat] /\ v[0] = 0
      /\ \A i \in 0..(n - 1) : v[i + 1] = v[i] + put[i + 1]
  BY <1>2, SumsDefined
<1> HIDE DEF u, v, Word
<1>6. 0 \in S
  <2>1. 0 \in 0..n /\ 0 < k
    BY <1>1
  <2> QED  BY <1>4, <1>5, <2>1
<1>7. ASSUME NEW i \in 0..(n - 1), i \in S PROVE i + 1 \in S
  <2>1. i + 1 \in 1..n /\ i + 1 \in 0..n /\ i \in 0..n
    BY <1>1
  <2>2. /\ u[i] \in Nat /\ words[i + 1] \in Nat /\ c \in Nat
        /\ u[i + 1] = u[i] + words[i + 1]
        /\ v[i + 1] = v[i] + put[i + 1]
        /\ put[i + 1] = IF i + 1 = k THEN c ELSE words[i + 1]
        /\ v[i] = IF i < k THEN u[i] ELSE u[i] + c
    BY <1>1, <1>2, <1>3, <1>4, <1>5, <1>7, <2>1
  <2>3. i + 1 = k => words[i + 1] = 0
    OBVIOUS
  <2>4. v[i + 1] = IF i + 1 < k THEN u[i + 1] ELSE u[i + 1] + c
    <3> DEFINE a == u[i]
               w == words[i + 1]
    <3>1. a \in Nat /\ w \in Nat /\ c \in Nat /\ k \in Nat /\ i \in Nat
      BY <1>1, <2>2
    <3>2. u[i + 1] = a + w /\ v[i + 1] = (IF i < k THEN a ELSE a + c)
                                         + (IF i + 1 = k THEN c ELSE w)
          /\ (i + 1 = k => w = 0)
      BY <2>2, <2>3
    <3> HIDE DEF a, w
    <3>3. CASE i + 1 < k
      BY <3>1, <3>2, <3>3
    <3>4. CASE i + 1 = k
      BY <3>1, <3>2, <3>4
    <3>5. CASE i + 1 > k
      BY <3>1, <3>2, <3>5
    <3> QED  BY <3>1, <3>3, <3>4, <3>5
  <2> QED  BY <2>1, <2>4
<1> HIDE DEF S
<1>8. \A i \in 0..n : i \in S
  BY <1>1, <1>6, <1>7, InductionTo
<1>9. n \in S /\ ~ n < k
  BY <1>1, <1>8
<1>10. v[n] = u[n] + c
  BY <1>9 DEF S
<1> QED  BY <1>2, <1>10 DEF n, put, u, v

(* The header of a fragment passes the receiver's test, for every header   *)
(* that has a checksum word (routing.rs 149 to 166, 231 and 232).          *)
THEOREM ChecksumVerifies ==
  ASSUME NEW header \in Seq(Word), Len(header) >= Checksum
  PROVE  Verifies(WithChecksum(header))
<1> DEFINE n == Len(header)
           zeroed == [header EXCEPT ![Checksum] = 0]
           total == Sums(zeroed)[n]
           sum == Folded(total)
           c == Ones - sum
           put == [zeroed EXCEPT ![Checksum] = c]
<1>1. n \in Nat /\ Checksum \in 1..n /\ 0 \in Word
  <2>1. n \in Nat /\ Checksum \in 1..n
    BY DEF Checksum
  <2>2. 0 \in Word
    BY WordModType DEF Word
  <2> QED  BY <2>1, <2>2
<1>2. zeroed \in Seq(Word) /\ Len(zeroed) = n /\ zeroed[Checksum] = 0
  <2> HIDE DEF Word, Checksum
  <2> QED  BY <1>1
<1>3. total \in Nat
  <2>1. Sums(zeroed) \in [0..n -> Nat]
    BY <1>2, SumsDefined
  <2> HIDE DEF zeroed, n
  <2>2. n \in 0..n
    BY <1>1
  <2> QED  BY <2>1, <2>2
<1> HIDE DEF total
<1>4. sum \in Word /\ c \in Word /\ ipv4_checksum(header) = c
  <2>1. sum \in Word
    BY <1>3, FoldedType
  <2>2. Carried(total) = sum
    BY <1>3, CarriedIsFolded
  <2>3. ipv4_checksum(header) = WordMod - 1 - sum
    BY <2>2 DEF ipv4_checksum, total
  <2> HIDE DEF sum
  <2> QED  BY <2>1, <2>3, WordModType DEF Word, Ones
<1>5. WithChecksum(header) = put
  <2> HIDE DEF c
  <2>1. WithChecksum(header) = [header EXCEPT ![Checksum] = c]
    BY <1>4 DEF WithChecksum
  <2>2. [header EXCEPT ![Checksum] = c] = [zeroed EXCEPT ![Checksum] = c]
    BY <1>1
  <2> QED  BY <2>1, <2>2
<1> HIDE DEF zeroed, n, c, sum
<1>6. put \in Seq(Word) /\ Len(put) = n /\ Sums(put)[n] = total + c
  <2>1. Checksum \in 1..Len(zeroed)
    BY <1>1, <1>2
  <2>2. /\ put \in Seq(Word) /\ Len(put) = Len(zeroed)
        /\ Sums(put)[Len(zeroed)] = Sums(zeroed)[Len(zeroed)] + c
    BY <1>2, <1>4, <2>1, SumsExcept
  <2> QED  BY <1>2, <2>2 DEF total
<1> HIDE DEF put
<1>7. Folded(total + c) = Ones
  <2>1. CASE total = 0
    <3>1. sum = 0
      BY <2>1 DEF sum, Folded
    <3>2. c = Ones /\ total + c = Ones /\ Ones < WordMod
      BY <2>1, <3>1, WordModType DEF c
    <3> QED  BY <3>2, FoldedWord, WordModType
  <2>2. CASE total > 0
    <3>1. PICK k \in Nat : \E r \in 0..(Ones - 1) : total = k * Ones + r + 1 /\ sum = r + 1
      BY <1>3, <2>2, FoldedOf DEF sum
    <3>2. PICK r \in 0..(Ones - 1) : total = k * Ones + r + 1 /\ sum = r + 1
      BY <3>1
    <3> DEFINE kn == k * Ones
               m == Ones - 1
    <3>3. kn \in Nat /\ r \in Nat /\ total = kn + r + 1 /\ m \in 0..(Ones - 1)
      BY <3>2, WordModType
    <3> HIDE DEF kn
    <3>4. total + c = kn + m + 1 /\ total + c \in Nat
      BY <3>2, <3>3, WordModType DEF c
    <3>5. m + 1 = Ones
      BY WordModType
    <3> HIDE DEF m
    <3>6. Folded(total + c) = m + 1
      BY <3>3, <3>4, FoldedIs DEF kn
    <3> QED  BY <3>5, <3>6
  <2> QED  BY <1>3, <2>1, <2>2
<1>8. OnesSums(put)[Len(put)] = Folded(Sums(put)[Len(put)])
  BY <1>6, OnesSumsFolded
<1> QED  BY <1>5, <1>6, <1>7, <1>8 DEF Verifies, Ones

(* The code adds the words up in a u32.  A header has 15 times four bytes  *)
(* at the most, so that the sum the model takes never passes it.           *)
THEOREM ChecksumFitsU32 ==
  ASSUME NEW words \in Seq(Word), Len(words) <= 30
  PROVE  Sums(words)[Len(words)] < WordMod * WordMod
<1> DEFINE n == Len(words)
           u == Sums(words)
           S == {i \in 0..n : u[i] <= i * Ones}
<1>1. n \in Nat /\ n <= 30 /\ \A i \in 1..n : words[i] \in Word
  <2> HIDE DEF Word
  <2> QED  OBVIOUS
<1>2. /\ u \in [0..n -> Nat] /\ u[0] = 0
      /\ \A i \in 0..(n - 1) : u[i + 1] = u[i] + words[i + 1]
  BY SumsDefined
<1> HIDE DEF n, u
<1>3. 0 \in S
  <2>1. 0 \in 0..n /\ 0 * Ones = 0
    BY <1>1, WordModType
  <2> QED  BY <1>2, <2>1
<1>4. ASSUME NEW i \in 0..(n - 1), i \in S PROVE i + 1 \in S
  <2>1. i + 1 \in 1..n /\ i + 1 \in 0..n /\ i \in 0..n
    BY <1>1
  <2>2. words[i + 1] \in Nat /\ words[i + 1] <= Ones
    <3>1. words[i + 1] \in Word
      BY <1>1, <2>1
    <3> QED  BY <3>1, WordModType DEF Word
  <2>3. (i + 1) * Ones = i * Ones + Ones /\ i * Ones \in Nat
    BY <2>1, WordModType
  <2>4. u[i] \in Nat /\ u[i] <= i * Ones /\ u[i + 1] = u[i] + words[i + 1]
    BY <1>2, <1>4, <2>1
  <2> DEFINE a == i * Ones
             b == u[i]
             w == words[i + 1]
  <2>5. a \in Nat /\ b \in Nat /\ w \in Nat /\ w <= Ones /\ b <= a
        /\ u[i + 1] = b + w /\ (i + 1) * Ones = a + Ones
    BY <2>2, <2>3, <2>4
  <2> HIDE DEF a, b, w
  <2>6. b + w <= a + Ones
    BY <2>5, WordModType
  <2> QED  BY <2>1, <2>5, <2>6
<1> HIDE DEF S
<1>5. \A i \in 0..n : i \in S
  BY <1>1, <1>3, <1>4, InductionTo
<1>6. u[n] \in Nat /\ u[n] <= n * Ones
  <2>1. n \in 0..n
    BY <1>1
  <2>2. n \in S
    BY <1>5, <2>1
  <2> QED  BY <1>2, <2>1, <2>2 DEF S
<1>7. n * Ones <= 30 * Ones
  <2> DEFINE d == 30 - n
  <2>1. d \in Nat /\ 30 = n + d
    BY <1>1
  <2> HIDE DEF d
  <2>2. (n + d) * Ones = n * Ones + d * Ones /\ d * Ones \in Nat /\ n * Ones \in Nat
    BY <1>1, <2>1, WordModType
  <2> QED  BY <2>1, <2>2
<1>8. 30 * Ones < WordMod * WordMod
  BY SMT DEF WordMod, Ones
<1>9. n * Ones \in Nat
  BY <1>1, WordModType
<1> DEFINE p == n * Ones
           q == 30 * Ones
           r == WordMod * WordMod
<1>10. p \in Nat /\ q \in Nat /\ r \in Nat /\ u[n] \in Nat /\ u[n] <= p /\ p <= q /\ q < r
  BY <1>6, <1>7, <1>8, <1>9, WordModType
<1> HIDE DEF p, q, r
<1>11. u[n] < r
  BY <1>10
<1> QED  BY <1>11 DEF r, u, n

-----------------------------------------------------------------------------
(* The inputs TLC goes through are of the kinds the lemmas are about.      *)

Components == PlainComponents \cup MixedComponents

InputInv ==
  /\ kind \in DOMAIN MaxLen
  /\ kind \in {"plain", "mixed"} => input \in Seq(Components)
  /\ kind = "net" =>
       /\ input \in Seq(Nat)
       /\ Len(input) >= 1 => input[1] \in 0..(NumAddrs - 1)
       /\ Len(input) >= 2 => input[2] \in 0..AddrBits
  /\ kind = "batch"  => input \in Seq(Packets) /\ Len(input) <= u16_max
  /\ kind = "bytes"  => input \in Seq(Bytes)
  /\ kind = "header" => input \in Seq(Word)

(* An input goes on as one of its kind.                                    *)
LEMMA InputsTyped == Spec => []InputInv
<1>1. Init => InputInv
  <2> SUFFICES ASSUME Init PROVE InputInv
    OBVIOUS
  <2>1. input = <<>> /\ Len(input) = 0 /\ kind \in DOMAIN MaxLen
    BY DEF Init
  <2>2. \A S : input \in Seq(S)
    BY <2>1
  <2>3. 0 <= u16_max
    <3>1. Base * Base \in Nat /\ Base * Base > 0
      BY CodecAssumption
    <3> QED  BY <3>1 DEF u16_max
  <2> QED  BY <2>1, <2>2, <2>3 DEF InputInv
<1>2. InputInv /\ [Next]_vars => InputInv'
  <2> SUFFICES ASSUME InputInv, [Next]_vars PROVE InputInv'
    OBVIOUS
  <2>1. CASE Next
    <3>1. PICK part \in Parts : input' = Append(input, part)
      BY <2>1 DEF Next
    <3>2. kind' = kind /\ Len(input) < MaxLen[kind] /\ kind \in DOMAIN MaxLen
      BY <2>1 DEF Next, InputInv
    <3>3. CASE kind \in {"plain", "mixed"}
      <4>1. input \in Seq(Components)
        BY <3>3 DEF InputInv
      <4>2. part \in Components
        BY <3>1, <3>3 DEF Parts, Components
      <4> HIDE DEF Components
      <4>3. input' \in Seq(Components)
        BY <3>1, <4>1, <4>2
      <4> QED  BY <3>2, <3>3, <4>3 DEF InputInv
    <3>4. CASE kind = "net"
      <4>1. /\ input \in Seq(Nat)
            /\ Len(input) >= 1 => input[1] \in 0..(NumAddrs - 1)
            /\ Len(input) >= 2 => input[2] \in 0..AddrBits
        BY <3>4 DEF InputInv
      <4>2. Parts = CASE Len(input) = 0 -> 0..(NumAddrs - 1)
                      [] Len(input) = 1 -> 0..AddrBits
                      [] OTHER -> 0..(2 * NumAddrs)
        BY <3>4 DEF Parts
      <4>3. /\ Len(input) = 0 => part \in 0..(NumAddrs - 1)
            /\ Len(input) = 1 => part \in 0..AddrBits
            /\ part \in Nat
        <5>1. CASE Len(input) = 0
          BY <3>1, <4>2, <5>1
        <5>2. CASE Len(input) = 1
          BY <3>1, <4>2, <5>2
        <5>3. CASE Len(input) # 0 /\ Len(input) # 1
          BY <3>1, <4>2, <5>3
        <5> QED  BY <5>1, <5>2, <5>3
      <4> DEFINE n == Len(input)
      <4>4. /\ n \in Nat /\ input' \in Seq(Nat) /\ Len(input') = n + 1
            /\ input'[n + 1] = part /\ \A i \in 1..n : input'[i] = input[i]
        BY <3>1, <4>1, <4>3
      <4>5. Len(input') >= 1 => input'[1] \in 0..(NumAddrs - 1)
        <5>1. CASE n = 0
          BY <4>3, <4>4, <5>1
        <5>2. CASE n >= 1
          <6>1. input'[1] = input[1]
            BY <4>4, <5>2
          <6> QED  BY <4>1, <5>2, <6>1
        <5> QED  BY <4>4, <5>1, <5>2
      <4>6. Len(input') >= 2 => input'[2] \in 0..AddrBits
        <5>1. CASE n = 0
          BY <4>4, <5>1
        <5>2. CASE n = 1
          BY <4>3, <4>4, <5>2
        <5>3. CASE n >= 2
          <6>1. input'[2] = input[2]
            BY <4>4, <5>3
          <6> QED  BY <4>1, <5>3, <6>1
        <5>4. n = 0 \/ n = 1 \/ n >= 2
          <6>1. n \in Nat
            BY <4>4
          <6> HIDE DEF n
          <6> QED  BY <6>1
        <5> QED  BY <5>1, <5>2, <5>3, <5>4
      <4> QED  BY <3>2, <3>4, <4>4, <4>5, <4>6, NumAddrsType DEF InputInv, NumAddrs
    <3>5. CASE kind = "batch"
      <4>1. input \in Seq(Packets) /\ Len(input) < u16_max /\ part \in Packets
        BY <3>1, <3>2, <3>5 DEF InputInv, Parts, MaxLen
      <4>2. u16_max \in Int
        <5>1. Base * Base \in Nat
          BY CodecAssumption
        <5> QED  BY <5>1 DEF u16_max
      <4> HIDE DEF Packets, u16_max
      <4>3. input' \in Seq(Packets) /\ Len(input') = Len(input) + 1 /\ Len(input) \in Nat
        BY <3>1, <4>1
      <4>4. Len(input') <= u16_max
        BY <4>1, <4>2, <4>3
      <4> QED  BY <3>2, <3>5, <4>2, <4>3, <4>4 DEF InputInv, u16_max
    <3>6. CASE kind = "bytes"
      <4>1. input \in Seq(Bytes) /\ part \in Bytes
        BY <3>1, <3>6 DEF InputInv, Parts
      <4> HIDE DEF Bytes
      <4>2. input' \in Seq(Bytes)
        BY <3>1, <4>1
      <4> QED  BY <3>2, <3>6, <4>2 DEF InputInv
    <3>7. CASE kind = "header"
      <4>1. input \in Seq(Word)
        BY <3>7 DEF InputInv
      <4>2. part \in {0, 1, 65535}
        BY <3>1, <3>7 DEF Parts
      <4>3. part \in Word
        BY <4>2, SMT DEF Word, WordMod
      <4> HIDE DEF Word
      <4>4. input' \in Seq(Word)
        BY <3>1, <4>1, <4>3
      <4> QED  BY <3>2, <3>7, <4>4 DEF InputInv
    <3> QED  BY <3>2, <3>3, <3>4, <3>5, <3>6, <3>7 DEF MaxLen
  <2>2. CASE UNCHANGED vars
    BY <2>2 DEF vars, InputInv
  <2> QED  BY <2>1, <2>2
<1> QED  BY <1>1, <1>2, PTL DEF Spec

LEMMA ElementOf ==
  ASSUME NEW S, NEW s \in Seq(S), NEW i \in 1..Len(s)
  PROVE  s[i] \in S
OBVIOUS

(* The packets of an input make a batch.                                   *)
LEMMA PacketsBatchable ==
  ASSUME NEW pkts \in Seq(Packets), Len(pkts) <= u16_max
  PROVE  Batchable(pkts)
<1>1. ASSUME NEW p \in Packets PROVE p \in Seq(Bytes) /\ Len(p) <= u16_max
  <2>1. PICK n \in 0..u16_max : p \in [1..n -> Bytes]
    BY DEF Packets
  <2>2. n \in Nat /\ n <= u16_max
    <3>1. u16_max \in Int
      <4>1. Base * Base \in Nat
        BY CodecAssumption
      <4> QED  BY <4>1 DEF u16_max
    <3> QED  BY <3>1
  <2> HIDE DEF Bytes
  <2>3. p \in Seq(Bytes) /\ Len(p) = n
    BY <2>1, <2>2
  <2> QED  BY <2>2, <2>3
<1> HIDE DEF Packets, Bytes
<1>2. pkts \in Seq(Seq(Bytes))
  BY <1>1
<1>3. \A k \in 1..Len(pkts) : Len(pkts[k]) <= u16_max
  <2>1. \A k \in 1..Len(pkts) : pkts[k] \in Packets
    OBVIOUS
  <2> QED  BY <1>1, <2>1
<1> QED  BY <1>2, <1>3 DEF Batchable

(* What is_public_ipv4 lets through is in no block the comment at p2p.rs   *)
(* 192 lists, although it looks at two octets only.                        *)
LEMMA PublicNotReserved ==
  ASSUME NEW o, is_public_ipv4(o)
  PROVE  ~ Reserved(o)
<1>1. o \in {<<192, 0, 0>>, <<192, 0, 2>>, <<198, 51, 100>>, <<203, 0, 113>>} =>
        \/ o[1] = 192 /\ o[2] = 0
        \/ o[1] = 198 /\ o[2] = 51
        \/ o[1] = 203 /\ o[2] = 0
  OBVIOUS
<1>2. o[1] \in 224..239 \/ o[1] \in 240..255 => o[1] \in 224..255
  OBVIOUS
<1> QED  BY <1>1, <1>2 DEF is_public_ipv4, Reserved

(* So no direct dial that Identify makes goes to one of those blocks, for  *)
(* an address of any length and any components that names one host: the    *)
(* host that is tested is the host that is dialed.                         *)
THEOREM ReservedNotDialed ==
  ASSUME NEW a, DOMAIN a = 1..Len(a), NamesOneIp(a),
         NEW t \in identify_target(a), ~ is_circuit(t),
         NEW i \in DOMAIN t, t[i].proto = "ip4"
  PROVE  ~ Reserved(t[i].val)
<1>1. NamesOne(a, "ip4")
  BY DEF NamesOneIp, NamesOne
<1>2. is_public_ipv4(t[i].val)
  BY <1>1, DialedIsPublic
<1> QED  BY <1>2, PublicNotReserved

(* The run's property of the addresses the run goes through.               *)
THEOREM NeverDialsReserved == Spec => []ReservedNeverDialed
<1>1. InputInv => ReservedNeverDialed
  <2> SUFFICES ASSUME InputInv, kind \in {"plain", "mixed"}, NamesOneIp(input),
                      NEW t \in identify_target(input), ~ is_circuit(t),
                      NEW i \in DOMAIN t, t[i].proto = "ip4"
               PROVE  ~ Reserved(t[i].val)
    BY DEF ReservedNeverDialed
  <2>1. DOMAIN input = 1..Len(input)
    <3>1. input \in Seq(Components)
      BY DEF InputInv
    <3> HIDE DEF Components
    <3> QED  BY <3>1
  <2> QED  BY <2>1, ReservedNotDialed
<1> QED  BY <1>1, InputsTyped, PTL

(* The run's property of the addresses the run goes through; of every      *)
(* address it is AnnouncedDialedUnchanged.                                 *)
THEOREM AnnouncedDialed == Spec => []AnnouncedIsDialed
<1>1. AnnouncedIsDialed
  BY AnnouncedDialedUnchanged DEF AnnouncedIsDialed
<1> QED  BY <1>1, PTL

(* The address a node derives is a host's, for every network and PeerId.   *)
THEOREM AlwaysHost == Spec => []DerivedIsHost
<1>1. InputInv => DerivedIsHost
  <2> SUFFICES ASSUME InputInv, kind = "net", Len(input) = 3
               PROVE  IsHost(AddrBits - input[2], Network(input[1], input[2]),
                             Broadcast(input[1], input[2]), input[3])
    BY DEF DerivedIsHost, Base4
  <2>1. input[1] \in 0..(NumAddrs - 1) /\ input[2] \in 0..AddrBits /\ input[3] \in Nat
    <3>1. input[1] \in 0..(NumAddrs - 1) /\ input[2] \in 0..AddrBits
      BY DEF InputInv
    <3>2. input \in Seq(Nat) /\ 3 \in 1..Len(input)
      BY DEF InputInv
    <3>3. input[3] \in Nat
      BY <3>2, ElementOf
    <3> QED  BY <3>1, <3>3
  <2>2. AddrBits - input[2] \in Int
    BY <2>1, AddrBitsAssumption
  <2> DEFINE base == Network(input[1], input[2])
             bcast == Broadcast(input[1], input[2])
  <2>3. base \in Nat /\ bcast \in Nat /\ base <= bcast
    BY <2>1, NetworkOf
  <2> HIDE DEF base, bcast
  <2>4. IsHost(AddrBits - input[2], base, bcast, input[3])
    BY <2>1, <2>2, <2>3, DerivedAddressIsHost
  <2> QED  BY <2>4 DEF base, bcast
<1> QED  BY <1>1, InputsTyped, PTL

(* And no host's address is out of reach.                                  *)
THEOREM HostsReached == Spec => []EveryHostDerived
<1>1. InputInv => EveryHostDerived
  <2> SUFFICES ASSUME InputInv, kind = "net", Len(input) = 2
               PROVE  AllHosts(AddrBits - input[2], Network(input[1], input[2]),
                               Broadcast(input[1], input[2]))
    BY DEF EveryHostDerived, Base4
  <2> DEFINE base == Network(input[1], input[2])
             bcast == Broadcast(input[1], input[2])
             bits == AddrBits - input[2]
  <2>1. input[1] \in 0..(NumAddrs - 1) /\ input[2] \in 0..AddrBits
    BY DEF InputInv
  <2>2. bits \in Int
    BY <2>1, AddrBitsAssumption
  <2>3. base \in Nat /\ bcast \in Nat /\ base <= bcast /\ bcast < NumAddrs
        /\ (bits >= 2 => bcast - base >= 3)
    BY <2>1, NetworkOf
  <2> HIDE DEF base, bcast, bits
  <2>4. CASE bits >= 2
    BY <2>2, <2>3, <2>4, EveryHostHasHash DEF base, bcast, bits
  <2>5. CASE bits < 2
    <3>1. \A h : derive(bits, base, bcast, h) = {}
      BY <2>5 DEF derive
    <3> QED  BY <2>5, <3>1 DEF AllHosts, base, bcast, bits
  <2> QED  BY <2>2, <2>4, <2>5
<1> QED  BY <1>1, InputsTyped, PTL

(* A batch is read as it was written, and cut short it gives the first of  *)
(* its packets, whole.                                                     *)
THEOREM BatchesReadBack == Spec => []BatchReadsAsWritten
<1>1. InputInv => BatchReadsAsWritten
  BY PacketsBatchable, BatchRead, CutBatchRead DEF InputInv, BatchReadsAsWritten
<1> QED  BY <1>1, InputsTyped, PTL

(* A request arrives whole or not at all, a batch or anything else.        *)
THEOREM RequestsWhole == Spec => []RequestWholeOrNot
<1>1. InputInv => RequestWholeOrNot
  <2>1. InputInv /\ kind = "batch" => Batch(input) \in Seq(Bytes)
    BY PacketsBatchable, BatchType DEF InputInv
  <2>2. InputInv /\ kind = "bytes" => input \in Seq(Bytes)
    BY DEF InputInv
  <2> QED  BY <2>1, <2>2, RequestRead DEF RequestWholeOrNot
<1> QED  BY <1>1, InputsTyped, PTL

(* No bytes lead the loop outside of them.                                 *)
THEOREM BytesStayInside == Spec => []AnyBytesStayInside
<1>1. InputInv => AnyBytesStayInside
  BY LoopStaysInside DEF InputInv, AnyBytesStayInside
<1> QED  BY <1>1, InputsTyped, PTL

(* The header of a fragment passes the receiver's test.                    *)
THEOREM HeadersVerify == Spec => []FragmentHeaderVerifies
<1>1. InputInv => FragmentHeaderVerifies
  <2> SUFFICES ASSUME InputInv, kind = "header", Len(input) = MaxLen.header
               PROVE  Verifies(WithChecksum(input))
    BY DEF FragmentHeaderVerifies
  <2>1. input \in Seq(Word) /\ Len(input) >= Checksum
    BY DEF InputInv, MaxLen, Checksum
  <2> QED  BY <2>1, ChecksumVerifies
<1> QED  BY <1>1, InputsTyped, PTL
=============================================================================
