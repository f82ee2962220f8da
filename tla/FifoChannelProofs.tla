-------------------------- MODULE FifoChannelProofs --------------------------
(***************************************************************************)
(* The order that the channel keeps, proved once for every queue that      *)
(* implements it.                                                          *)
(***************************************************************************)
EXTENDS FifoChannel, SequenceTheorems, TLAPS

(* Receiving a frame keeps the order: it is newer than everything held. *)
LEMMA ReceiveInOrder ==
    ASSUME ChanTypeOK, InOrder, Receive
    PROVE  ChanTypeOK' /\ InOrder'
<1> USE DEF ChanTypeOK, InOrder, Increasing, Receive
<1>1. arrived' \in Nat /\ 1 .. arrived \subseteq 1 .. arrived'
  OBVIOUS
<1>2. pending \in Seq(1 .. arrived') /\ out' \in Seq(1 .. arrived')
  BY <1>1
<1>3. CASE pending' = pending
  BY <1>1, <1>2, <1>3
<1>4. CASE pending' = Append(pending, arrived + 1)
  <2>1. Len(pending') = Len(pending) + 1 /\ pending'[Len(pending) + 1] = arrived + 1
        /\ \A i \in 1 .. Len(pending) : pending'[i] = pending[i]
    BY <1>4
  <2>2. pending' \in Seq(1 .. arrived')
    BY <1>1, <1>2, <1>4
  <2>3. \A i \in 1 .. Len(pending) : pending[i] \in 1 .. arrived
    OBVIOUS
  <2>4. \A i \in 1 .. Len(out) : out[i] \in 1 .. arrived
    OBVIOUS
  <2>5. Len(pending) \in Nat /\ arrived \in Nat
    OBVIOUS
  <2> DEFINE m == Len(pending)
  <2>6. \A j \in 1 .. m + 1 : j \in 1 .. m \/ j = m + 1
    BY <2>5
  <2>7. ASSUME NEW i \in 1 .. m + 1, NEW j \in 1 .. m + 1, i < j PROVE pending'[i] < pending'[j]
    <3>1. i \in 1 .. m
      BY <2>5, <2>7
    <3>2. CASE j \in 1 .. m
      BY <2>1, <2>7, <3>1, <3>2
    <3>3. CASE j = m + 1
      BY <2>1, <2>3, <2>5, <3>1, <3>3
    <3> QED BY <2>6, <3>2, <3>3
  <2>8. ASSUME NEW i \in 1 .. Len(out), NEW j \in 1 .. m + 1 PROVE out[i] < pending'[j]
    <3>1. CASE j \in 1 .. m
      BY <2>1, <3>1
    <3>2. CASE j = m + 1
      BY <2>1, <2>4, <2>5, <3>2
    <3> QED BY <2>6, <3>1, <3>2
  <2> QED BY <1>1, <1>2, <2>1, <2>2, <2>7, <2>8
<1> QED BY <1>3, <1>4

(* Passing up a prefix keeps the order. *)
LEMMA DeliverInOrder ==
    ASSUME ChanTypeOK, InOrder, Deliver
    PROVE  ChanTypeOK' /\ InOrder'
<1> PICK k \in 1 .. Len(pending) :
        /\ out' = out \o SubSeq(pending, 1, k)
        /\ pending' = SubSeq(pending, k + 1, Len(pending))
        /\ UNCHANGED arrived
  BY DEF Deliver
<1> DEFINE p == SubSeq(pending, 1, k)
           n == Len(out)
<1> USE DEF ChanTypeOK
<1>1. p \in Seq(1 .. arrived) /\ Len(p) = k /\ \A i \in 1 .. k : p[i] = pending[i]
  OBVIOUS
<1>2. pending' \in Seq(1 .. arrived) /\ Len(pending') = Len(pending) - k
      /\ \A i \in 1 .. Len(pending) - k : pending'[i] = pending[k + i]
  <2>1. Len(pending) \in Nat /\ k \in Nat /\ k <= Len(pending)
    OBVIOUS
  <2>2. pending' = SubSeq(pending, k + 1, Len(pending)) /\ pending \in Seq(1 .. arrived)
    OBVIOUS
  <2>3. pending' \in Seq(1 .. arrived)
    <3>1. \A i \in 1 .. Len(pending) : pending[i] \in 1 .. arrived
      BY <2>2
    <3>2. \A i \in k + 1 .. Len(pending) : i \in 1 .. Len(pending)
      BY <2>1
    <3>3. \A i \in k + 1 .. Len(pending) : pending[i] \in 1 .. arrived
      BY <3>1, <3>2, Zenon
    <3>4. SubSeq(pending, k + 1, Len(pending)) \in Seq(1 .. arrived)
      BY <2>1, <3>3, SubSeqProperties
    <3> QED BY <2>2, <3>4
  <2>4. Len(pending') = Len(pending) - k
    BY ONLY <2>1, <2>2
  <2>5. \A i \in 1 .. Len(pending) - k : pending'[i] = pending[k + i]
    BY ONLY <2>1, <2>2
  <2> QED BY <2>3, <2>4, <2>5
<1>3. out' \in Seq(1 .. arrived) /\ Len(out') = n + k
      /\ (\A i \in 1 .. n : out'[i] = out[i])
      /\ (\A i \in n + 1 .. n + k : out'[i] = pending[i - n])
  BY <1>1, SMTT(30)
<1>4. n \in Nat /\ Len(pending) \in Nat /\ k \in Nat /\ k <= Len(pending)
  OBVIOUS
<1>5. \A i, j \in 1 .. Len(pending) : i < j => pending[i] < pending[j]
  BY DEF InOrder, Increasing
<1>6. \A i, j \in 1 .. n : i < j => out[i] < out[j]
  BY DEF InOrder, Increasing
<1>7. \A i \in 1 .. n, j \in 1 .. Len(pending) : out[i] < pending[j]
  BY DEF InOrder
<1> HIDE DEF ChanTypeOK
<1>8. Increasing(out')
  <2> SUFFICES ASSUME NEW i \in 1 .. n + k, NEW j \in 1 .. n + k, i < j PROVE out'[i] < out'[j]
    BY <1>3 DEF Increasing
  <2>1. CASE j \in 1 .. n
    BY <1>3, <1>4, <1>6, <2>1
  <2>2. CASE i \in 1 .. n /\ j \in n + 1 .. n + k
    <3>1. j - n \in 1 .. Len(pending)
      BY <1>4, <2>2
    <3> QED BY <1>3, <1>7, <2>2, <3>1
  <2>3. CASE i \in n + 1 .. n + k /\ j \in n + 1 .. n + k
    <3>1. i - n \in 1 .. Len(pending) /\ j - n \in 1 .. Len(pending) /\ i - n < j - n
      BY <1>4, <2>3
    <3> QED BY <1>3, <1>5, <2>3, <3>1
  <2> QED BY <1>4, <2>1, <2>2, <2>3
<1>9. Increasing(pending')
  BY <1>2, <1>4, <1>5 DEF Increasing
<1>10. \A i \in 1 .. Len(out'), j \in 1 .. Len(pending') : out'[i] < pending'[j]
  <2> SUFFICES ASSUME NEW i \in 1 .. n + k, NEW j \in 1 .. Len(pending) - k
               PROVE  out'[i] < pending'[j]
    BY <1>2, <1>3
  <2>1. k + j \in 1 .. Len(pending) /\ pending'[j] = pending[k + j]
    <3>1. k + j \in 1 .. Len(pending)
      BY <1>4
    <3>2. pending'[j] = pending[k + j]
      BY ONLY <1>2
    <3> QED BY <3>1, <3>2
  <2>2. CASE i \in 1 .. n
    BY <1>3, <1>7, <2>1, <2>2
  <2>3. CASE i \in n + 1 .. n + k
    <3>1. i - n \in 1 .. Len(pending) /\ i - n < k + j
      BY <1>4, <2>3
    <3> QED BY <1>3, <1>5, <2>1, <2>3, <3>1
  <2> QED BY <1>4, <2>2, <2>3
<1>11. ChanTypeOK'
  BY <1>2, <1>3 DEF ChanTypeOK
<1> QED BY <1>8, <1>9, <1>10, <1>11 DEF InOrder

(* The channel never repeats, invents or reorders a frame: what is passed *)
(* up and then held is strictly increasing, in every behaviour.           *)
THEOREM ChannelInOrder == Spec => [](ChanTypeOK /\ InOrder)
<1>1. Init => ChanTypeOK /\ InOrder
  BY DEF Init, ChanTypeOK, InOrder, Increasing
<1>2. ChanTypeOK /\ InOrder /\ [Next]_chan => (ChanTypeOK /\ InOrder)'
  <2> SUFFICES ASSUME ChanTypeOK, InOrder, [Next]_chan PROVE (ChanTypeOK /\ InOrder)'
    OBVIOUS
  <2>1. CASE Receive
    BY <2>1, ReceiveInOrder
  <2>2. CASE Deliver
    BY <2>2, DeliverInOrder
  <2>3. CASE Discard
    BY <2>3 DEF Discard, ChanTypeOK, InOrder, Increasing
  <2>4. CASE UNCHANGED chan
    BY <2>4 DEF chan, ChanTypeOK, InOrder, Increasing
  <2> QED BY <2>1, <2>2, <2>3, <2>4 DEF Next
<1> QED BY <1>1, <1>2, PTL DEF Spec

==============================================================================
