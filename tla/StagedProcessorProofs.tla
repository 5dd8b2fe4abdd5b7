------------------------ MODULE StagedProcessorProofs ------------------------
(***************************************************************************)
(* Proofs about SpscQueue, for every capacity, set of items and bound, and *)
(* about StagedProcessor: for every capacity of the ring, every set of     *)
(* event kinds and every number of calls.                                  *)
(***************************************************************************)
EXTENDS StagedProcessor, TLAPS

\* A position on the ring stays on the ring.
LEMMA RingType ==
    ASSUME NEW i \in Index, NEW j \in Index, NEW k \in 0..Capacity
    PROVE  /\ Advance(i) \in Index
           /\ Distance(i, j) \in Index
           /\ Shift(i, k) \in Index
  BY CapacityAssumption DEF Index, Advance, Distance, Shift

\* A load returns an index between the one seen last and the newest: it is on the
\* ring, and the way to the newest one leads over it.
LEMMA VisibleLiesBetween ==
    ASSUME NEW seen \in Index, NEW newest \in Index, NEW i \in Visible(seen, newest)
    PROVE  /\ i \in Index
           /\ Distance(seen, newest) = Distance(seen, i) + Distance(i, newest)
  <1>1. PICK k \in 0..Distance(seen, newest) : i = Shift(seen, k)
    BY DEF Visible
  <1> QED
    BY <1>1, CapacityAssumption DEF Index, Distance, Shift

\* The way from a to c on the ring leads over b.
Between(a, b, c) == Distance(a, c) = Distance(a, b) + Distance(b, c)

\* On the way from a over b to c: it still leads over b from any x before b, and it
\* leads over any x after b.
LEMMA BetweenChains ==
    ASSUME NEW a \in Index, NEW b \in Index, NEW c \in Index, NEW x \in Index,
           Between(a, b, c)
    PROVE  /\ Between(a, x, b) => Between(x, b, c)
           /\ Between(b, x, c) => Between(a, x, c)
  BY CapacityAssumption DEF Index, Between, Distance

\* Moving the far end of a way one slot on lengthens it, unless that closes the
\* ring; moving the near end shortens it, unless it is empty.
LEMMA AdvanceDistance ==
    ASSUME NEW a \in Index, NEW b \in Index
    PROVE  /\ Advance(b) # a => Distance(a, Advance(b)) = Distance(a, b) + 1
           /\ a # b => Distance(Advance(a), b) = Distance(a, b) - 1
           /\ a # b <=> Distance(a, b) > 0
           /\ Advance(b) # a <=> Distance(a, b) < Capacity - 1
  BY CapacityAssumption DEF Index, Distance, Advance

\* Shifting an index along the way to another one.
LEMMA ShiftAlong ==
    ASSUME NEW a \in Index, NEW b \in Index
    PROVE  /\ Shift(a, Distance(a, b)) = b
           /\ \A k \in Nat : k < Distance(a, b) => Shift(a, k) \in Index /\ Shift(a, k) # b
           /\ \A k \in Nat : k + 1 < Capacity =>
                 /\ Shift(Advance(a), k) = Shift(a, k + 1)
                 /\ Shift(a, k + 1) # a
  BY CapacityAssumption DEF Index, Distance, Advance, Shift

\* The initial state satisfies the invariant.
LEMMA QueueInvInit == QueueInit => QueueInv
  <1> SUFFICES ASSUME QueueInit PROVE QueueInv
    OBVIOUS
  <1>1. QueueTypeOK
    BY CapacityAssumption DEF QueueInit, QueueTypeOK, Index
  <1>2. Stored = 0
    BY DEF QueueInit, Stored
  <1>3. Distance(head, tail) = 0 /\ IndicesInOrder
    BY CapacityAssumption DEF QueueInit, IndicesInOrder, Distance
  <1>4. FifoDelivery
    BY DEF QueueInit, FifoDelivery
  <1> QED
    BY <1>1, <1>2, <1>3, <1>4 DEF QueueInit, QueueInv

\* The indices of a state of the invariant, in terms of ways on the ring.
LEMMA IndexFacts ==
    ASSUME QueueInv
    PROVE  /\ head \in Index /\ tail \in Index /\ headSeen \in Index /\ tailSeen \in Index
           /\ First \in Index
           /\ Between(headSeen, head, tail) /\ Between(head, tailSeen, tail)
           /\ cpc # "idle" => Distance(head, tail) > 0
           /\ ppc # "idle" => Distance(head, tail) < Capacity - 1
           /\ Stored \in Nat /\ Stored = Distance(First, tail)
           /\ Distance(head, tail) \in Nat
  <1>1. head \in Index /\ tail \in Index /\ headSeen \in Index /\ tailSeen \in Index
    BY DEF QueueInv, QueueTypeOK
  <1>2. Between(headSeen, head, tail) /\ Between(head, tailSeen, tail)
    BY DEF QueueInv, IndicesInOrder, Between
  <1>3. /\ Distance(head, tail) \in Index /\ Distance(tailSeen, tail) \in Index
        /\ Distance(headSeen, head) \in Index /\ Distance(head, tailSeen) \in Index
        /\ Advance(head) \in Index
    BY <1>1, RingType, CapacityAssumption DEF Index
  <1>4. cpc # "idle" => Distance(head, tail) > 0
    BY <1>1, <1>2, <1>3, AdvanceDistance DEF QueueInv, IndicesInOrder, Between, Index
  <1>5. ppc # "idle" => Distance(head, tail) < Capacity - 1
    BY <1>1, <1>2, <1>3, AdvanceDistance, CapacityAssumption, SMTT(20)
       DEF QueueInv, IndicesInOrder, Between, Index
  <1>6. Distance(head, tail) = Stored + (IF cpc = "free" THEN 1 ELSE 0) /\ Stored \in Int
    BY DEF QueueInv, QueueTypeOK, Stored
  <1>7. CASE cpc = "free"
    <2>1. head # tail
      BY <1>1, <1>4, <1>7, AdvanceDistance
    <2>2. Distance(First, tail) = Distance(head, tail) - 1
      BY <1>1, <1>7, <2>1, AdvanceDistance DEF First
    <2> QED
      BY <1>1, <1>2, <1>3, <1>4, <1>5, <1>6, <1>7, <2>2, CapacityAssumption DEF First, Index
  <1>8. CASE cpc # "free"
    BY <1>1, <1>2, <1>3, <1>4, <1>5, <1>6, <1>8, CapacityAssumption DEF First, Index
  <1> QED
    BY <1>7, <1>8

\* Every step of the producer and of the consumer preserves the invariant.
LEMMA QueueInvNext == QueueInv /\ [QueueNext]_queueVars => QueueInv'
  <1> SUFFICES ASSUME QueueInv, [QueueNext]_queueVars PROVE QueueInv'
    OBVIOUS
  <1> USE CapacityAssumption, NoItemAssumption, IndexFacts
  <1>t. QueueTypeOK
    BY DEF QueueInv
  <1>s. /\ Distance(head, tail) = Stored + (IF cpc = "free" THEN 1 ELSE 0)
        /\ FifoDelivery /\ Stored = Len(sent) - Len(received)
        /\ \A k \in 0..Stored - 1 : buffer[Shift(First, k)] = sent[Len(received) + 1 + k]
    BY DEF QueueInv, Stored
  <1>1. ASSUME NEW item \in Item, Offer(item) PROVE QueueInv'
    BY <1>1 DEF Offer, QueueInv, QueueTypeOK, IndicesInOrder, FifoDelivery, Stored, First
  <1>2. CASE EnqueueLoad
    <2>1. headSeen' \in Index /\ Between(headSeen, headSeen', head)
      BY <1>2, VisibleLiesBetween DEF EnqueueLoad, Between
    <2>2. Between(headSeen', head, tail)
      BY <2>1, BetweenChains
    <2>3. IndicesInOrder'
      BY <1>2, <2>2 DEF EnqueueLoad, QueueInv, IndicesInOrder, Between
    <2> QED
      BY <1>2, <2>1, <2>3
         DEF EnqueueLoad, QueueInv, QueueTypeOK, FifoDelivery, Stored, First
  <1>3. CASE EnqueueWrite
    <2>1. QueueTypeOK' /\ IndicesInOrder' /\ Stored' = Stored /\ First' = First /\ FifoDelivery'
      BY <1>3 DEF EnqueueWrite, QueueInv, QueueTypeOK, IndicesInOrder, Stored, First, FifoDelivery
    <2>2. \A k \in 0..Stored - 1 : Shift(First, k) # tail /\ Shift(First, k) \in Index
      BY ShiftAlong
    <2>3. \A i \in Index : i # tail => buffer'[i] = buffer[i]
      BY <1>3, <1>t DEF EnqueueWrite, QueueTypeOK
    <2>4. \A k \in 0..Stored' - 1 : buffer'[Shift(First, k)'] = sent'[Len(received') + 1 + k]
      <3>1. /\ sent' = sent /\ received' = received /\ Stored' = Stored
            /\ \A k : Shift(First, k)' = Shift(First, k)
        BY <1>3, <2>1 DEF EnqueueWrite, Shift
      <3>2. \A k \in 0..Stored - 1 : buffer'[Shift(First, k)] = buffer[Shift(First, k)]
        BY <2>2, <2>3, Zenon
      <3>3. \A k \in 0..Stored - 1 : buffer[Shift(First, k)] = sent[Len(received) + 1 + k]
        BY <1>s
      <3> QED
        BY <3>1, <3>2, <3>3, Zenon
    <2>5. buffer'[tail] = pending
      BY <1>3, <1>t DEF EnqueueWrite, QueueTypeOK
    <2> QED
      BY <1>3, <2>1, <2>4, <2>5 DEF EnqueueWrite, QueueInv, QueueTypeOK, Shift
  <1>4. CASE EnqueuePublish
    <2>0. pending \in Item /\ tail' = Advance(tail)
      BY <1>4 DEF EnqueuePublish, QueueInv, QueueTypeOK
    <2>1. QueueTypeOK'
      <3>1. tail' \in Index
        BY <2>0, RingType
      <3>2. sent' \in Seq(Item)
        BY <1>4, <1>t, <2>0 DEF EnqueuePublish, QueueTypeOK
      <3> QED
        BY <1>4, <1>t, <3>1, <3>2 DEF EnqueuePublish, QueueTypeOK
    <2>2. Stored' = Stored + 1 /\ First' = First
      BY <1>4, <1>t, <2>0 DEF EnqueuePublish, Stored, First, QueueTypeOK
    <2>3. Advance(tail) # headSeen /\ Advance(tail) # head
      BY <1>4, AdvanceDistance DEF EnqueuePublish, QueueInv, IndicesInOrder
    <2>4. /\ Distance(head, tail') = Distance(head, tail) + 1
          /\ Distance(headSeen, tail') = Distance(headSeen, tail) + 1
      BY <2>0, <2>3, AdvanceDistance
    <2>5. Between(headSeen, head, tail') /\ Between(head, tailSeen, tail')
      <3>1. Distance(headSeen, head) \in Nat /\ Distance(head, tailSeen) \in Nat
            /\ Distance(tailSeen, tail) \in Nat
        BY RingType DEF Index
      <3>2. Advance(tail) # tailSeen
        BY <1>4, <3>1, AdvanceDistance DEF EnqueuePublish, Between
      <3>3. Distance(tailSeen, tail') = Distance(tailSeen, tail) + 1
        BY <2>0, <3>2, AdvanceDistance
      <3> QED
        BY <2>4, <3>1, <3>3 DEF Between
    <2>6. IndicesInOrder' /\ Distance(head, tail)' = Distance(head, tail) + 1
      BY <1>4, <2>4, <2>5 DEF EnqueuePublish, QueueInv, IndicesInOrder, Between
    <2>7. FifoDelivery'
      BY <1>4, <1>t, <1>s, <2>0 DEF EnqueuePublish, FifoDelivery, QueueTypeOK
    <2>8. Shift(First, Stored) = tail
      BY ShiftAlong
    <2>9. ASSUME NEW k \in 0..Stored' - 1
          PROVE  buffer'[Shift(First', k)] = sent'[Len(received') + 1 + k]
      <3>1. CASE k = Stored
        <4>1. sent'[Len(sent) + 1] = pending
          BY <1>4, <1>t, <2>0 DEF EnqueuePublish, QueueTypeOK
        <4>2. buffer'[tail] = pending
          BY <1>4 DEF EnqueuePublish, QueueInv
        <4> QED
          BY <1>4, <1>t, <1>s, <2>2, <2>8, <3>1, <4>1, <4>2 DEF EnqueuePublish, QueueTypeOK
      <3>2. CASE k # Stored
        <4>1. k \in 0..Stored - 1 /\ Len(received) + 1 + k \in 1..Len(sent)
          BY <1>t, <1>s, <2>2, <3>2 DEF QueueTypeOK
        <4>2. sent'[Len(received) + 1 + k] = sent[Len(received) + 1 + k]
          BY <1>4, <1>t, <2>0, <4>1 DEF EnqueuePublish, QueueTypeOK
        <4> QED
          BY <1>4, <1>s, <2>2, <4>1, <4>2, Zenon DEF EnqueuePublish
      <3> QED
        BY <3>1, <3>2
    <2>10. Distance(head, tail)' = Stored' + (IF cpc' = "free" THEN 1 ELSE 0)
      BY <1>4, <1>s, <2>2, <2>6 DEF EnqueuePublish
    <2> QED
      BY <1>4, <2>1, <2>6, <2>7, <2>9, <2>10, Zenon DEF EnqueuePublish, QueueInv, Shift
  <1>5. CASE GiveUp
    BY <1>5 DEF GiveUp, QueueInv, QueueTypeOK, IndicesInOrder, FifoDelivery, Stored, First
  <1>6. CASE DequeueLoad
    <2>1. tailSeen' \in Index /\ Between(tailSeen, tailSeen', tail)
      BY <1>6, VisibleLiesBetween DEF DequeueLoad, Between
    <2>2. Between(head, tailSeen', tail)
      BY <2>1, BetweenChains
    <2>3. IndicesInOrder'
      BY <1>6, <2>2 DEF DequeueLoad, QueueInv, IndicesInOrder, Between
    <2> QED
      BY <1>6, <2>1, <2>3
         DEF DequeueLoad, QueueInv, QueueTypeOK, FifoDelivery, Stored, First
  <1>7. CASE DequeueRead
    <2>1. First = head /\ Stored >= 1
      BY <1>7, <1>s DEF DequeueRead, First
    <2>2. Shift(First, 0) = head
      BY <2>1 DEF Shift, Index
    <2>3. buffer[head] = sent[Len(received) + 1] /\ Len(received) + 1 \in 1..Len(sent)
      BY <1>s, <1>t, <2>1, <2>2 DEF QueueTypeOK
    <2>4. buffer[head] \in Item
      BY <1>t, <2>3 DEF QueueTypeOK
    <2>5. QueueTypeOK'
      BY <1>7, <1>t, <2>4 DEF DequeueRead, QueueTypeOK
    <2>6. IndicesInOrder'
      BY <1>7 DEF DequeueRead, QueueInv, IndicesInOrder
    <2>7. Stored' = Stored - 1 /\ First' = Advance(head) /\ Len(received') = Len(received) + 1
      BY <1>7, <1>t, <2>4 DEF DequeueRead, Stored, First, QueueTypeOK
    <2>8. FifoDelivery'
      BY <1>7, <1>t, <1>s, <2>3, <2>4 DEF DequeueRead, FifoDelivery, QueueTypeOK
    <2>9. ASSUME NEW k \in 0..Stored' - 1
          PROVE  buffer'[Shift(First', k)] = sent'[Len(received') + 1 + k]
      <3>1. k + 1 < Distance(First, tail) /\ Distance(First, tail) \in Index /\ k \in Nat
        BY <2>7, RingType
      <3>2. Shift(First', k) = Shift(head, k + 1) /\ Shift(head, k + 1) # head
            /\ Shift(head, k + 1) \in Index
        <4>1. head \in Index /\ tail \in Index
          BY <1>t DEF QueueTypeOK
        <4>2. k + 1 \in Nat /\ k + 1 < Distance(head, tail)
          BY <2>1, <3>1
        <4>3. k + 1 < Capacity
          BY <2>1, <3>1, <4>2 DEF Index
        <4>4. Shift(head, k + 1) \in Index
          BY <4>1, <4>2, ShiftAlong, Zenon
        <4>5. Shift(Advance(head), k) = Shift(head, k + 1) /\ Shift(head, k + 1) # head
          BY <3>1, <4>1, <4>3, ShiftAlong, Zenon
        <4> QED
          BY <2>7, <4>4, <4>5, Zenon
      <3>3. buffer[Shift(head, k + 1)] = sent[Len(received) + 1 + (k + 1)]
        BY <1>s, <2>1, <2>7
      <3>4. buffer'[Shift(head, k + 1)] = buffer[Shift(head, k + 1)]
        BY <1>7, <1>t, <3>2 DEF DequeueRead, QueueTypeOK
      <3>5. Len(received') + 1 + k = Len(received) + 1 + (k + 1)
        BY <1>t, <2>7, <3>1 DEF QueueTypeOK
      <3> QED
        BY <1>7, <3>2, <3>3, <3>4, <3>5 DEF DequeueRead
    <2>10. ppc' = "publish" => buffer'[tail'] = pending'
      <3>1. head # tail
        BY <1>7, <1>s, <2>1, AdvanceDistance DEF DequeueRead
      <3> QED
        BY <1>7, <1>t, <3>1 DEF DequeueRead, QueueInv, QueueTypeOK
    <2>11. Distance(head, tail)' = Stored' + (IF cpc' = "free" THEN 1 ELSE 0)
      BY <1>7, <1>s, <2>7 DEF DequeueRead, Distance
    <2> QED
      BY <1>7, <2>5, <2>6, <2>8, <2>9, <2>10, <2>11 DEF DequeueRead, QueueInv, Shift
  <1>8. CASE DequeueFree
    <2>1. QueueTypeOK'
      BY <1>8, <1>t, RingType DEF DequeueFree, QueueTypeOK
    <2>2. Stored' = Stored /\ First' = First
      BY <1>8 DEF DequeueFree, Stored, First
    <2>3. head # tail /\ head # tailSeen
      BY <1>8, AdvanceDistance DEF DequeueFree, QueueInv, IndicesInOrder
    <2>4. /\ Distance(head', tail) = Distance(head, tail) - 1
          /\ Distance(head', tailSeen) = Distance(head, tailSeen) - 1
      BY <1>8, <2>3, AdvanceDistance DEF DequeueFree
    <2>5. Distance(headSeen, head') = Distance(headSeen, head) + 1
      <3>1. Distance(headSeen, head) < Capacity - 1
        BY <1>8, RingType DEF DequeueFree, Between, Index
      <3> QED
        BY <1>8, <3>1, AdvanceDistance DEF DequeueFree
    <2>6. Between(headSeen, head', tail) /\ Between(head', tailSeen, tail)
      BY <2>4, <2>5, RingType DEF Between, Index
    <2>7. IndicesInOrder'
      BY <1>8, <2>6 DEF DequeueFree, QueueInv, IndicesInOrder, Between
    <2>8. Distance(head, tail)' = Distance(head, tail) - 1
      BY <1>8, <2>4 DEF DequeueFree
    <2>9. /\ sent' = sent /\ received' = received /\ buffer' = buffer
          /\ ppc' = ppc /\ pending' = pending /\ tail' = tail /\ cpc = "free" /\ cpc' = "idle"
      BY <1>8 DEF DequeueFree
    <2>10. FifoDelivery'
      BY <1>s, <2>9 DEF FifoDelivery
    <2>11. \A k \in 0..Stored' - 1 : buffer'[Shift(First, k)'] = sent'[Len(received') + 1 + k]
      BY <1>s, <2>2, <2>9, Zenon DEF Shift
    <2>12. Distance(head, tail)' = Stored' + (IF cpc' = "free" THEN 1 ELSE 0)
      <3>1. Stored \in Int /\ Distance(head, tail) = Stored + 1
        BY <1>s, <1>t, <2>9 DEF QueueTypeOK
      <3> QED
        BY <2>2, <2>8, <2>9, <3>1
    <2> QED
      BY <2>1, <2>7, <2>9, <2>10, <2>11, <2>12 DEF QueueInv
  <1>9. CASE UNCHANGED queueVars
    BY <1>9 DEF queueVars, QueueInv, QueueTypeOK, IndicesInOrder, FifoDelivery, Stored, First
  <1> QED
    BY <1>1, <1>2, <1>3, <1>4, <1>5, <1>6, <1>7, <1>8, <1>9 DEF QueueNext

\* The inductive invariant holds in every reachable state.
THEOREM QueueInvariance == QueueSpec => []QueueInv
  BY QueueInvInit, QueueInvNext, PTL DEF QueueSpec

\* The variables of the queue keep their types.
THEOREM QueueTypeCorrect == QueueSpec => []QueueTypeOK
  BY QueueInvariance, PTL DEF QueueInv

\* The consumer receives what the producer published, in order, for every capacity
\* and however stale the indices are on which the two threads decide.
THEOREM QueueFifoDelivery == QueueSpec => []FifoDelivery
  BY QueueInvariance, PTL DEF QueueInv

\* Producer and consumer never work on the same slot at the same time.
THEOREM QueueNoSlotRace == QueueSpec => []NoSlotRace
  <1>1. QueueInv => NoSlotRace
    BY IndexFacts, AdvanceDistance DEF NoSlotRace
  <1> QED
    BY <1>1, QueueInvariance, PTL

\* size(), empty() and full() are exact when both threads are idle.
THEOREM QueueSizeIsExact == QueueSpec => []SizeIsExact
  <1>1. QueueInv => SizeIsExact
    <2> SUFFICES ASSUME QueueInv, ppc = "idle", cpc = "idle"
                 PROVE  /\ Size = Len(sent) - Len(received)
                        /\ Size <= Capacity - 1
                        /\ Empty <=> Len(sent) = Len(received)
                        /\ Full <=> Len(sent) - Len(received) = Capacity - 1
      BY DEF SizeIsExact
    <2>1. Distance(head, tail) = Len(sent) - Len(received)
      BY DEF QueueInv, Stored
    <2>2. Distance(head, tail) \in Index
      BY IndexFacts, RingType, CapacityAssumption
    <2>3. Len(sent) \in Nat /\ Len(received) \in Nat
      BY DEF QueueInv, QueueTypeOK
    <2>4. /\ head # tail <=> Distance(head, tail) > 0
          /\ Advance(tail) # head <=> Distance(head, tail) < Capacity - 1
      BY IndexFacts, AdvanceDistance
    <2> QED
      BY <2>1, <2>2, <2>3, <2>4, CapacityAssumption DEF Size, Empty, Full, Index
  <1> QED
    BY <1>1, QueueInvariance, PTL

-----------------------------------------------------------------------------
\* The ring holds the items that were published and not yet received.
ContentsAreUnreceived ==
    /\ Contents \in Seq(Item)
    /\ Len(Contents) = Stored
    /\ Stored \in 0..Capacity - 1
    /\ Contents = [k \in 1..Stored |-> sent[Len(received) + k]]

\* In a state of the invariant the refinement mapping yields those items.
LEMMA ContentsOfInv == QueueInv => ContentsAreUnreceived
  <1> SUFFICES ASSUME QueueInv PROVE ContentsAreUnreceived
    OBVIOUS
  <1>1. Stored \in Nat /\ sent \in Seq(Item) /\ received \in Seq(Item)
    BY IndexFacts DEF QueueInv, QueueTypeOK
  <1>2. ASSUME NEW k \in 1..Stored
        PROVE  Contents[k] = sent[Len(received) + k] /\ sent[Len(received) + k] \in Item
    <2>1. buffer[Shift(First, k - 1)] = sent[Len(received) + 1 + (k - 1)]
      BY <1>1 DEF QueueInv
    <2>2. Len(received) + 1 + (k - 1) = Len(received) + k /\ Len(received) + k \in 1..Len(sent)
      BY <1>1 DEF Stored
    <2> QED
      BY <1>1, <2>1, <2>2, SMTT(20) DEF Contents
  <1>3. Contents = [k \in 1..Stored |-> sent[Len(received) + k]]
    BY <1>2 DEF Contents
  <1>4. Stored \in 0..Capacity - 1
    BY IndexFacts, RingType, CapacityAssumption DEF Index
  <1> QED
    BY <1>1, <1>2, <1>3, <1>4 DEF ContentsAreUnreceived

\* The ring buffer implements the bounded FIFO, for every capacity: publishing is
\* Put, reading is Take, and every other step of the two threads is invisible.
THEOREM QueueImplementsBoundedFifo == QueueSpec => ImplementsBoundedFifo
  <1>1. QueueInit => Fifo!FifoInit
    <2> SUFFICES ASSUME QueueInit PROVE Fifo!FifoInit
      OBVIOUS
    <2>1. Stored = 0
      BY DEF QueueInit, Stored
    <2> QED
      BY <2>1 DEF QueueInit, Fifo!FifoInit, Contents
  <1>2. QueueInv /\ QueueInv' /\ [QueueNext]_queueVars => [Fifo!FifoNext]_<<Contents, out>>
    <2> SUFFICES ASSUME QueueInv, QueueInv', [QueueNext]_queueVars
                 PROVE  [Fifo!FifoNext]_<<Contents, out>>
      OBVIOUS
    <2>1. ContentsAreUnreceived /\ ContentsAreUnreceived'
      BY ContentsOfInv, PTL
    <2>2. CASE EnqueuePublish
      <3>1. pending \in Item /\ sent \in Seq(Item) /\ received \in Seq(Item)
        BY <2>2 DEF EnqueuePublish, QueueInv, QueueTypeOK
      <3>2. Stored' = Stored + 1 /\ sent' = Append(sent, pending) /\ received' = received
        BY <2>2, <3>1 DEF EnqueuePublish, Stored
      <3>3. Stored < Capacity - 1 /\ Stored = Len(sent) - Len(received) /\ Stored \in Nat
        BY <2>1, <3>2, CapacityAssumption DEF ContentsAreUnreceived, Stored
      <3>4. ASSUME NEW k \in 1..Stored + 1
            PROVE  Contents'[k] = Append(Contents, pending)[k]
        <4>1. Contents'[k] = sent'[Len(received) + k]
          BY <2>1, <3>2, <3>3, Zenon DEF ContentsAreUnreceived
        <4>2. CASE k = Stored + 1
          BY <2>1, <3>1, <3>2, <3>3, <4>1, <4>2 DEF ContentsAreUnreceived
        <4>3. CASE k # Stored + 1
          BY <2>1, <3>1, <3>2, <3>3, <4>1, <4>3 DEF ContentsAreUnreceived
        <4> QED
          BY <4>2, <4>3, Zenon
      <3>5. Contents' = Append(Contents, pending)
        <4>1. Contents' \in Seq(Item) /\ Len(Contents') = Stored + 1
          BY <2>1, <3>2, Zenon DEF ContentsAreUnreceived
        <4>2. Append(Contents, pending) \in Seq(Item) /\ Len(Append(Contents, pending)) = Stored + 1
          BY <2>1, <3>1 DEF ContentsAreUnreceived
        <4> QED
          BY <3>4, <4>1, <4>2
      <3> QED
        BY <2>1, <2>2, <3>1, <3>3, <3>5, Zenon
           DEF EnqueuePublish, ContentsAreUnreceived, Fifo!FifoNext, Fifo!Put
    <2>3. CASE DequeueRead
      <3>1. sent \in Seq(Item) /\ received \in Seq(Item) /\ First = head /\ Stored >= 1
        <4>1. sent \in Seq(Item) /\ received \in Seq(Item)
          BY DEF QueueInv, QueueTypeOK
        <4>2. First = head
          BY <2>3 DEF DequeueRead, First
        <4>3. Stored >= 1
          <5>1. cpc = "read"
            BY <2>3 DEF DequeueRead
          <5>2. Distance(head, tail) > 0 /\ Stored = Distance(head, tail) /\ Stored \in Nat
            BY <4>2, <5>1, IndexFacts, Zenon
          <5> QED
            BY <5>2
        <4> QED
          BY <4>1, <4>2, <4>3
      <3>2. Contents[1] = buffer[head]
        <4>1. Shift(head, 0) = head
          BY IndexFacts, CapacityAssumption DEF Shift, Index
        <4> QED
          BY <3>1, <4>1 DEF Contents
      <3>3. Stored' = Stored - 1 /\ sent' = sent /\ Len(received') = Len(received) + 1
        BY <2>3, <3>1 DEF DequeueRead, Stored
      <3>4. \A k \in 1..Stored - 1 : Contents'[k] = Contents[k + 1]
        BY <2>1, <3>1, <3>3 DEF ContentsAreUnreceived, Stored
      <3>5. Contents' = Tail(Contents)
        BY <2>1, <3>3, <3>4 DEF ContentsAreUnreceived
      <3>6. Contents # <<>> /\ Head(Contents) = Contents[1]
        <4>1. Contents \in Seq(Item) /\ Len(Contents) >= 1
          BY <2>1, <3>1 DEF ContentsAreUnreceived
        <4> QED
          BY <4>1
      <3>7. out' = buffer[head]
        BY <2>3 DEF DequeueRead
      <3> QED
        BY <3>2, <3>5, <3>6, <3>7 DEF Fifo!FifoNext, Fifo!Take
    <2>4. CASE UNCHANGED <<sent, received, out>>
      BY <2>1, <2>4 DEF ContentsAreUnreceived, Stored
    <2> QED
      BY <2>2, <2>3, <2>4
         DEF QueueNext, Offer, EnqueueLoad, EnqueueWrite, GiveUp, DequeueLoad, DequeueFree, queueVars
  <1> QED
    BY <1>1, <1>2, QueueInvariance, PTL DEF QueueSpec, ImplementsBoundedFifo, Fifo!FifoSpec

-----------------------------------------------------------------------------
(***************************************************************************)
(* The processor and its threads.                                          *)
(***************************************************************************)
\* A client's event is not the Shutdown event, and both can be enqueued.
LEMMA EventFacts ==
    /\ Shutdown \in Item
    /\ Shutdown.kind = "Shutdown"
    /\ Event \subseteq Item
    /\ \A event \in Event : event.kind # "Shutdown" /\ event.sequence \in 1..MaxItems
  BY EventAssumption, KindsAssumption DEF Shutdown, Event

\* The event an enqueue*() call builds.
LEMMA CallEvent ==
    ASSUME TypeOK, NEW kind \in Kinds, EnqueueCall(kind)
    PROVE  /\ pending' \in Event
           /\ calls' = Append(calls, pending')
           /\ Offer(pending')
  <1> DEFINE event == [kind |-> kind, sequence |-> Len(calls) + 1]
  <1>1. Len(calls) \in Nat /\ Len(calls) + 1 < MaxItems
    BY DEF TypeOK, EnqueueCall
  <1>2. event \in Event
    BY <1>1, MaxItemsAssumption DEF Event
  <1>3. Offer(event) /\ calls' = Append(calls, event)
    BY DEF EnqueueCall
  <1>4. pending' = event
    BY <1>3 DEF Offer
  <1> QED
    BY <1>2, <1>3, <1>4

\* A step of the processor is a step of its ring buffer or leaves it alone.
LEMMA ProcessorDrivesQueue == TypeOK /\ [Next]_vars => [QueueNext]_queueVars
  <1> SUFFICES ASSUME TypeOK, [Next]_vars PROVE [QueueNext]_queueVars
    OBVIOUS
  <1>1. CASE \E kind \in Kinds : EnqueueCall(kind)
    <2>1. PICK kind \in Kinds : EnqueueCall(kind)
      BY <1>1
    <2>2. pending' \in Item /\ Offer(pending')
      BY <2>1, CallEvent, EventFacts
    <2> QED
      BY <2>2 DEF QueueNext
  <1>2. CASE StopCall
    BY <1>2, EventFacts DEF StopCall, QueueNext
  <1>3. CASE Spin
    BY <1>3 DEF Spin, QueueNext
  <1>4. CASE EnqueueReturns
    BY <1>4 DEF EnqueueReturns, QueueNext
  <1>5. CASE Poll
    BY <1>5 DEF Poll, QueueNext
  <1>6. CASE Dequeued
    BY <1>6 DEF Dequeued, QueueNext
  <1>7. CASE UNCHANGED queueVars
    BY <1>7
  <1> QED
    BY <1>1, <1>2, <1>3, <1>4, <1>5, <1>6, <1>7
    DEF Next, CallerStep, ConsumerStep, Start, Join, Apply, RecordApplied, vars

\* What the places of the two threads say about each other: an event that is taken
\* out was published, so it stands in the script; only its last one ends the loop.
LEMMA ScriptFacts ==
    ASSUME ProcessorInv
    PROVE  /\ Len(calls) \in Nat /\ Len(sent) \in Nat /\ Len(received) \in Nat
           /\ Len(registryOps) \in Nat
           /\ Len(received) <= Len(sent)
           /\ Script \in Seq(Item)
           /\ Len(Script) = Len(calls) + 1
           /\ \A i \in 1..Len(calls) : Script[i] = calls[i] /\ Script[i] \in Event
           /\ Script[Len(calls) + 1] = Shutdown
           /\ \A i \in 1..Len(received) : received[i] = Script[i]
  <1>1. calls \in Seq(Event) /\ sent \in Seq(Item) /\ received \in Seq(Item)
        /\ registryOps \in Seq(Event)
    BY DEF ProcessorInv, TypeOK, QueueTypeOK
  <1>2. calls \in Seq(Item) /\ Shutdown \in Item
    BY <1>1, EventFacts
  <1>3. FifoDelivery
    BY DEF ProcessorInv, QueueInv
  <1>4. \A i \in 1..Len(sent) : sent[i] = Script[i]
    BY DEF ProcessorInv, CallerPlace
  <1>5. \A i \in 1..Len(calls) : Script[i] = calls[i] /\ Script[i] \in Event
    BY <1>1, <1>2 DEF Script
  <1>6. Script \in Seq(Item) /\ Len(Script) = Len(calls) + 1
        /\ Script[Len(calls) + 1] = Shutdown
    BY <1>2 DEF Script
  <1>7. \A i \in 1..Len(received) : received[i] = Script[i]
    BY <1>1, <1>3, <1>4 DEF FifoDelivery
  <1> QED
    BY <1>1, <1>3, <1>5, <1>6, <1>7 DEF FifoDelivery

\* The initial state satisfies the invariant.
LEMMA ProcessorInvInit == Init => ProcessorInv
  <1> SUFFICES ASSUME Init PROVE ProcessorInv
    OBVIOUS
  <1>1. QueueInv
    BY QueueInvInit DEF Init
  <1>2. TypeOK
    BY <1>1 DEF QueueInv, TypeOK, Init
  <1>3. CallerPlace
    BY DEF CallerPlace, Init, QueueInit
  <1>4. ConsumerPlace
    BY DEF ConsumerPlace, Init, QueueInit
  <1> QED
    BY <1>1, <1>2, <1>3, <1>4 DEF ProcessorInv, Init

\* A step keeps the types of the processor's own variables.
LEMMA TypeOKNext == ProcessorInv /\ [Next]_vars => TypeOK'
  <1> SUFFICES ASSUME ProcessorInv, [Next]_vars PROVE TypeOK'
    OBVIOUS
  <1>1. TypeOK /\ QueueInv
    BY DEF ProcessorInv
  <1>2. QueueTypeOK'
    BY <1>1, ProcessorDrivesQueue, QueueInvNext DEF QueueInv
  <1>3. CASE \E kind \in Kinds : EnqueueCall(kind)
    <2>1. PICK kind \in Kinds : EnqueueCall(kind)
      BY <1>3
    <2>2. calls' \in Seq(Event)
      <3>1. pending' \in Event /\ calls' = Append(calls, pending')
        BY <1>1, <2>1, CallEvent
      <3>2. calls \in Seq(Event)
        BY <1>1 DEF TypeOK
      <3> QED
        BY <3>1, <3>2
    <2> QED
      BY <1>1, <1>2, <2>1, <2>2 DEF TypeOK, EnqueueCall
  <1>4. CASE Apply
    <2>1. Len(received) \in 1..Len(calls) /\ out = Script[Len(received)]
      <3>1. ConsumerPlace /\ thread = "apply"
        BY <1>4 DEF ProcessorInv, Apply
      <3> QED
        BY <3>1, ScriptFacts DEF ConsumerPlace
    <2>2. out \in Event
      BY <2>1, ScriptFacts, Zenon
    <2> QED
      BY <1>1, <1>2, <1>4, <2>2 DEF TypeOK, Apply
  <1>5. CASE RecordApplied
    <2>1. out \in Event
      BY <1>5, ScriptFacts DEF ProcessorInv, ConsumerPlace, RecordApplied
    <2>2. out.sequence \in 1..MaxItems
      BY <2>1, EventFacts
    <2> QED
      BY <1>1, <1>2, <1>5, <2>2 DEF TypeOK, RecordApplied
  <1>6. CASE UNCHANGED <<calls, registryOps, applied>> /\ caller' \in {caller, "ready", "stop", "join", "joined"}
             /\ thread' \in {thread, "dequeue", "apply", "exited"}
    BY <1>1, <1>2, <1>6 DEF TypeOK
  <1> QED
    BY <1>3, <1>4, <1>5, <1>6
    DEF Next, CallerStep, ConsumerStep, Start, StopCall, Spin, EnqueueReturns, Join, Poll,
        Dequeued, processorVars, vars

\* A step keeps the caller's place in the script.
LEMMA CallerPlaceNext == ProcessorInv /\ [Next]_vars => CallerPlace'
  <1> SUFFICES ASSUME ProcessorInv, [Next]_vars PROVE CallerPlace'
    OBVIOUS
  <1>1. calls \in Seq(Event) /\ sent \in Seq(Item) /\ CallerPlace
        /\ caller \in {"new", "ready", "enqueue", "stop", "join", "joined"}
    BY DEF ProcessorInv, TypeOK, QueueTypeOK
  <1>2. CASE UNCHANGED <<sent, calls, pending, caller>>
    BY <1>1, <1>2 DEF CallerPlace, Script
  <1>3. CASE Start \/ Join
    BY <1>1, <1>3 DEF CallerPlace, Script, Start, Join, queueVars
  <1>4. CASE \E kind \in Kinds : EnqueueCall(kind)
    <2>1. PICK kind \in Kinds : EnqueueCall(kind)
      BY <1>4
    <2>2. pending' \in Event /\ calls' = Append(calls, pending') /\ Offer(pending')
      BY <2>1, CallEvent DEF ProcessorInv
    <2>3. caller = "ready" /\ caller' = "enqueue" /\ sent' = sent
      BY <2>1, <2>2 DEF EnqueueCall, Offer
    <2>4. Len(sent) = Len(calls) /\ \A i \in 1..Len(sent) : sent[i] = calls[i]
      BY <1>1, <2>3, ScriptFacts DEF CallerPlace
    <2>5. /\ Len(calls') = Len(calls) + 1
          /\ calls'[Len(calls) + 1] = pending'
          /\ \A i \in 1..Len(calls) : calls'[i] = calls[i]
          /\ calls' \in Seq(Event)
      <3>1. calls \in Seq(Event) /\ pending' \in Event /\ calls' = Append(calls, pending')
        BY <1>1, <2>2
      <3> QED
        BY <3>1
    <2>6. \A i \in 1..Len(calls) + 1 : Script'[i] = calls'[i]
      <3>1. Script' = Append(calls', Shutdown) /\ Shutdown \in Item /\ calls' \in Seq(Item)
        BY <2>5, EventFacts DEF Script
      <3>2. Len(calls') = Len(calls) + 1
        BY <2>5
      <3> QED
        BY <3>1, <3>2
    <2>7. /\ Len(sent') = Len(calls') - 1
          /\ \A i \in 1..Len(sent') : sent'[i] = Script'[i]
          /\ pending' = Script'[Len(sent') + 1]
      BY <1>1, <2>3, <2>4, <2>5, <2>6
    <2> QED
      BY <2>3, <2>7 DEF CallerPlace
  <1>5. CASE StopCall
    <2>1. caller = "ready" /\ caller' = "stop" /\ sent' = sent /\ calls' = calls
          /\ pending' = Shutdown
      BY <1>5 DEF StopCall, Offer
    <2>2. Len(sent) = Len(calls) /\ Script' = Script
      BY <1>1, <2>1 DEF CallerPlace, Script
    <2> QED
      BY <1>1, <2>1, <2>2, ScriptFacts DEF CallerPlace
  <1>6. CASE EnqueueReturns
    <2>1. /\ caller \in {"enqueue", "stop"}
          /\ caller' = IF caller = "stop" THEN "join" ELSE "ready"
          /\ calls' = calls
          /\ sent' = Append(sent, pending)
          /\ pending' = NoItem
      BY <1>6 DEF EnqueueReturns, EnqueuePublish
    <2>2. Script' = Script
      BY <2>1 DEF Script
    <2>3. pending = Script[Len(sent) + 1] /\ pending \in Item
      BY <1>1, <2>1, ScriptFacts DEF CallerPlace
    <2>4. Len(sent') = Len(sent) + 1 /\ \A i \in 1..Len(sent') : sent'[i] = Script[i]
      BY <1>1, <2>1, <2>3 DEF CallerPlace
    <2>5. Len(sent) = IF caller = "stop" THEN Len(calls) ELSE Len(calls) - 1
      BY <1>1, <2>1 DEF CallerPlace
    <2>6. Len(sent') = IF caller' = "join" THEN Len(calls) + 1 ELSE Len(calls)
      BY <2>1, <2>4, <2>5, ScriptFacts
    <2> QED
      BY <2>1, <2>2, <2>4, <2>6 DEF CallerPlace
  <1> QED
    BY <1>2, <1>3, <1>4, <1>5, <1>6
    DEF Next, CallerStep, ConsumerStep, Spin, Poll, Dequeued, Apply, RecordApplied,
        EnqueueLoad, EnqueueWrite, DequeueLoad, DequeueRead, DequeueFree, processorVars,
        queueVars, vars

\* A step keeps the consumer's place in the script.
LEMMA ConsumerPlaceNext == ProcessorInv /\ [Next]_vars => ConsumerPlace'
  <1> SUFFICES ASSUME ProcessorInv, [Next]_vars PROVE ConsumerPlace'
    OBVIOUS
  <1>1. calls \in Seq(Event) /\ sent \in Seq(Item) /\ received \in Seq(Item)
        /\ registryOps \in Seq(Event) /\ applied \in Seq(1..MaxItems)
        /\ cpc \in {"idle", "read", "free"}
        /\ thread \in {"none", "dequeue", "apply", "record", "exited"}
    BY DEF ProcessorInv, TypeOK, QueueTypeOK
  <1>2. ConsumerPlace /\ CallerPlace
    BY DEF ProcessorInv
  <1>3. CASE /\ UNCHANGED <<calls, received, registryOps, applied, out, cpc, thread>>
             /\ thread = "exited" => caller' \in {"join", "joined"}
    BY <1>2, <1>3 DEF ConsumerPlace, Script
  <1>4. CASE Start
    <2>1. thread = "none" /\ thread' = "dequeue"
          /\ UNCHANGED <<calls, received, registryOps, applied, out, cpc>>
      BY <1>4 DEF ProcessorInv, Start, queueVars
    <2> QED
      BY <1>2, <2>1 DEF ConsumerPlace, Script
  <1>5. CASE \E kind \in Kinds : EnqueueCall(kind)
    <2>1. PICK kind \in Kinds : EnqueueCall(kind)
      BY <1>5
    <2>2. pending' \in Event /\ calls' = Append(calls, pending') /\ Offer(pending')
      BY <2>1, CallEvent DEF ProcessorInv
    <2>3. caller = "ready" /\ UNCHANGED <<received, registryOps, applied, out, cpc, thread>>
      BY <2>1, <2>2 DEF EnqueueCall, Offer
    <2>4. Len(received) <= Len(calls)
      BY <1>2, <2>3, ScriptFacts DEF CallerPlace
    <2>5. /\ Len(calls') = Len(calls) + 1
          /\ calls' \in Seq(Event)
          /\ \A i \in 1..Len(calls) : calls'[i] = calls[i]
      BY <1>1, <2>2
    <2>6. \A i \in 1..Len(calls) : Script'[i] = Script[i]
      BY <1>1, <2>5, EventFacts DEF Script
    <2>7. thread # "exited"
      BY <1>2, <2>3 DEF ConsumerPlace
    <2>8. /\ \A i \in 1..Len(registryOps) : registryOps[i] = calls'[i]
          /\ Len(registryOps) <= Len(calls')
      BY <1>1, <1>2, <2>5 DEF ConsumerPlace
    <2>9. Len(applied) <= Len(registryOps)
      BY <1>1, <1>2 DEF ConsumerPlace
    <2>10. \A i \in 1..Len(applied) : applied[i] = calls'[i].sequence
      <3>1. \A i \in 1..Len(applied) : i \in 1..Len(calls)
        BY <1>1, <1>2, <2>9 DEF ConsumerPlace
      <3> QED
        BY <1>2, <2>5, <3>1 DEF ConsumerPlace
    <2>11. cpc = "free" \/ thread \in {"apply", "record"} => Len(received) >= 1
      BY <1>1, <1>2 DEF ConsumerPlace
    <2>12. cpc = "free" \/ thread \in {"apply", "record"} => out = Script'[Len(received)]
      BY <1>1, <1>2, <2>4, <2>6, <2>11, SMTT(20) DEF ConsumerPlace
    <2>13. Len(calls) <= Len(calls')
      BY <2>5, ScriptFacts
    <2>14. thread = "apply" => Len(received) <= Len(calls')
      BY <2>4, <2>13, <2>5, ScriptFacts
    <2> QED
      BY <1>2, <2>3, <2>7, <2>8, <2>10, <2>12, <2>14 DEF ConsumerPlace
  <1>6. CASE thread = "dequeue" /\ DequeueLoad /\ UNCHANGED processorVars
    BY <1>2, <1>6 DEF ConsumerPlace, Script, DequeueLoad, processorVars
  <1>7. CASE thread = "dequeue" /\ DequeueRead /\ UNCHANGED processorVars
    <2>1. /\ cpc = "read" /\ cpc' = "free"
          /\ out' = buffer[head] /\ received' = Append(received, out')
          /\ UNCHANGED <<sent, calls, registryOps, applied, thread, caller>>
      BY <1>7 DEF DequeueRead, processorVars
    <2>2. QueueInv'
      BY ProcessorDrivesQueue, QueueInvNext DEF ProcessorInv
    <2>3. out' \in Item /\ Len(received') = Len(received) + 1
          /\ received'[Len(received) + 1] = out'
      <3>1. out' \in Item
        BY <2>1, <2>2 DEF QueueInv, QueueTypeOK
      <3> QED
        BY <1>1, <2>1, <3>1
    <2>4. Len(received') <= Len(sent) /\ received'[Len(received) + 1] = sent[Len(received) + 1]
      BY <1>1, <2>1, <2>2, <2>3 DEF QueueInv, FifoDelivery
    <2>5. out' = Script[Len(received')]
      BY <1>1, <1>2, <2>3, <2>4 DEF CallerPlace
    <2>6. Script' = Script
      BY <2>1 DEF Script
    <2> QED
      BY <1>2, <1>7, <2>1, <2>3, <2>5, <2>6 DEF ConsumerPlace
  <1>8. CASE Dequeued
    <2>1. /\ thread = "dequeue" /\ cpc = "free" /\ cpc' = "idle"
          /\ thread' = IF out.kind = "Shutdown" THEN "exited" ELSE "apply"
          /\ UNCHANGED <<received, out, calls, registryOps, applied, caller>>
      BY <1>8 DEF Dequeued, DequeueFree
    <2>2. out = Script[Len(received)] /\ Len(received) = Len(registryOps) + 1
      BY <1>2, <2>1 DEF ConsumerPlace
    <2>3. Len(received) \in 1..Len(calls) + 1
      BY <1>2, <2>2, ScriptFacts DEF ConsumerPlace
    <2>4. CASE Len(received) <= Len(calls)
      <3>1. thread' = "apply"
        BY <2>1, <2>2, <2>3, <2>4, ScriptFacts, EventFacts
      <3> QED
        BY <1>2, <2>1, <2>2, <2>4, <3>1 DEF ConsumerPlace, Script
    <2>5. CASE Len(received) = Len(calls) + 1
      <3>1. thread' = "exited"
        BY <2>1, <2>2, <2>5, ScriptFacts, EventFacts
      <3>2. caller \in {"join", "joined"}
        BY <1>1, <1>2, <2>5, ScriptFacts DEF CallerPlace
      <3> QED
        <4>1. Script' = Script
          BY <2>1 DEF Script
        <4>2. Len(registryOps) = Len(calls)
          BY <1>1, <2>2, <2>5
        <4> QED
          BY <1>2, <2>1, <2>2, <3>1, <3>2, <4>1, <4>2 DEF ConsumerPlace
    <2> QED
      BY <2>3, <2>4, <2>5, ScriptFacts
  <1>9. CASE Apply
    <2>1. /\ thread = "apply" /\ thread' = "record"
          /\ registryOps' = Append(registryOps, out)
          /\ UNCHANGED <<received, out, cpc, calls, applied, caller>>
      BY <1>9 DEF Apply, queueVars
    <2>2. Len(received) = Len(registryOps) + 1 /\ Len(received) <= Len(calls) /\ cpc = "idle"
          /\ out = Script[Len(received)]
      BY <1>1, <1>2, <2>1 DEF ConsumerPlace
    <2>3. out = calls[Len(received)] /\ out \in Event
      BY <2>2, ScriptFacts
    <2>4. Len(registryOps') = Len(received) /\ \A i \in 1..Len(registryOps') : registryOps'[i] = calls[i]
      <3>1. Len(registryOps') = Len(registryOps) + 1 /\ registryOps'[Len(registryOps) + 1] = out
            /\ \A i \in 1..Len(registryOps) : registryOps'[i] = registryOps[i]
        BY <1>1, <2>1, <2>3
      <3>2. \A i \in 1..Len(registryOps) : registryOps[i] = calls[i]
        BY <1>2 DEF ConsumerPlace
      <3> QED
        BY <1>1, <2>2, <2>3, <3>1, <3>2, SMTT(20)
    <2>5. Script' = Script
      BY <2>1 DEF Script
    <2> QED
      BY <1>1, <1>2, <2>1, <2>2, <2>4, <2>5, SMTT(20) DEF ConsumerPlace
  <1>10. CASE RecordApplied
    <2>1. /\ thread = "record" /\ thread' = "dequeue"
          /\ applied' = Append(applied, out.sequence)
          /\ UNCHANGED <<received, out, cpc, calls, registryOps, caller>>
      BY <1>10 DEF RecordApplied, queueVars
    <2>2. /\ Len(received) = Len(registryOps) /\ Len(registryOps) <= Len(calls)
          /\ Len(registryOps) = Len(applied) + 1 /\ cpc = "idle"
          /\ out = Script[Len(received)]
      <3>1. cpc = "idle"
        BY <1>1, <1>2, <2>1 DEF ConsumerPlace
      <3>2. Len(received) = Len(registryOps) + 0 /\ Len(applied) = Len(registryOps) - 1
            /\ Len(registryOps) <= Len(calls) /\ out = Script[Len(received)]
        BY <1>2, <2>1, <3>1 DEF ConsumerPlace
      <3> QED
        BY <1>1, <3>1, <3>2
    <2>3. out = calls[Len(applied) + 1] /\ out.sequence \in 1..MaxItems
      BY <1>1, <2>2, ScriptFacts, EventFacts
    <2>4. Len(applied') = Len(registryOps) /\ \A i \in 1..Len(applied') : applied'[i] = calls[i].sequence
      <3>1. Len(applied') = Len(applied) + 1 /\ applied'[Len(applied) + 1] = out.sequence
            /\ \A i \in 1..Len(applied) : applied'[i] = applied[i]
        BY <1>1, <2>1, <2>3
      <3>2. \A i \in 1..Len(applied) : applied[i] = calls[i].sequence
        BY <1>2 DEF ConsumerPlace
      <3> QED
        BY <1>1, <2>2, <2>3, <3>1, <3>2, SMTT(20)
    <2>5. Script' = Script
      BY <2>1 DEF Script
    <2> QED
      <3>1. thread' = "dequeue" /\ cpc' = "idle" /\ Len(received') = Len(registryOps') + 0
            /\ Len(applied') = Len(registryOps') - 0 /\ Len(registryOps') <= Len(calls')
        BY <1>1, <2>1, <2>2, <2>4
      <3>2. /\ \A i \in 1..Len(registryOps') : registryOps'[i] = calls'[i]
            /\ \A i \in 1..Len(applied') : applied'[i] = calls'[i].sequence
        BY <1>2, <2>1, <2>4 DEF ConsumerPlace
      <3> QED
        BY <3>1, <3>2 DEF ConsumerPlace
  <1>11. thread = "exited" => caller \in {"join", "joined"}
    BY <1>2 DEF ConsumerPlace
  <1>12. CASE StopCall \/ Spin \/ EnqueueReturns \/ Join \/ UNCHANGED vars
    BY <1>3, <1>11, <1>12
    DEF StopCall, Spin, EnqueueReturns, Join, Offer, EnqueueLoad, EnqueueWrite,
        EnqueuePublish, processorVars, queueVars, vars
  <1> QED
    BY <1>4, <1>5, <1>6, <1>7, <1>8, <1>9, <1>10, <1>12
    DEF Next, CallerStep, ConsumerStep, Poll

\* A step keeps the invariant.
LEMMA ProcessorInvNext == ProcessorInv /\ [Next]_vars => ProcessorInv'
  <1> SUFFICES ASSUME ProcessorInv, [Next]_vars PROVE ProcessorInv'
    OBVIOUS
  <1>1. QueueInv'
    BY ProcessorDrivesQueue, QueueInvNext DEF ProcessorInv
  <1>2. (caller = "new" <=> thread = "none") /\ (caller = "joined" => thread = "exited")
    BY DEF ProcessorInv
  <1>3. /\ caller' = "new" <=> thread' = "none"
        /\ caller' = "joined" => thread' = "exited"
    BY <1>2, Zenon
    DEF Next, CallerStep, ConsumerStep, Start, EnqueueCall, StopCall, Spin, EnqueueReturns,
        Join, Poll, Dequeued, Apply, RecordApplied, processorVars, vars
  <1> QED
    BY <1>1, <1>3, TypeOKNext, CallerPlaceNext, ConsumerPlaceNext DEF ProcessorInv

\* The threads are always where the script of the run says.
THEOREM ProcessorInvariance == Spec => []ProcessorInv
  BY ProcessorInvInit, ProcessorInvNext, PTL DEF Spec

\* Types: every variable of the pipeline keeps its type.
THEOREM ProcessorTypeCorrect == Spec => []TypeOK
  <1>1. ProcessorInv => TypeOK
    BY DEF ProcessorInv
  <1> QED
    BY <1>1, ProcessorInvariance, PTL

\* The consumer thread applies the events in the order of the enqueue*() calls,
\* each exactly once, however the two threads interleave.
THEOREM ProcessorAppliesInOrder == Spec => []AppliedInOrder
  <1>1. ProcessorInv => AppliedInOrder
    <2> SUFFICES ASSUME ProcessorInv PROVE AppliedInOrder
      OBVIOUS
    <2>1. ConsumerPlace /\ applied \in Seq(1..MaxItems) /\ registryOps \in Seq(Event)
      BY DEF ProcessorInv, TypeOK
    <2>2. Len(applied) = Len(registryOps) - (IF thread = "record" THEN 1 ELSE 0)
      BY <2>1 DEF ConsumerPlace
    <2>3. Len(applied) <= Len(registryOps)
      BY <2>1, <2>2
    <2>4. /\ Len(registryOps) <= Len(calls)
          /\ \A i \in 1..Len(registryOps) : registryOps[i] = calls[i]
          /\ \A i \in 1..Len(applied) : applied[i] = calls[i].sequence
      BY <2>1 DEF ConsumerPlace
    <2> QED
      BY <2>3, <2>4, Zenon DEF AppliedInOrder
  <1> QED
    BY <1>1, ProcessorInvariance, PTL

\* Once stop() has returned, everything enqueued before it has been applied.
THEOREM ProcessorLosesNothing == Spec => []NothingLostAtStop
  <1>1. ProcessorInv => NothingLostAtStop
    <2> SUFFICES ASSUME ProcessorInv, caller = "joined" PROVE NothingLostAtStop
      BY DEF NothingLostAtStop
    <2>1. ConsumerPlace /\ thread = "exited" /\ calls \in Seq(Event) /\ registryOps \in Seq(Event)
      BY DEF ProcessorInv, TypeOK
    <2>2. Len(registryOps) = Len(calls) /\ \A i \in 1..Len(registryOps) : registryOps[i] = calls[i]
      BY <2>1 DEF ConsumerPlace
    <2>3. registryOps = calls
      BY <2>1, <2>2
    <2>4. Len(applied) = Len(calls)
      <3>1. thread # "record"
        BY <2>1
      <3>2. Len(applied) = Len(registryOps) - 0 /\ Len(registryOps) \in Nat
        BY <2>1, <3>1 DEF ConsumerPlace
      <3> QED
        BY <2>2, <3>2
    <2> QED
      BY <2>1, <2>3, <2>4 DEF NothingLostAtStop
  <1> QED
    BY <1>1, ProcessorInvariance, PTL
=============================================================================
