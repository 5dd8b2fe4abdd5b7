------------------------------ MODULE SpscQueue ------------------------------
(***************************************************************************)
(* SpscQueue<T, Capacity>: the lock-free ring buffer between one producer  *)
(* and one consumer thread.                                                *)
(*                                                                         *)
(* Every access to shared memory is a step of its own.  An index is        *)
(* written by one thread only, which reads its own index exactly (the      *)
(* relaxed loads); a load of the other thread's index may return any value *)
(* that index has had since the value this thread saw last, because an     *)
(* acquire load need not return the newest store.  Seeing a value makes    *)
(* the writes before its release store visible, so the slots need no       *)
(* stale copies.                                                           *)
(*                                                                         *)
(* sent and received are history variables: what has been published and    *)
(* what has been taken out, in order.                                      *)
(***************************************************************************)
EXTENDS Integers, Sequences

CONSTANTS Capacity,  \* number of slots, a power of two in the code
          Item,      \* what can be enqueued
          NoItem,    \* an empty or moved-from object
          MaxItems   \* bound on the number of items offered

ASSUME CapacityAssumption == Capacity \in Nat /\ Capacity >= 2
ASSUME NoItemAssumption == NoItem \notin Item
ASSUME MaxItemsAssumption == MaxItems \in Nat

Index == 0..Capacity - 1

VARIABLES
    buffer,    \* the slots
    head,      \* next slot to read; stored by the consumer
    tail,      \* next slot to write; stored by the producer
    ppc,       \* the producer: "idle", "write", "publish"
    pending,   \* the item of the running try_enqueue
    headSeen,  \* the value of head the producer loaded last
    cpc,       \* the consumer: "idle", "read", "free"
    tailSeen,  \* the value of tail the consumer loaded last
    out,       \* the object try_dequeue has moved an item into
    sent,
    received

queueVars == <<buffer, head, tail, ppc, pending, headSeen, cpc, tailSeen, out, sent, received>>

QueueInit ==
    /\ buffer = [i \in Index |-> NoItem]
    /\ head = 0
    /\ tail = 0
    /\ ppc = "idle"
    /\ pending = NoItem
    /\ headSeen = 0
    /\ cpc = "idle"
    /\ tailSeen = 0
    /\ out = NoItem
    /\ sent = <<>>
    /\ received = <<>>

\* advance(): (index + 1) & kMask, which wraps because Capacity is a power of two.
Advance(i) == IF i + 1 = Capacity THEN 0 ELSE i + 1

\* (to - from) & kMask: how far apart two indices are on the ring.
Distance(from, to) == IF to >= from THEN to - from ELSE to - from + Capacity

\* The index k slots after i.
Shift(i, k) == IF i + k >= Capacity THEN i + k - Capacity ELSE i + k

\* The values a load of an index can return: from the one seen last to the newest.
Visible(seen, newest) == {Shift(seen, k) : k \in 0..Distance(seen, newest)}

-----------------------------------------------------------------------------
\* The producer has an item to enqueue.
Offer(item) ==
    /\ ppc = "idle"
    /\ pending = NoItem
    /\ Len(sent) < MaxItems
    /\ pending' = item
    /\ UNCHANGED <<buffer, head, tail, ppc, headSeen, cpc, tailSeen, out, sent, received>>

\* Mutant: no check for a full ring.
EnqueueLoad_NoFullCheck ==
    /\ ppc = "idle"
    /\ pending # NoItem
    /\ headSeen' \in Visible(headSeen, head)
    /\ ppc' = "write"
    /\ UNCHANGED <<buffer, head, tail, pending, cpc, tailSeen, out, sent, received>>

\* try_enqueue, to the load of head_: false if the ring looks full, and the item
\* has not been moved from.
EnqueueLoad ==
    /\ ppc = "idle"
    /\ pending # NoItem
    /\ headSeen' \in Visible(headSeen, head)
    /\ ppc' = IF Advance(tail) = headSeen' THEN "idle" ELSE "write"
    /\ UNCHANGED <<buffer, head, tail, pending, cpc, tailSeen, out, sent, received>>

\* buffer_[tail] = std::move(item).
EnqueueWrite ==
    /\ ppc = "write"
    /\ buffer' = [buffer EXCEPT ![tail] = pending]
    /\ ppc' = "publish"
    /\ UNCHANGED <<head, tail, pending, headSeen, cpc, tailSeen, out, sent, received>>

\* tail_.store(next, release); try_enqueue returns true.
EnqueuePublish ==
    /\ ppc = "publish"
    /\ tail' = Advance(tail)
    /\ ppc' = "idle"
    /\ sent' = Append(sent, pending)
    /\ pending' = NoItem
    /\ UNCHANGED <<buffer, head, headSeen, cpc, tailSeen, out, received>>

\* The caller of a try_enqueue that failed may drop the item.
GiveUp ==
    /\ ppc = "idle"
    /\ pending # NoItem
    /\ pending' = NoItem
    /\ UNCHANGED <<buffer, head, tail, ppc, headSeen, cpc, tailSeen, out, sent, received>>

\* Mutant: no check for an empty ring.
DequeueLoad_NoEmptyCheck ==
    /\ cpc = "idle"
    /\ tailSeen' \in Visible(tailSeen, tail)
    /\ cpc' = "read"
    /\ UNCHANGED <<buffer, head, tail, ppc, pending, headSeen, out, sent, received>>

\* Mutant: the last item of the ring is not seen.
DequeueLoad_KeepOne ==
    /\ cpc = "idle"
    /\ tailSeen' \in Visible(tailSeen, tail)
    /\ cpc' = IF tailSeen' \in {head, Advance(head)} THEN "idle" ELSE "read"
    /\ UNCHANGED <<buffer, head, tail, ppc, pending, headSeen, out, sent, received>>

\* try_dequeue, to the load of tail_: false if the ring looks empty.
DequeueLoad ==
    /\ cpc = "idle"
    /\ tailSeen' \in Visible(tailSeen, tail)
    /\ cpc' = IF head = tailSeen' THEN "idle" ELSE "read"
    /\ UNCHANGED <<buffer, head, tail, ppc, pending, headSeen, out, sent, received>>

\* out = std::move(buffer_[head]).
DequeueRead ==
    /\ cpc = "read"
    /\ out' = buffer[head]
    /\ buffer' = [buffer EXCEPT ![head] = NoItem]
    /\ received' = Append(received, buffer[head])
    /\ cpc' = "free"
    /\ UNCHANGED <<head, tail, ppc, pending, headSeen, tailSeen, sent>>

\* head_.store(advance(head), release); try_dequeue returns true.
DequeueFree ==
    /\ cpc = "free"
    /\ head' = Advance(head)
    /\ cpc' = "idle"
    /\ UNCHANGED <<buffer, tail, ppc, pending, headSeen, tailSeen, out, sent, received>>

QueueNext ==
    \/ \E item \in Item : Offer(item)
    \/ EnqueueLoad
    \/ EnqueueWrite
    \/ EnqueuePublish
    \/ GiveUp
    \/ DequeueLoad
    \/ DequeueRead
    \/ DequeueFree

QueueSpec == QueueInit /\ [][QueueNext]_queueVars

-----------------------------------------------------------------------------
\* size(), empty() and full() when both threads are idle.
Size == Distance(head, tail)
Empty == head = tail
Full == Advance(tail) = head

\* Every variable has its type.
QueueTypeOK ==
    /\ buffer \in [Index -> Item \cup {NoItem}]
    /\ head \in Index
    /\ tail \in Index
    /\ ppc \in {"idle", "write", "publish"}
    /\ pending \in Item \cup {NoItem}
    /\ headSeen \in Index
    /\ cpc \in {"idle", "read", "free"}
    /\ tailSeen \in Index
    /\ out \in Item \cup {NoItem}
    /\ sent \in Seq(Item)
    /\ received \in Seq(Item)

\* The consumer receives exactly what was published, in that order: nothing is
\* lost, duplicated, reordered or read before it was written, whatever stale
\* indices the two threads act on.
FifoDelivery ==
    /\ Len(received) <= Len(sent)
    /\ \A i \in 1..Len(received) : received[i] = sent[i]

\* The two threads never touch the same slot at the same time: the producer's slot
\* is not one the consumer is about to move from, although each decided on an
\* index of the other that may have been stale.
NoSlotRace == ~(ppc = "write" /\ cpc = "read" /\ head = tail)

\* size(), empty() and full() tell how many items are in the ring: one slot always
\* stays free, so a full ring is not taken for an empty one ("usable cap =
\* Capacity - 1").
SizeIsExact ==
    ppc = "idle" /\ cpc = "idle" =>
        /\ Size = Len(sent) - Len(received)
        /\ Size <= Capacity - 1
        /\ Empty <=> Len(sent) = Len(received)
        /\ Full <=> Len(sent) - Len(received) = Capacity - 1

-----------------------------------------------------------------------------
(***************************************************************************)
(* The inductive invariant behind these properties.  On the ring, starting *)
(* from the stale head of the producer, the indices come in the order      *)
(* headSeen, head, tailSeen, tail and span less than a lap.                *)
(***************************************************************************)
\* Items that are published and not yet taken out.
Stored == Len(sent) - Len(received)

\* The slot of the oldest of them: between the read and the release of a slot the
\* consumer's index still names the slot it has emptied.
First == IF cpc = "free" THEN Advance(head) ELSE head

IndicesInOrder ==
    /\ Distance(headSeen, tail) = Distance(headSeen, head) + Distance(head, tail)
    /\ Distance(head, tail) = Distance(head, tailSeen) + Distance(tailSeen, tail)
    /\ cpc # "idle" => head # tailSeen
    /\ ppc # "idle" => Advance(tail) # headSeen

\* The occupied slots hold what was published and not yet received, oldest first,
\* and both threads know of every slot they are working on.
QueueInv ==
    /\ QueueTypeOK
    /\ IndicesInOrder
    /\ Distance(head, tail) = Stored + (IF cpc = "free" THEN 1 ELSE 0)
    /\ ppc # "idle" => pending # NoItem
    /\ ppc = "publish" => buffer[tail] = pending
    /\ FifoDelivery
    /\ \A k \in 0..Stored - 1 : buffer[Shift(First, k)] = sent[Len(received) + 1 + k]

\* The items in the ring, as a queue.
Contents == [k \in 1..Stored |-> buffer[Shift(First, k - 1)]]

Fifo == INSTANCE BoundedFifo WITH fifo <- Contents, got <- out, Bound <- Capacity - 1

\* The ring buffer is a bounded FIFO: a publication appends an item, and a read
\* takes the oldest one.
ImplementsBoundedFifo == Fifo!FifoSpec
=============================================================================
