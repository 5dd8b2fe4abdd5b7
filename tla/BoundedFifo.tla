----------------------------- MODULE BoundedFifo -----------------------------
(***************************************************************************)
(* What SpscQueue promises: a FIFO of at most Bound items, whose two ends  *)
(* each change in one atomic step.                                         *)
(***************************************************************************)
EXTENDS Integers, Sequences

CONSTANTS Item, NoItem, Bound

VARIABLES fifo,  \* the items, oldest first
          got    \* the item taken out last

FifoInit == fifo = <<>> /\ got = NoItem

Put(item) ==
    /\ Len(fifo) < Bound
    /\ fifo' = Append(fifo, item)
    /\ UNCHANGED got

Take ==
    /\ fifo # <<>>
    /\ got' = Head(fifo)
    /\ fifo' = Tail(fifo)

FifoNext == (\E item \in Item : Put(item)) \/ Take

FifoSpec == FifoInit /\ [][FifoNext]_<<fifo, got>>
=============================================================================
