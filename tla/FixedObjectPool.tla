--------------------------- MODULE FixedObjectPool ---------------------------
(***************************************************************************)
(* FixedObjectPool<T>: a free list over slabs of storage.                  *)
(*                                                                         *)
(* A pool is a record of its free list and of the live flag of each slot.  *)
(* The slots of a new slab continue the numbering of the earlier ones.     *)
(***************************************************************************)
EXTENDS Integers, Sequences

CONSTANT SlabSize  \* objects per slab

ASSUME SlabAssumption == SlabSize \in Nat \ {0}

EmptyPool == [freeList |-> <<>>, live |-> <<>>]

\* growBySlab(): all slots of the new slab are free.
GrowBySlab(pool) ==
    [freeList |-> pool.freeList \o [i \in 1..SlabSize |-> Len(pool.live) + i],
     live     |-> pool.live \o [i \in 1..SlabSize |-> FALSE]]

\* acquire(): the slot it returns and the pool it leaves behind.
Acquire(pool) ==
    LET ready == IF pool.freeList = <<>> THEN GrowBySlab(pool) ELSE pool
        last  == Len(ready.freeList)
        slot  == ready.freeList[last]
    IN  [slot |-> slot,
         pool |-> [freeList |-> SubSeq(ready.freeList, 1, last - 1),
                   live     |-> [ready.live EXCEPT ![slot] = TRUE]]]

\* release(): a no-op for a slot that is not live or not of this pool.
Release(pool, slot) ==
    IF slot \notin DOMAIN pool.live \/ ~pool.live[slot] THEN pool
    ELSE [freeList |-> Append(pool.freeList, slot),
          live     |-> [pool.live EXCEPT ![slot] = FALSE]]
=============================================================================
