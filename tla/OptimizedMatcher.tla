--------------------------- MODULE OptimizedMatcher ---------------------------
(***************************************************************************)
(* OptimizedMatcher, the fast alternative to ReferenceMatcher.             *)
(*                                                                         *)
(* A level is a vector of pointers into an object pool.  It only grows:    *)
(* an order that leaves it becomes a null tombstone, so that the index     *)
(* stored in the table stays right, frontIndex skips the tombstones at the *)
(* front, and liveCount says when the level is empty.  Pointers are slots  *)
(* of the pool and memory is what they point to.  Indices start at 1.      *)
(*                                                                         *)
(* The loop of cross() is one iteration per step, as in ReferenceMatcher.  *)
(***************************************************************************)
EXTENDS PriceLevels, FixedObjectPool

CONSTANTS OrderId, MaxPrice, MaxQuantity, NoOrder,
          MaxLevelLength  \* bound on the orders pushed into one level

ASSUME LengthAssumption == MaxLevelLength \in Nat
ASSUME LimitsAssumption == MaxPrice \in Nat /\ MaxQuantity \in Nat

Null == 0

VARIABLES
    levels,    \* bids_ and asks_: for each side a map from price to Level
    refs,      \* orderTable_
    pool,      \* orderPool_
    memory,    \* slot -> the order stored in it
    mpc, incoming, trades  \* as in ReferenceMatcher

optimizedVars == <<levels, refs, pool, memory, mpc, incoming, trades>>

Incoming == [id : OrderId, side : Side, price : 0..MaxPrice, quantity : 0..MaxQuantity]

NewLevel == [orders |-> <<>>, frontIndex |-> 1, liveCount |-> 0]

Init ==
    /\ levels = [side \in Side |-> NoLevels]
    /\ refs = [id \in {} |-> NoOrder]
    /\ pool = EmptyPool
    /\ memory = [slot \in {} |-> NoOrder]
    /\ mpc = "idle"
    /\ incoming = NoOrder
    /\ trades = <<>>

\* levels[p], which operator[] creates if it is missing.
LevelAt(side, p) == IF p \in DOMAIN levels[side] THEN levels[side][p] ELSE NewLevel

PutLevel(side, p, level) ==
    [levels EXCEPT ![side] = [q \in DOMAIN @ \cup {p} |-> IF q = p THEN level ELSE @[q]]]

DropLevel(side, p) == [levels EXCEPT ![side] = EraseLevel(@, p)]

\* Quantities add up in their own width.
Plus(a, b) == (a + b) % (MaxQuantity + 1)

\* The places of a level that are not tombstones.
LivePlaces(level) == {i \in 1..Len(level.orders) : level.orders[i] # Null}

\* The quantity at some places of a level.
TotalAt(level, places) ==
    FoldFunction(Plus, 0, [i \in places |-> memory[level.orders[i]].quantity])

\* Mutant: the live orders are taken to be the first liveCount ones.
Depth_Prefix(side, maxLevels) ==
    LET totals == [p \in DOMAIN levels[side] |->
            TotalAt(levels[side][p], LivePlaces(levels[side][p]) \cap 1..levels[side][p].liveCount)]
    IN  DepthFrom(side, totals, maxLevels)

\* bidDepth() and askDepth(): the tombstones contribute nothing.
Depth(side, maxLevels) ==
    LET totals == [p \in DOMAIN levels[side] |->
            TotalAt(levels[side][p], LivePlaces(levels[side][p]))]
    IN  DepthFrom(side, totals, maxLevels)

\* bestBid() and bestAsk().
BestPrice(side) ==
    IF DOMAIN levels[side] # {} THEN Best(side, levels[side])
    ELSE IF side = "Buy" THEN MaxPrice ELSE 0

-----------------------------------------------------------------------------
\* Mutant: the index counts the live orders only.
RestOrder_LiveIndex(order) ==
    LET level == LevelAt(order.side, order.price)
        got   == Acquire(pool)
    IN  /\ pool' = got.pool
        /\ memory' = [slot \in DOMAIN memory \cup {got.slot} |->
                         IF slot = got.slot
                         THEN [id |-> order.id, price |-> order.price, quantity |-> order.quantity]
                         ELSE memory[slot]]
        /\ levels' = PutLevel(order.side, order.price,
                        [level EXCEPT !.orders = Append(@, got.slot), !.liveCount = @ + 1])
        /\ refs' = [id \in DOMAIN refs \cup {order.id} |->
                       IF id # order.id THEN refs[id]
                       ELSE [side |-> order.side, price |-> order.price,
                             index |-> level.liveCount + 1]]

\* restOrder().
RestOrder(order) ==
    LET level == LevelAt(order.side, order.price)
        got   == Acquire(pool)
    IN  /\ pool' = got.pool
        /\ memory' = [slot \in DOMAIN memory \cup {got.slot} |->
                         IF slot = got.slot
                         THEN [id |-> order.id, price |-> order.price, quantity |-> order.quantity]
                         ELSE memory[slot]]
        /\ levels' = PutLevel(order.side, order.price,
                        [level EXCEPT !.orders = Append(@, got.slot), !.liveCount = @ + 1])
        /\ refs' = [id \in DOMAIN refs \cup {order.id} |->
                       IF id # order.id THEN refs[id]
                       ELSE [side |-> order.side, price |-> order.price,
                             index |-> Len(level.orders) + 1]]

\* Mutant: an empty level stays in the map.
RemoveFrom_KeepLevel(level, id) ==
    LET ref   == refs[id]
        slot  == level.orders[ref.index]
        after == [level EXCEPT !.orders[ref.index] = Null, !.liveCount = @ - 1]
    IN  /\ pool' = Release(pool, slot)
        /\ memory' = Restrict(memory, DOMAIN memory \ {slot})
        /\ refs' = Restrict(refs, DOMAIN refs \ {id})
        /\ levels' = PutLevel(ref.side, ref.price, after)

\* Mutant: the slot is not given back to the pool.
RemoveFrom_Leak(level, id) ==
    LET ref   == refs[id]
        slot  == level.orders[ref.index]
        after == [level EXCEPT !.orders[ref.index] = Null, !.liveCount = @ - 1]
    IN  /\ pool' = pool
        /\ memory' = Restrict(memory, DOMAIN memory \ {slot})
        /\ refs' = Restrict(refs, DOMAIN refs \ {id})
        /\ levels' = IF after.liveCount = 0 THEN DropLevel(ref.side, ref.price)
                     ELSE PutLevel(ref.side, ref.price, after)

\* removeOrder() of an id in the table, from its level as it is by then.
RemoveFrom(level, id) ==
    LET ref   == refs[id]
        slot  == level.orders[ref.index]
        after == [level EXCEPT !.orders[ref.index] = Null, !.liveCount = @ - 1]
    IN  /\ pool' = Release(pool, slot)
        /\ memory' = Restrict(memory, DOMAIN memory \ {slot})
        /\ refs' = Restrict(refs, DOMAIN refs \ {id})
        /\ levels' = IF after.liveCount = 0 THEN DropLevel(ref.side, ref.price)
                     ELSE PutLevel(ref.side, ref.price, after)

\* Mutant: the newest live order instead of the oldest.
FrontLive_Newest(level) ==
    Max({i \in level.frontIndex..Len(level.orders) : level.orders[i] # Null})

\* frontLive(): where frontIndex ends up, one past the end if nothing is live.
FrontLive(level) ==
    Min({i \in level.frontIndex..Len(level.orders) : level.orders[i] # Null}
        \cup {Len(level.orders) + 1})

\* The loop condition of cross(), up to the test of the level.
Crossing ==
    LET opposite == levels[Opposite(incoming.side)]
    IN  /\ incoming.quantity > 0
        /\ DOMAIN opposite # {}
        /\ Reaches(incoming.side, incoming.price, Best(Opposite(incoming.side), opposite))

\* The call of addOrder or matchOrder.  The level it may rest in must have room
\* under the bound of the model.
MatchOrder(order) ==
    /\ mpc = "idle"
    /\ order.id \notin DOMAIN refs
    /\ Len(LevelAt(order.side, order.price).orders) < MaxLevelLength
    /\ mpc' = "cross"
    /\ incoming' = order
    /\ trades' = <<>>
    /\ UNCHANGED <<levels, refs, pool, memory>>

\* One iteration of cross(): skip the tombstones, then trade with the front order,
\* or erase a level without one.
CrossStep ==
    /\ mpc = "cross"
    /\ Crossing
    /\ LET side  == Opposite(incoming.side)
           price == Best(side, levels[side])
           level == [levels[side][price] EXCEPT !.frontIndex = FrontLive(levels[side][price])]
       IN  IF level.frontIndex > Len(level.orders)
           THEN /\ levels' = DropLevel(side, price)
                /\ UNCHANGED <<refs, pool, memory, incoming, trades>>
           ELSE LET slot    == level.orders[level.frontIndex]
                    resting == memory[slot]
                    traded  == MinOf(incoming.quantity, resting.quantity)
                IN  /\ trades' = Append(trades, [incoming |-> incoming.id, resting |-> resting.id,
                                                 price |-> resting.price, quantity |-> traded])
                    /\ incoming' = [incoming EXCEPT !.quantity = @ - traded]
                    /\ IF resting.quantity = traded
                       THEN RemoveFrom(level, resting.id)
                       ELSE /\ memory' = [memory EXCEPT ![slot].quantity = @ - traded]
                            /\ levels' = PutLevel(side, price, level)
                            /\ UNCHANGED <<refs, pool>>
    /\ UNCHANGED mpc

\* The end of addOrder and matchOrder: the remainder, if any, rests.
FinishMatch ==
    /\ mpc = "cross"
    /\ ~Crossing
    /\ IF incoming.quantity > 0 THEN RestOrder(incoming) ELSE UNCHANGED <<levels, refs, pool, memory>>
    /\ mpc' = "idle"
    /\ incoming' = NoOrder
    /\ UNCHANGED trades

\* cancelOrder(): a no-op for an id that is not resting.
CancelOrder(id) ==
    /\ mpc = "idle"
    /\ IF id \in DOMAIN refs
       THEN RemoveFrom(levels[refs[id].side][refs[id].price], id)
       ELSE UNCHANGED <<levels, refs, pool, memory>>
    /\ UNCHANGED <<mpc, incoming, trades>>

Next ==
    \/ \E order \in Incoming : MatchOrder(order)
    \/ CrossStep
    \/ FinishMatch
    \/ \E id \in OrderId : CancelOrder(id)

Spec == Init /\ [][Next]_optimizedVars

-----------------------------------------------------------------------------
\* Every level, and the slots they point to.
AllLevels == UNION {{levels[side][p] : p \in DOMAIN levels[side]} : side \in Side}
UsedSlots == UNION {{level.orders[i] : i \in LivePlaces(level)} : level \in AllLevels}

CountsTheLiving(level) ==
    /\ level.liveCount = Cardinality(LivePlaces(level))
    /\ level.liveCount > 0
    /\ \A i \in 1..level.frontIndex - 1 : level.orders[i] = Null

\* liveCount is the number of pointers left in the level, no level without one
\* stays in the map, and frontIndex has not passed a live order.
LevelsCountTheLiving == \A level \in AllLevels : CountsTheLiving(level)

\* "indices into `orders` never move": the table leads to the order with that id,
\* however many orders of its level have come and gone since it was added.
RefsStayRight ==
    \A id \in DOMAIN refs :
        /\ refs[id].price \in DOMAIN levels[refs[id].side]
        /\ LET slot == levels[refs[id].side][refs[id].price].orders[refs[id].index]
           IN  slot # Null /\ memory[slot].id = id /\ memory[slot].price = refs[id].price

\* No two orders share a slot, an order in a level is never in storage that is free
\* to be handed out again, and no slot is lost: it is in use or in the free list,
\* exactly once.
PoolIsSound ==
    /\ UsedSlots = {slot \in DOMAIN pool.live : pool.live[slot]}
    /\ UsedSlots = DOMAIN memory
    /\ Cardinality(UsedSlots) = Cardinality(DOMAIN refs)
    /\ IsInjective(pool.freeList)
    /\ Range(pool.freeList) = DOMAIN pool.live \ UsedSlots

-----------------------------------------------------------------------------
(***************************************************************************)
(* The inductive invariant behind these properties.                        *)
(***************************************************************************)
Level == [orders : Seq(Nat), frontIndex : Nat \ {0}, liveCount : Nat]
OrderRef == [side : Side, price : 0..MaxPrice, index : Nat \ {0}]
Stored == [id : OrderId, price : 0..MaxPrice, quantity : 1..MaxQuantity]
Pool == [freeList : Seq(Nat \ {0}), live : Seq(BOOLEAN)]

BookTypeOK ==
    /\ DOMAIN levels = Side
    /\ \A side \in Side :
          /\ DOMAIN levels[side] \subseteq 0..MaxPrice
          /\ \A p \in DOMAIN levels[side] : levels[side][p] \in Level
    /\ DOMAIN refs \subseteq OrderId
    /\ IsFiniteSet(DOMAIN refs)
    /\ \A id \in DOMAIN refs : refs[id] \in OrderRef
    /\ pool \in Pool
    /\ DOMAIN memory \subseteq Nat \ {0}
    /\ \A slot \in DOMAIN memory : memory[slot] \in Stored

\* Where the table says the order is.
SlotOf(id) == levels[refs[id].side][refs[id].price].orders[refs[id].index]

\* The table leads from an id to its order.
RefsLead ==
    \A id \in DOMAIN refs :
        /\ refs[id].price \in DOMAIN levels[refs[id].side]
        /\ refs[id].index \in 1..Len(levels[refs[id].side][refs[id].price].orders)
        /\ SlotOf(id) \in DOMAIN memory
        /\ memory[SlotOf(id)].id = id
        /\ memory[SlotOf(id)].price = refs[id].price

\* Every pointer of a level is the one the table leads to.
PlacesHold ==
    \A side \in Side : \A p \in DOMAIN levels[side] : \A i \in LivePlaces(levels[side][p]) :
        LET slot == levels[side][p].orders[i]
        IN  /\ slot \in DOMAIN memory
            /\ memory[slot].id \in DOMAIN refs
            /\ refs[memory[slot].id] = [side |-> side, price |-> p, index |-> i]

\* Every stored order is in the table.
MemoryReached ==
    \A slot \in DOMAIN memory : memory[slot].id \in DOMAIN refs /\ SlotOf(memory[slot].id) = slot

\* A pool whose live slots are the used ones.
PoolHolds(pl, used) ==
    /\ used = {slot \in DOMAIN pl.live : pl.live[slot]}
    /\ IsInjective(pl.freeList)
    /\ Range(pl.freeList) = DOMAIN pl.live \ used

\* In addition to the properties, table, levels and stored orders are one-to-one.
BookHolds ==
    /\ BookTypeOK
    /\ RefsLead
    /\ PlacesHold
    /\ MemoryReached
    /\ LevelsCountTheLiving
    /\ PoolHolds(pool, DOMAIN memory)

\* The order being matched does not rest itself.
OptimizedInv ==
    /\ BookHolds
    /\ mpc \in {"idle", "cross"}
    /\ mpc = "cross" => incoming \in Incoming /\ incoming.id \notin DOMAIN refs
=============================================================================
