----------------------------- MODULE PriceLevels -----------------------------
(***************************************************************************)
(* The containers the books of the engine are made of.                     *)
(*                                                                         *)
(* Every book is a std::map from a price to a FIFO of orders: the          *)
(* reference matcher's bids and asks (std::list<Order>) and the order      *)
(* manager's shadow queues (std::vector<OrderId>).  Such a map is a        *)
(* function here whose DOMAIN is the set of keys the map holds, so a level *)
(* that should have been erased and a level that is there are told apart.  *)
(* A FIFO is the sequence of the ids of its orders, front first.           *)
(***************************************************************************)
EXTENDS Integers, Sequences, FiniteSetsExt

Side == {"Buy", "Sell"}

Opposite(side) == IF side = "Buy" THEN "Sell" ELSE "Buy"

\* The smaller of two quantities (std::min).
MinOf(a, b) == IF a <= b THEN a ELSE b

\* An empty map.
NoLevels == [p \in {} |-> <<>>]

\* levels[p].push_back(id): operator[] creates the level if it is missing.
PushBack(levels, p, id) ==
    [q \in DOMAIN levels \cup {p} |->
        IF q # p THEN levels[q]
        ELSE IF p \in DOMAIN levels THEN Append(levels[p], id) ELSE <<id>>]

\* levels.erase(it): the level disappears from the map.
EraseLevel(levels, p) == Restrict(levels, DOMAIN levels \ {p})

\* Where id stands in the FIFO.
PositionOf(fifo, id) == CHOOSE i \in 1..Len(fifo) : fifo[i] = id

\* erase() of the i-th order of a FIFO.
EraseAt(fifo, i) == SubSeq(fifo, 1, i - 1) \o SubSeq(fifo, i + 1, Len(fifo))

\* Mutant: an empty level stays in the map.
EraseOrder_KeepLevel(levels, p, id) ==
    [levels EXCEPT ![p] = EraseAt(@, PositionOf(@, id))]

\* Erase one id from a level, and the level with it once it is empty.
EraseOrder(levels, p, id) ==
    LET rest == EraseAt(levels[p], PositionOf(levels[p], id))
    IN  IF rest = <<>> THEN EraseLevel(levels, p) ELSE [levels EXCEPT ![p] = rest]

\* Mutant: the maps are read from the wrong end.
Best_WrongEnd(side, levels) ==
    IF side = "Buy" THEN Min(DOMAIN levels) ELSE Max(DOMAIN levels)

\* The best price of a side: bids are read from the end of the map, asks from
\* its beginning.
Best(side, levels) ==
    IF side = "Buy" THEN Max(DOMAIN levels) ELSE Min(DOMAIN levels)

\* An order of this side and price crosses a resting order at the price q.
Reaches(side, price, q) == IF side = "Buy" THEN price >= q ELSE price <= q

\* depthFrom(): the best maxLevels prices of a side, best first, with the total
\* quantity of each.
DepthFrom(side, totals, maxLevels) ==
    LET prices == DOMAIN totals
        Rank(p) == Cardinality({q \in prices : Reaches(side, q, p)})
    IN  [i \in 1..MinOf(maxLevels, Cardinality(prices)) |->
            LET p == CHOOSE p \in prices : Rank(p) = i
            IN  [price |-> p, quantity |-> totals[p]]]
=============================================================================
