---------------------------- MODULE PriceTimeBook ----------------------------
(***************************************************************************)
(* What the exchange promises its clients, with no matcher, no mirror of   *)
(* it and no probes: a continuous market with price-time priority in which *)
(* an account never trades with itself.                                    *)
(*                                                                         *)
(* An accepted order becomes the taker.  It trades with the orders of the  *)
(* other side in priority order, best price first and within a price in    *)
(* the order of the queue, until it is filled, nothing is left within its  *)
(* limit, or the next order is of its own account.  A remainder rests at   *)
(* the back of its queue if the order may rest and does not cross, and is  *)
(* dropped otherwise.  Lowering the quantity of a resting order keeps its  *)
(* place; any other amendment moves it to the back of the queue of its new *)
(* price, and is only accepted if it does not cross.                       *)
(***************************************************************************)
EXTENDS PriceLevels

CONSTANTS OrderId, AccountId, MaxPrice, MaxQuantity, NoOrder

VARIABLES
    queue,  \* side -> price -> ids in time order
    open,   \* resting id -> its quantity and account
    taker,  \* the order being matched, or NoOrder
    fills   \* the trades the taker has made

bookVars == <<queue, open, taker, fills>>

Prices == 0..MaxPrice
Quantities == 1..MaxQuantity

Occupied(side) == {p \in Prices : queue[side][p] # <<>>}

BestOf(side) == IF side = "Buy" THEN Max(Occupied(side)) ELSE Min(Occupied(side))

\* An order of this side and limit could trade now.
Crosses(side, limit) ==
    LET opposite == Opposite(side)
    IN  Occupied(opposite) # {} /\ Reaches(side, limit, BestOf(opposite))

Next1(side) == Head(queue[side][BestOf(side)])

Without(ids, id) ==
    IF id \in Range(ids) THEN EraseAt(ids, PositionOf(ids, id)) ELSE ids

Removed(q, id) == [side \in Side |-> [p \in Prices |-> Without(q[side][p], id)]]

Queued(q, id, side, price) == [q EXCEPT ![side][price] = Append(@, id)]

Lot(quantity, account) == [quantity |-> quantity, account |-> account]

BookInit ==
    /\ queue = [side \in Side |-> [p \in Prices |-> <<>>]]
    /\ open = [id \in {} |-> Lot(0, 0)]
    /\ taker = NoOrder
    /\ fills = <<>>

\* A client's order is accepted.
Accept ==
    /\ taker = NoOrder
    /\ taker' \in [id : OrderId \ DOMAIN open, side : Side, limit : Prices,
                   quantity : Quantities, account : AccountId, rests : BOOLEAN]
    /\ UNCHANGED <<queue, open, fills>>

CanFill ==
    /\ taker.quantity > 0
    /\ Crosses(taker.side, taker.limit)
    /\ \/ taker.account = 0
       \/ open[Next1(Opposite(taker.side))].account # taker.account

\* The taker trades with the order that has priority.
Fill ==
    /\ taker # NoOrder
    /\ CanFill
    /\ LET side == Opposite(taker.side)
           id   == Next1(side)
           lot  == open[id]
           size == MinOf(taker.quantity, lot.quantity)
       IN  /\ fills' = Append(fills, [incoming |-> taker.id, resting |-> id,
                                      price |-> BestOf(side), quantity |-> size])
           /\ taker' = [taker EXCEPT !.quantity = @ - size]
           /\ IF size = lot.quantity
              THEN /\ open' = Restrict(open, DOMAIN open \ {id})
                   /\ queue' = Removed(queue, id)
              ELSE /\ open' = [open EXCEPT ![id].quantity = @ - size]
                   /\ UNCHANGED queue

\* The taker is done: its remainder rests or is dropped.
Conclude ==
    /\ taker # NoOrder
    /\ ~CanFill
    /\ IF taker.rests /\ taker.quantity > 0 /\ ~Crosses(taker.side, taker.limit)
       THEN /\ queue' = Queued(queue, taker.id, taker.side, taker.limit)
            /\ open' = [id \in DOMAIN open \cup {taker.id} |->
                           IF id = taker.id THEN Lot(taker.quantity, taker.account) ELSE open[id]]
       ELSE UNCHANGED <<queue, open>>
    /\ taker' = NoOrder
    /\ fills' = <<>>

Withdraw ==
    /\ taker = NoOrder
    /\ \E id \in DOMAIN open :
          /\ open' = Restrict(open, DOMAIN open \ {id})
          /\ queue' = Removed(queue, id)
    /\ UNCHANGED <<taker, fills>>

\* Only the quantity and the account of this order change.
Relots(id, quantities) ==
    /\ open' = [open EXCEPT ![id] = open'[id]]
    /\ open'[id] \in [quantity : quantities, account : AccountId]

\* The quantity of a resting order is lowered, or kept: it keeps its place.
Shrink ==
    /\ taker = NoOrder
    /\ \E id \in DOMAIN open : Relots(id, 1..open[id].quantity)
    /\ UNCHANGED <<queue, taker, fills>>

\* Any other amendment, to another price or for more at the same one: to the back of
\* the queue of its price.
Requeue ==
    /\ taker = NoOrder
    /\ \E id \in DOMAIN open, side \in Side, price \in Prices :
          /\ ~Crosses(side, price)
          /\ queue' = Queued(Removed(queue, id), id, side, price)
          /\ Relots(id, Quantities)
          /\ id \in Range(queue[side][price]) => open'[id].quantity > open[id].quantity
    /\ UNCHANGED <<taker, fills>>

BookNext == Accept \/ Fill \/ Conclude \/ Withdraw \/ Shrink \/ Requeue

BookSpec == BookInit /\ [][BookNext]_bookVars
=============================================================================
