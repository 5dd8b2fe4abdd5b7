------------------------- MODULE PriceTimeRefinement -------------------------
(***************************************************************************)
(* The manager and its matcher implement the price-time-priority book.     *)
(* The promised book is read off the shadow queues and the snapshots; an   *)
(* order that is being requeued is already at its new place.               *)
(***************************************************************************)
EXTENDS OrderManager

\* The order a call of matchOrder is about, as the promise sees it.
TakerOf(o, quantity) ==
    [id |-> o.id, side |-> o.side, limit |-> PriceToMatch(o),
     quantity |-> quantity, account |-> o.account, rests |-> MayRest(o)]

Taker == [id : OrderId, side : Side, limit : Price,
          quantity : Quantity, account : AccountId, rests : BOOLEAN]

ASSUME NoTakerAssumption == NoOrder \notin Taker

\* The queues of a book: empty where it has no level.
Queues(levels) ==
    [side \in Side |-> [p \in Price |->
        IF p \in DOMAIN levels[side] THEN levels[side][p] ELSE <<>>]]

LotOf(o) == [quantity |-> o.quantity, account |-> o.account]

Matching == pc \in {"stp", "probe", "settle", "rest"}

PromisedQueue ==
    Queues(IF pc = "requeue" THEN TrackResting(shadow, order.id, order.side, order.price)
           ELSE shadow)

PromisedOpen ==
    [id \in active |-> LotOf(IF pc = "requeue" /\ id = order.id THEN order ELSE orders[id])]

PromisedTaker == IF Matching THEN TakerOf(order, Remaining) ELSE NoOrder

Promise == INSTANCE PriceTimeBook
             WITH queue <- PromisedQueue, open <- PromisedOpen,
                  taker <- PromisedTaker, fills <- allTrades

\* Every behaviour of the order manager is one of the price-time-priority book:
\* each trade is with the order that has priority, for the right price and size,
\* and no operation moves an order it should not move.
ImplementsPriceTimeBook == Promise!BookSpec
=============================================================================
