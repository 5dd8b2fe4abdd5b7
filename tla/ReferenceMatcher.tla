--------------------------- MODULE ReferenceMatcher ---------------------------
(***************************************************************************)
(* ReferenceMatcher, the price-time-priority book of one symbol.           *)
(*                                                                         *)
(* The orders of a level are the nodes of a std::list and orderTable holds *)
(* an iterator to each node.  An id is in the table at most once (the      *)
(* order manager guarantees it), so a node is named by its id: book holds  *)
(* the ids of each level in list order, and orderTable[id] is the location *)
(* of the node with the quantity stored in it.                             *)
(*                                                                         *)
(* addOrder and matchOrder run the same loop, cross(), and then rest what  *)
(* is left.  The loop is modelled one iteration per step: mpc is "cross"   *)
(* while a call is in the loop, incoming is the order being matched and    *)
(* trades the vector the loop appends to.                                  *)
(***************************************************************************)
EXTENDS PriceLevels

CONSTANTS OrderId,      \* the ids orders can carry
          MaxPrice,     \* numeric_limits<Price>::max()
          MaxQuantity,  \* numeric_limits<Quantity>::max()
          NoOrder       \* no order is being matched

ASSUME MatcherAssumption ==
    /\ MaxPrice \in Nat \ {0}
    /\ MaxQuantity \in Nat \ {0}

Price == 0..MaxPrice
Quantity == 0..MaxQuantity

\* What the matcher reads of an order it is given.
Incoming == [id : OrderId, side : Side, price : Price, quantity : Quantity]

\* What the matcher reads of an order that rests in it.
Location == [side : Side, price : Price, quantity : Quantity]

Trade == [incoming : OrderId, resting : OrderId, price : Price, quantity : Quantity]

VARIABLES
    book,        \* bids and asks: for each side a map from price to FIFO
    orderTable,  \* id -> location of a resting order
    mpc,         \* "idle", or "cross" while addOrder/matchOrder runs
    incoming,    \* the order being matched
    trades       \* the trades of the running or the last call

matcherVars == <<book, orderTable, mpc, incoming, trades>>

MatcherInit ==
    /\ book = [side \in Side |-> NoLevels]
    /\ orderTable = [id \in {} |-> NoOrder]
    /\ mpc = "idle"
    /\ incoming = NoOrder
    /\ trades = <<>>

\* bestBid() and bestAsk(), with what they return for an empty side.
BestPrice(side) ==
    IF DOMAIN book[side] # {} THEN Best(side, book[side])
    ELSE IF side = "Buy" THEN MaxPrice ELSE 0

\* Quantities add up in their own width.
Plus(a, b) == (a + b) % (MaxQuantity + 1)

\* bidDepth() and askDepth().
Depth(side, maxLevels) ==
    DepthFrom(side,
        [p \in DOMAIN book[side] |->
            FoldFunction(Plus, 0, [i \in DOMAIN book[side][p] |->
                                       orderTable[book[side][p][i]].quantity])],
        maxLevels)

\* Mutant: an order at the price of the best level does not cross it.
Crossing_Strict ==
    LET opposite == Opposite(incoming.side)
    IN  /\ incoming.quantity > 0
        /\ Reaches(incoming.side, incoming.price, BestPrice(opposite))
        /\ incoming.price # BestPrice(opposite)
        /\ DOMAIN book[opposite] # {}

\* The loop condition of cross().
Crossing ==
    LET opposite == Opposite(incoming.side)
    IN  /\ incoming.quantity > 0
        /\ Reaches(incoming.side, incoming.price, BestPrice(opposite))
        /\ DOMAIN book[opposite] # {}

\* restOrder(): at the back of its level, and into the table.
RestOrder(order) ==
    /\ book' = [book EXCEPT ![order.side] = PushBack(@, order.price, order.id)]
    /\ orderTable' =
         [id \in DOMAIN orderTable \cup {order.id} |->
             IF id = order.id
             THEN [side |-> order.side, price |-> order.price, quantity |-> order.quantity]
             ELSE orderTable[id]]

\* removeOrder() of an id that is in the table.
RemoveOrder(id) ==
    /\ book' = [book EXCEPT ![orderTable[id].side] = EraseOrder(@, orderTable[id].price, id)]
    /\ orderTable' = Restrict(orderTable, DOMAIN orderTable \ {id})

\* The call of addOrder or matchOrder: the order is copied and cross() entered.
BeginMatch(order) ==
    /\ mpc = "idle"
    /\ mpc' = "cross"
    /\ incoming' = order
    /\ trades' = <<>>

\* The body of the loop of cross(): trade with this resting order, at its price.
TradeWith(resting, price) ==
    LET traded == MinOf(incoming.quantity, orderTable[resting].quantity)
    IN  /\ trades' = Append(trades, [incoming |-> incoming.id, resting |-> resting,
                                     price |-> price, quantity |-> traded])
        /\ incoming' = [incoming EXCEPT !.quantity = @ - traded]
        /\ IF orderTable[resting].quantity = traded
           THEN RemoveOrder(resting)
           ELSE /\ orderTable' = [orderTable EXCEPT ![resting].quantity = @ - traded]
                /\ UNCHANGED book

\* Mutant: back() instead of front().
CrossStep_Back ==
    /\ mpc = "cross"
    /\ Crossing
    /\ LET side  == Opposite(incoming.side)
           price == BestPrice(side)
       IN  TradeWith(book[side][price][Len(book[side][price])], price)
    /\ UNCHANGED mpc

\* One iteration of cross(): trade with the front order of the best level.
CrossStep ==
    /\ mpc = "cross"
    /\ Crossing
    /\ LET side  == Opposite(incoming.side)
           price == BestPrice(side)
       IN  TradeWith(Head(book[side][price]), price)
    /\ UNCHANGED mpc

\* The end of addOrder and matchOrder: the remainder, if any, rests.
FinishMatch ==
    /\ mpc = "cross"
    /\ ~Crossing
    /\ IF incoming.quantity > 0 THEN RestOrder(incoming) ELSE UNCHANGED <<book, orderTable>>
    /\ mpc' = "idle"
    /\ incoming' = NoOrder
    /\ UNCHANGED trades

\* cancelOrder(): a no-op for an id that is not resting.
CancelResting(id) ==
    IF id \in DOMAIN orderTable THEN RemoveOrder(id) ELSE UNCHANGED <<book, orderTable>>

-----------------------------------------------------------------------------
(***************************************************************************)
(* The matcher on its own.  Its caller gives it an order only under an id  *)
(* that is not resting; the order manager is shown to keep to that.        *)
(***************************************************************************)
MatchOrder(order) ==
    /\ order.id \notin DOMAIN orderTable
    /\ BeginMatch(order)
    /\ UNCHANGED <<book, orderTable>>

CancelOrder(id) ==
    /\ mpc = "idle"
    /\ CancelResting(id)
    /\ UNCHANGED <<mpc, incoming, trades>>

MatcherNext ==
    \/ \E order \in Incoming : MatchOrder(order)
    \/ CrossStep
    \/ FinishMatch
    \/ \E id \in OrderId : CancelOrder(id)

MatcherSpec == MatcherInit /\ [][MatcherNext]_matcherVars

-----------------------------------------------------------------------------
\* Every variable has its type, and a call that runs has an order to match.
MatcherTypeOK ==
    /\ DOMAIN book = Side
    /\ \A side \in Side :
          /\ DOMAIN book[side] \subseteq Price
          /\ \A p \in DOMAIN book[side] : book[side][p] \in Seq(OrderId)
    /\ DOMAIN orderTable \subseteq OrderId
    /\ \A id \in DOMAIN orderTable : orderTable[id] \in Location
    /\ mpc \in {"idle", "cross"}
    /\ mpc = "cross" => incoming \in Incoming
    /\ trades \in Seq(Trade)

\* The table and the lists describe the same book, in every state and so also
\* between two iterations of cross(): an id in a list is in the table with the
\* side and price of that list, an id in the table is in the list its location
\* names, exactly once, no order rests with quantity zero and no empty level
\* stays in the map (OrderTableLocationsAccurate, OrderPriceMatchesLevel and
\* NoZeroQuantityRestingOrders of checkReferenceMatcherInvariants).
BookConsistent ==
    /\ \A side \in Side : \A p \in DOMAIN book[side] :
          LET fifo == book[side][p]
          IN  /\ fifo # <<>>
              /\ \A i \in 1..Len(fifo) :
                    /\ fifo[i] \in DOMAIN orderTable
                    /\ orderTable[fifo[i]].side = side
                    /\ orderTable[fifo[i]].price = p
              /\ \A i, j \in 1..Len(fifo) : fifo[i] = fifo[j] => i = j
    /\ \A id \in DOMAIN orderTable :
          /\ orderTable[id].quantity > 0
          /\ orderTable[id].price \in DOMAIN book[orderTable[id].side]
          /\ LET fifo == book[orderTable[id].side][orderTable[id].price]
             IN  \E i \in 1..Len(fifo) : fifo[i] = id

\* No bid rests at or above an ask (NoCrossedBookAtRest): the loop condition of
\* cross(), with its sentinels for an empty side, lets nothing rest that could
\* still trade, and a cancel cannot uncover a cross.
NoCrossedBook ==
    \A b \in DOMAIN book["Buy"], a \in DOMAIN book["Sell"] : b < a

\* The trades of one call walk the book outwards: none is worse for the incoming
\* order than its limit, and none is better than the trade before it.
TradesWalkTheBook ==
    mpc = "cross" =>
        \A i \in 1..Len(trades) :
            /\ Reaches(incoming.side, incoming.price, trades[i].price)
            /\ i > 1 => Reaches(incoming.side, trades[i].price, trades[i - 1].price)

\* Orders before each other in a list.
Before(levels, p, a, b) ==
    /\ p \in DOMAIN levels
    /\ \E i, j \in 1..Len(levels[p]) : i < j /\ levels[p][i] = a /\ levels[p][j] = b

KeepsTimePriority ==
    /\ \A side \in Side : \A p \in DOMAIN book[side] : \A a, b \in OrderId :
          Before(book[side], p, a, b) => ~Before(book'[side], p, b, a)
    /\ \A id \in DOMAIN orderTable \cap DOMAIN orderTable' :
          orderTable'[id].quantity # orderTable[id].quantity =>
              /\ orderTable[id].price = BestPrice(orderTable[id].side)
              /\ Head(book[orderTable[id].side][orderTable[id].price]) = id

\* Time priority: a step of the matcher never lets an order overtake another one
\* of its level, and only the front order of a side's best level loses quantity.
TimePriority == [][KeepsTimePriority]_matcherVars

\* The inductive invariant behind these properties: in addition, the order being
\* matched does not rest itself, and no level of the other side is better for it
\* than a trade it has already made.
MatcherInv ==
    /\ MatcherTypeOK
    /\ BookConsistent
    /\ NoCrossedBook
    /\ TradesWalkTheBook
    /\ mpc = "cross" =>
          /\ incoming.id \notin DOMAIN orderTable
          /\ \A p \in DOMAIN book[Opposite(incoming.side)] : \A i \in 1..Len(trades) :
                Reaches(incoming.side, p, trades[i].price)
=============================================================================
