----------------------------- MODULE OrderManager -----------------------------
(***************************************************************************)
(* OrderManager: validation, order lifecycle and self-trade prevention     *)
(* over a matcher it can only reach through addOrder, matchOrder and       *)
(* cancelOrder.                                                            *)
(*                                                                         *)
(* The manager keeps its own mirror of the matcher's book (shadow) and its *)
(* own copy of every order (orders), and decides from these what to send   *)
(* to the matcher.  A call is a sequence of steps: pc says where in the    *)
(* call the manager is, and a call into the matcher runs the matcher's own *)
(* steps while the manager waits.  One thread runs both, so no other call  *)
(* begins before pc is "idle" again.                                       *)
(*                                                                         *)
(*   pc        the manager is                                              *)
(*   stp       at the head of the loop of matchWithStp                     *)
(*   probe     waiting for, or applying, the trades of one probe           *)
(*   settle    after matchWithStp, deciding whether the remainder rests    *)
(*   rest      waiting for the matcher to take the remainder               *)
(*   unbuild   in cancelReplace, cancelling the orders of a level          *)
(*   rebuild   in cancelReplace, adding them again                         *)
(*   requeue   in cancelReplace, waiting for the matcher to take the order *)
(*                                                                         *)
(* The conditions a call is rejected on are the guards of the accepted     *)
(* call; the reason a rejected call returns is left out.                   *)
(***************************************************************************)
EXTENDS ReferenceMatcher

CONSTANTS AccountId,  \* account ids; 0 means the order has no account
          Requests    \* the orders clients send

Status == {"New", "PartiallyFilled", "Filled", "Cancelled"}

\* An order as a client gives it.
Order == [id : OrderId, side : Side, price : Price, quantity : Quantity,
          account : AccountId, type : {"Limit", "Market"}, tif : {"GTC", "IOC"}]

ASSUME ManagerAssumption ==
    /\ AccountId \subseteq Nat
    /\ Requests \subseteq Order

\* The manager's copy of an order.
Snapshot == [side : Side, price : Price, quantity : Quantity,
             account : AccountId, status : Status]

VARIABLES
    shadow,     \* restingBidsAt_ and restingAsksAt_
    known,      \* allKnownOrderIds_
    active,     \* activeOrderIds_
    orders,     \* orders_
    pc,         \* where the running call is
    order,      \* the order of the running call
    filled,     \* quantity traded by the running matchOrder
    allTrades,  \* the trades of the running matchOrder
    todo        \* ids the running loop of cancelReplace has still to visit

managerVars == <<shadow, known, active, orders, pc, order, filled, allTrades, todo>>
vars == <<matcherVars, managerVars>>

Init ==
    /\ MatcherInit
    /\ shadow = [side \in Side |-> NoLevels]
    /\ known = {}
    /\ active = {}
    /\ orders = [id \in {} |-> NoOrder]
    /\ pc = "idle"
    /\ order = NoOrder
    /\ filled = 0
    /\ allTrades = <<>>
    /\ todo = <<>>

-----------------------------------------------------------------------------
\* Unsigned subtraction of quantities, which wraps around below zero.
Minus(a, b) == IF b <= a THEN a - b ELSE a - b + MaxQuantity + 1

\* Mutant: an id may be used again.
ValidateNewOrder_AnyId(o, existingIds) ==
    IF o.quantity = 0 THEN "ZeroQuantity"
    ELSE IF o.type = "Limit" /\ o.price = 0 THEN "ZeroPrice"
    ELSE "None"

\* validateNewOrder().
ValidateNewOrder(o, existingIds) ==
    IF o.quantity = 0 THEN "ZeroQuantity"
    ELSE IF o.type = "Limit" /\ o.price = 0 THEN "ZeroPrice"
    ELSE IF o.id \in existingIds THEN "DuplicateOrderId"
    ELSE "None"

MayRest(o) == o.type # "Market" /\ o.tif # "IOC"

\* toMatch.price: a market order sweeps at the extreme price of its side.
PriceToMatch(o) ==
    IF o.type # "Market" THEN o.price ELSE IF o.side = "Buy" THEN MaxPrice ELSE 0

\* wouldCross(), from the shadow queues.
WouldCross(o) ==
    LET opposite == shadow[Opposite(o.side)]
    IN  /\ DOMAIN opposite # {}
        /\ Reaches(o.side, o.price, Best(Opposite(o.side), opposite))

\* trackResting().
TrackResting(levels, id, side, price) ==
    [levels EXCEPT ![side] = PushBack(@, price, id)]

\* Mutant: only the bids are searched.
UntrackResting_Bids(levels, id) ==
    LET Holding == {p \in DOMAIN levels["Buy"] : id \in Range(levels["Buy"][p])}
    IN  IF Holding = {} THEN levels
        ELSE [levels EXCEPT !["Buy"] = EraseOrder(@, Min(Holding), id)]

\* untrackResting(): the first level that holds the id, bids before asks.
UntrackResting(levels, id) ==
    LET Holding(side) == {p \in DOMAIN levels[side] : id \in Range(levels[side][p])}
        EraseFrom(side) == [levels EXCEPT ![side] = EraseOrder(@, Min(Holding(side)), id)]
    IN  IF Holding("Buy") # {} THEN EraseFrom("Buy")
        ELSE IF Holding("Sell") # {} THEN EraseFrom("Sell")
        ELSE levels

\* orders_[id] = snapshot.
Record(id, snapshot) ==
    [i \in DOMAIN orders \cup {id} |-> IF i = id THEN snapshot ELSE orders[i]]

SnapshotOf(o, quantity, status) ==
    [side |-> o.side, price |-> o.price, quantity |-> quantity,
     account |-> o.account, status |-> status]

\* What the matcher reads of an order sent to it.
ToMatcher(id, side, price, quantity) ==
    [id |-> id, side |-> side, price |-> price, quantity |-> quantity]

Remaining == Minus(order.quantity, filled)

-----------------------------------------------------------------------------
\* matchOrder(), up to the loop of matchWithStp.
MatchOrderCall(o) ==
    /\ pc = "idle"
    /\ ValidateNewOrder(o, known) = "None"
    /\ known' = known \cup {o.id}
    /\ order' = o
    /\ filled' = 0
    /\ allTrades' = <<>>
    /\ pc' = "stp"
    /\ UNCHANGED <<matcherVars, shadow, active, orders, todo>>

\* addOrder(): no market and no immediate-or-cancel order, then matchOrder().
AddOrderCall(o) == MayRest(o) /\ MatchOrderCall(o)

\* The side and the level matchWithStp looks at.
StpSide == Opposite(order.side)
StpLevel == Best(StpSide, shadow[StpSide])

\* Mutant: the accounts are not compared.
StpContinues_AnyAccount ==
    /\ Remaining > 0
    /\ DOMAIN shadow[StpSide] # {}
    /\ Reaches(order.side, PriceToMatch(order), StpLevel)

\* The loop of matchWithStp goes on: something is left, the best level of the
\* other side is within the limit, and its front order is of another account.
StpContinues ==
    /\ Remaining > 0
    /\ DOMAIN shadow[StpSide] # {}
    /\ Reaches(order.side, PriceToMatch(order), StpLevel)
    /\ LET ids == shadow[StpSide][StpLevel]
       IN  ids # <<>> /\ order.account # 0 => orders[Head(ids)].account # order.account

StpStop ==
    /\ pc = "stp"
    /\ ~StpContinues
    /\ pc' = "settle"
    /\ UNCHANGED <<matcherVars, shadow, known, active, orders, order, filled, allTrades, todo>>

\* Mutant: the probe is as large as the resting order.
StpProbe_RestingSize ==
    /\ pc = "stp"
    /\ StpContinues
    /\ LET resting == orders[Head(shadow[StpSide][StpLevel])]
       IN  BeginMatch(ToMatcher(order.id, order.side, PriceToMatch(order), resting.quantity))
    /\ pc' = "probe"
    /\ UNCHANGED <<book, orderTable, shadow, known, active, orders, order, filled, allTrades, todo>>

\* One iteration: send a probe as large as the smaller of the two orders.
StpProbe ==
    /\ pc = "stp"
    /\ StpContinues
    /\ IF shadow[StpSide][StpLevel] = <<>>
       THEN /\ shadow' = [shadow EXCEPT ![StpSide] = EraseLevel(@, StpLevel)]
            /\ UNCHANGED <<matcherVars, pc>>
       ELSE LET resting == orders[Head(shadow[StpSide][StpLevel])]
            IN  /\ BeginMatch(ToMatcher(order.id, order.side, PriceToMatch(order),
                                        MinOf(Remaining, resting.quantity)))
                /\ pc' = "probe"
                /\ UNCHANGED <<book, orderTable, shadow>>
    /\ UNCHANGED <<known, active, orders, order, filled, allTrades, todo>>

\* Apply the first of the probe's trades that is left; with the last one the loop
\* goes on.  A probe without a trade ends the loop.
ApplyTrade ==
    /\ pc = "probe"
    /\ mpc = "idle"
    /\ IF trades = <<>>
       THEN /\ pc' = "settle"
            /\ UNCHANGED <<trades, allTrades, filled, shadow, active, orders>>
       ELSE LET trade == Head(trades)
                id    == trade.resting
                left  == Minus(orders[id].quantity, trade.quantity)
            IN  /\ trades' = Tail(trades)
                /\ pc' = IF Tail(trades) = <<>> THEN "stp" ELSE "probe"
                /\ allTrades' = Append(allTrades, trade)
                /\ filled' = filled + trade.quantity
                /\ IF id \notin DOMAIN orders
                   THEN UNCHANGED <<shadow, active, orders>>
                   ELSE IF left = 0
                   THEN /\ orders' = [orders EXCEPT ![id].quantity = 0, ![id].status = "Filled"]
                        /\ active' = active \ {id}
                        /\ shadow' = UntrackResting(shadow, id)
                   ELSE /\ orders' = [orders EXCEPT ![id].quantity = left,
                                                    ![id].status = "PartiallyFilled"]
                        /\ UNCHANGED <<shadow, active>>
    /\ UNCHANGED <<book, orderTable, mpc, incoming, known, order, todo>>

\* Mutant: a remainder that crosses rests as well.
Rests_Crossing == MayRest(order) /\ Remaining > 0

\* A remainder that may rest and would not cross goes to the matcher.
Rests == MayRest(order) /\ Remaining > 0 /\ ~WouldCross(order)

SettleRest ==
    /\ pc = "settle"
    /\ Rests
    /\ BeginMatch(ToMatcher(order.id, order.side, order.price, Remaining))
    /\ pc' = "rest"
    /\ UNCHANGED <<book, orderTable, shadow, known, active, orders, order, filled, allTrades, todo>>

\* The end of a call: its locals are gone.
Return ==
    /\ pc' = "idle"
    /\ order' = NoOrder
    /\ filled' = 0
    /\ allTrades' = <<>>
    /\ todo' = <<>>

\* matchOrder() ends without resting: filled, or the remainder is cancelled.
SettleDone ==
    /\ pc = "settle"
    /\ ~Rests
    /\ orders' = Record(order.id, SnapshotOf(order, Remaining,
                          IF Remaining = 0 \/ filled > 0 THEN "Filled" ELSE "Cancelled"))
    /\ Return
    /\ UNCHANGED <<matcherVars, shadow, known, active>>

\* Mutant: the snapshot keeps the original quantity.
RestDone_OriginalQuantity ==
    /\ pc = "rest"
    /\ mpc = "idle"
    /\ active' = active \cup {order.id}
    /\ shadow' = TrackResting(shadow, order.id, order.side, order.price)
    /\ orders' = Record(order.id, SnapshotOf(order, order.quantity,
                          IF filled > 0 THEN "PartiallyFilled" ELSE "New"))
    /\ Return
    /\ UNCHANGED <<matcherVars, known>>

\* matchOrder() ends with the remainder resting.
RestDone ==
    /\ pc = "rest"
    /\ mpc = "idle"
    /\ active' = active \cup {order.id}
    /\ shadow' = TrackResting(shadow, order.id, order.side, order.price)
    /\ orders' = Record(order.id, SnapshotOf(order, Remaining,
                          IF filled > 0 THEN "PartiallyFilled" ELSE "New"))
    /\ Return
    /\ UNCHANGED <<matcherVars, known>>

-----------------------------------------------------------------------------
\* Mutant: any id can be cancelled.
CancelOrderCall_AnyId(id) ==
    /\ pc = "idle"
    /\ CancelResting(id)
    /\ active' = active \ {id}
    /\ shadow' = UntrackResting(shadow, id)
    /\ orders' = [orders EXCEPT ![id].status = "Cancelled"]
    /\ UNCHANGED <<mpc, incoming, trades, known, pc, order, filled, allTrades, todo>>

\* cancelOrder().
CancelOrderCall(id) ==
    /\ pc = "idle"
    /\ id \in active
    /\ CancelResting(id)
    /\ active' = active \ {id}
    /\ shadow' = UntrackResting(shadow, id)
    /\ orders' = [orders EXCEPT ![id].status = "Cancelled"]
    /\ UNCHANGED <<mpc, incoming, trades, known, pc, order, filled, allTrades, todo>>

\* The conditions under which cancelReplace(o.id, o) is accepted.
ReplaceAccepted(o) ==
    /\ o.id \in active
    /\ MayRest(o)
    /\ ValidateNewOrder(o, known \ {o.id}) = "None"
    /\ ~WouldCross(o)

\* Mutant: every amendment goes to the back of its level.
PreservesPriority_Never(o) == FALSE

PreservesPriority(o) ==
    /\ o.price = orders[o.id].price
    /\ o.quantity <= orders[o.id].quantity

\* A smaller quantity at the same price: every order of the level is going to be
\* cancelled and added again, from the new snapshots, in the recorded order.
\* levels[newOrder.price] makes an empty level if there is none.
AmendInPlace(o) ==
    /\ pc = "idle"
    /\ ReplaceAccepted(o)
    /\ PreservesPriority(o)
    /\ orders' = [orders EXCEPT ![o.id] = SnapshotOf(o, o.quantity, "New")]
    /\ order' = o
    /\ IF o.price \in DOMAIN shadow[o.side]
       THEN /\ todo' = shadow[o.side][o.price]
            /\ pc' = "unbuild"
            /\ UNCHANGED shadow
       ELSE /\ shadow' = [shadow EXCEPT ![o.side] =
                             [p \in DOMAIN @ \cup {o.price} |-> IF p \in DOMAIN @ THEN @[p] ELSE <<>>]]
            /\ todo' = <<>>
            /\ pc' = "rebuild"
    /\ UNCHANGED <<matcherVars, known, active, filled, allTrades>>

\* Mutant: the loop does not advance.
Unbuild_Stuck ==
    /\ pc = "unbuild"
    /\ CancelResting(Head(todo))
    /\ UNCHANGED <<mpc, incoming, trades, managerVars>>

\* First loop: cancel the next order of the level.
Unbuild ==
    /\ pc = "unbuild"
    /\ CancelResting(Head(todo))
    /\ IF Tail(todo) # <<>>
       THEN todo' = Tail(todo) /\ UNCHANGED pc
       ELSE todo' = shadow[order.side][order.price] /\ pc' = "rebuild"
    /\ UNCHANGED <<mpc, incoming, trades, shadow, known, active, orders, order, filled, allTrades>>

\* Second loop: add the next order of the level.
Rebuild ==
    /\ pc = "rebuild"
    /\ todo # <<>>
    /\ LET next == orders[Head(todo)]
       IN  BeginMatch(ToMatcher(Head(todo), next.side, next.price, next.quantity))
    /\ todo' = Tail(todo)
    /\ UNCHANGED <<book, orderTable, shadow, known, active, orders, pc, order, filled, allTrades>>

RebuildDone ==
    /\ pc = "rebuild"
    /\ todo = <<>>
    /\ mpc = "idle"
    /\ Return
    /\ UNCHANGED <<matcherVars, shadow, known, active, orders>>

\* Any other replacement: cancel, and add at the back of the new level.
AmendRequeue(o) ==
    /\ pc = "idle"
    /\ ReplaceAccepted(o)
    /\ ~PreservesPriority(o)
    /\ CancelResting(o.id)
    /\ shadow' = UntrackResting(shadow, o.id)
    /\ BeginMatch(ToMatcher(o.id, o.side, o.price, o.quantity))
    /\ order' = o
    /\ pc' = "requeue"
    /\ UNCHANGED <<known, active, orders, filled, allTrades, todo>>

RequeueDone ==
    /\ pc = "requeue"
    /\ mpc = "idle"
    /\ orders' = Record(order.id, SnapshotOf(order, order.quantity, "New"))
    /\ active' = active \cup {order.id}
    /\ shadow' = TrackResting(shadow, order.id, order.side, order.price)
    /\ Return
    /\ UNCHANGED <<matcherVars, known>>

-----------------------------------------------------------------------------
\* reset() of the registry, for the instrument: its matcher and its manager are dropped.
DropInstrument ==
    /\ pc = "idle"
    /\ book' = [side \in Side |-> NoLevels]
    /\ shadow' = [side \in Side |-> NoLevels]
    /\ orderTable' = [id \in {} |-> NoOrder]
    /\ orders' = [id \in {} |-> NoOrder]
    /\ known' = {}
    /\ active' = {}
    /\ trades' = <<>>
    /\ UNCHANGED <<mpc, incoming, pc, order, filled, allTrades, todo>>

\* A call that is rejected returns before it changes anything.
RejectedCall ==
    /\ pc = "idle"
    /\ \/ {o \in Requests : ValidateNewOrder(o, known) # "None" \/ ~ReplaceAccepted(o)} # {}
       \/ OrderId \ active # {}
    /\ UNCHANGED vars

\* The matcher runs while the manager waits for it.
MatcherStep == (CrossStep \/ FinishMatch) /\ UNCHANGED managerVars

\* What the thread does once a call has begun.
CallStep ==
    \/ MatcherStep
    \/ StpStop
    \/ StpProbe
    \/ ApplyTrade
    \/ SettleRest
    \/ SettleDone
    \/ RestDone
    \/ Unbuild
    \/ Rebuild
    \/ RebuildDone
    \/ RequeueDone

Next ==
    \/ \E o \in Requests : MatchOrderCall(o) \/ AddOrderCall(o) \/ AmendInPlace(o) \/ AmendRequeue(o)
    \/ \E id \in OrderId : CancelOrderCall(id)
    \/ RejectedCall
    \/ CallStep

Spec == Init /\ [][Next]_vars

\* The thread that runs a call runs it to its end.
FairSpec == Spec /\ WF_vars(CallStep)

-----------------------------------------------------------------------------
\* No call of the matcher is pending between two decisions of the manager.
Settled == pc \in {"idle", "stp", "settle"}

\* The shadow queues are the matcher's book, level by level and in FIFO order,
\* whenever the manager decides anything from them: after every fill, cancel,
\* replacement and rebuild (ShadowQueueMatchesMatcherFifo of
\* checkOrderManagerInvariants, in both directions and also inside matchWithStp).
ShadowMatchesBook == Settled => shadow = book

\* The active ids are exactly the resting ones, and the snapshot of each says what
\* the matcher holds: side, price and the quantity left after partial fills and
\* amendments.  Any other order the manager knows is Filled or Cancelled
\* (ActiveIdsSubsetOfOrderTable and StatusConsistentWithActive, in both directions).
SnapshotsMatchBook ==
    Settled =>
        /\ active = DOMAIN orderTable
        /\ \A id \in active :
              orderTable[id] = [side |-> orders[id].side, price |-> orders[id].price,
                                quantity |-> orders[id].quantity]
        /\ \A id \in DOMAIN orders :
              id \in active <=> orders[id].status \in {"New", "PartiallyFilled"}

\* The manager gives the matcher an order only under an id that is not resting:
\* on a probe, on a rest, on a replacement and on every step of a rebuild.
FreshIdsOnly == mpc = "cross" => incoming.id \notin DOMAIN orderTable

\* "Probe sized to the smaller side always fully consumes itself in one trade
\* against `resting`": a probe that has returned made one trade, with the order
\* the manager looked at, for the quantity it asked for, and the quantities the
\* manager subtracts do not wrap.  So the loop never stops because the shadow is
\* out of step with the book.
ProbeTradesOnce ==
    pc = "probe" /\ mpc = "idle" =>
        /\ Len(trades) = 1
        /\ trades[1].resting = Head(shadow[StpSide][StpLevel])
        /\ trades[1].price = StpLevel
        /\ trades[1].quantity = MinOf(Remaining, orders[trades[1].resting].quantity)

\* Self-trade prevention: no trade pairs two orders of the same non-zero account,
\* although the check is made on the manager's copies and the trade by the matcher.
NoSelfTrade ==
    pc = "probe" =>
        \A i \in 1..Len(trades) :
            order.account = 0 \/ orders[trades[i].resting].account # order.account

\* "cancelReplace only rests, never trades", and neither does the remainder of a
\* matchOrder: addOrder on the matcher finds nothing to cross, not even while a
\* level is being rebuilt.
AddNeverTrades == pc \in {"rest", "rebuild", "requeue"} => trades = <<>>

\* An order that is Filled or Cancelled stays so, and its id never rests again.
TerminalIsFinal ==
    [][\A id \in DOMAIN orders :
          orders[id].status \in {"Filled", "Cancelled"} =>
              orders'[id] = orders[id] /\ id \notin active']_vars

\* Every call returns: the loop of matchWithStp and the loops of cancelReplace end.
ManagerCallReturns == pc # "idle" ~> pc = "idle"
=============================================================================
