-------------------------- MODULE InstrumentRegistry --------------------------
(***************************************************************************)
(* InstrumentRegistry, which logs what its order managers do, and          *)
(* EventPublisher, which derives execution reports from the log alone.     *)
(*                                                                         *)
(* Instruments share nothing but the numbering of the events, so one       *)
(* symbol is modelled, with its OrderManager step by step.  log is the     *)
(* part of eventLog_ the publisher has not processed: it may lag behind    *)
(* the registry by any number of events up to MaxLog, and never reads an   *)
(* event again.  The reports are output: one has the leaves quantity of    *)
(* the order's state at that point.                                        *)
(***************************************************************************)
EXTENDS OrderManager

CONSTANT MaxLog  \* bound on the events the publisher lags behind

ASSUME LogAssumption == MaxLog \in Nat

VARIABLES
    registered,   \* the symbol has an instrument
    op,           \* the registry operation that runs: "none", "submit", "match", "replace"
    log,          \* events the publisher has still to process
    orderStates,  \* the publisher's OrderState of each order it has seen
    silent        \* history: orders with a trade submitOrder left out of the log

registryVars == <<registered, op, log, orderStates, silent>>
allVars == <<vars, registryVars>>

RegistryInit ==
    /\ Init
    /\ registered = FALSE
    /\ op = "none"
    /\ log = <<>>
    /\ orderStates = [id \in {} |-> NoOrder]
    /\ silent = {}

-----------------------------------------------------------------------------
Submitted(o) == [event |-> "OrderSubmitted", id |-> o.id, quantity |-> o.quantity]
Replaced(o) == [event |-> "OrderReplaced", id |-> o.id, quantity |-> o.quantity]
Cancelled(id) == [event |-> "OrderCancelled", id |-> id]
Rejected(id) == [event |-> "OrderRejected", id |-> id]
Executed(trade) == [event |-> "TradeExecuted", incoming |-> trade.incoming,
                    resting |-> trade.resting, quantity |-> trade.quantity]

ExecutedAll(ts) == [i \in 1..Len(ts) |-> Executed(ts[i])]

\* The registry is free and the log has room.
Ready == pc = "idle" /\ Len(log) < MaxLog

\* createInstrument(): a no-op for a symbol that has one.
CreateInstrument ==
    /\ pc = "idle"
    /\ registered' = TRUE
    /\ UNCHANGED <<vars, op, log, orderStates, silent>>

\* A call enters the order manager.
Enter(operation) ==
    /\ Ready
    /\ registered
    /\ op' = operation
    /\ UNCHANGED <<registered, log, orderStates, silent>>

SubmitOrder(o) == Enter("submit") /\ AddOrderCall(o)
MatchOrderReq(o) == Enter("match") /\ MatchOrderCall(o)
CancelReplace(o) == Enter("replace") /\ (AmendInPlace(o) \/ AmendRequeue(o))

\* cancelOrder() of an order that rests.
CancelOrderReq(id) ==
    /\ Ready
    /\ registered
    /\ CancelOrderCall(id)
    /\ log' = Append(log, Cancelled(id))
    /\ UNCHANGED <<registered, op, orderStates, silent>>

\* A call the manager rejects, or any call without an instrument.
Reject(id) ==
    /\ Ready
    /\ \/ ~registered
       \/ id \notin active
       \/ {o \in Requests : o.id = id /\ (ValidateNewOrder(o, known) # "None" \/ ~MayRest(o))} # {}
    /\ log' = Append(log, Rejected(id))
    /\ UNCHANGED <<vars, registered, op, orderStates, silent>>

\* Mutant: the trades are logged before the order.
EventsOf_TradesFirst ==
    CASE op = "submit"  -> <<Submitted(order)>>
      [] op = "match"   -> Append(ExecutedAll(allTrades), Submitted(order))
      [] op = "replace" -> <<Replaced(order)>>

\* Mutant: matchOrder logs its first trade only.
EventsOf_OneTrade ==
    CASE op = "submit"  -> <<Submitted(order)>>
      [] op = "match"   -> <<Submitted(order)>> \o ExecutedAll(SubSeq(allTrades, 1, MinOf(1, Len(allTrades))))
      [] op = "replace" -> <<Replaced(order)>>

\* What is logged when the manager accepts: submitOrder drops the trades, as
\* OrderManager::addOrder does.
EventsOf ==
    CASE op = "submit"  -> <<Submitted(order)>>
      [] op = "match"   -> <<Submitted(order)>> \o ExecutedAll(allTrades)
      [] op = "replace" -> <<Replaced(order)>>

\* The manager works on the call, and the registry logs the events on its return.
ManagerStep ==
    /\ CallStep
    /\ IF pc' # "idle" THEN UNCHANGED <<op, log, silent>>
       ELSE /\ op' = "none"
            /\ log' = log \o EventsOf
            /\ silent' = IF op # "submit" THEN silent
                         ELSE silent \cup {allTrades[i].incoming : i \in 1..Len(allTrades)}
                                     \cup {allTrades[i].resting : i \in 1..Len(allTrades)}
    /\ UNCHANGED <<registered, orderStates>>

\* reset(): every instrument and the log are dropped; the publisher is not told.
Reset ==
    /\ DropInstrument
    /\ registered
    /\ registered' = FALSE
    /\ log' = <<>>
    /\ silent' = {}
    /\ UNCHANGED <<op, orderStates>>

-----------------------------------------------------------------------------
\* leavesQty, by unsigned subtraction.
LeavesOf(state) == Minus(state.originalQty, state.cumQty)

\* orderStates_[symbol][id] = state.
SetState(id, state) ==
    [k \in DOMAIN orderStates \cup {id} |-> IF k = id THEN state ELSE orderStates[k]]

\* orderStates_[symbol][id], which operator[] creates if it is missing.
StateOf(id) ==
    IF id \in DOMAIN orderStates THEN orderStates[id] ELSE [originalQty |-> 0, cumQty |-> 0]

\* handle(OrderSubmitted).
HandleSubmitted(e) ==
    orderStates' = SetState(e.id, [originalQty |-> e.quantity, cumQty |-> 0])

\* handle(TradeExecuted): emitFill for the incoming and then for the resting order,
\* if the publisher knows it.
HandleExecuted(e) ==
    orderStates' = [id \in DOMAIN orderStates |->
        IF id \in {e.incoming, e.resting}
        THEN [orderStates[id] EXCEPT !.cumQty = Plus(@, e.quantity)] ELSE orderStates[id]]

\* Mutant: what was filled before is forgotten.
HandleReplaced_Restart(e) ==
    orderStates' = SetState(e.id, [StateOf(e.id) EXCEPT !.originalQty = e.quantity])

\* handle(OrderReplaced).
HandleReplaced(e) ==
    orderStates' = SetState(e.id,
           [StateOf(e.id) EXCEPT !.originalQty = Plus(StateOf(e.id).cumQty, e.quantity)])

\* process() of the next event of the log.  handle(OrderCancelled) and
\* handle(OrderRejected) only report.
Process ==
    /\ pc = "idle"
    /\ log # <<>>
    /\ log' = Tail(log)
    /\ LET e == Head(log)
       IN  CASE e.event = "OrderSubmitted" -> HandleSubmitted(e)
             [] e.event = "TradeExecuted"  -> HandleExecuted(e)
             [] e.event = "OrderReplaced"  -> HandleReplaced(e)
             [] OTHER                      -> UNCHANGED orderStates
    /\ UNCHANGED <<vars, registered, op, silent>>

\* clear() of the publisher.
Clear ==
    /\ pc = "idle"
    /\ orderStates' = [id \in {} |-> NoOrder]
    /\ UNCHANGED <<vars, registered, op, log, silent>>

RegistryNext ==
    \/ CreateInstrument
    \/ \E o \in Requests : SubmitOrder(o) \/ MatchOrderReq(o) \/ CancelReplace(o)
    \/ \E id \in OrderId : CancelOrderReq(id) \/ Reject(id)
    \/ ManagerStep
    \/ Reset
    \/ Process
    \/ Clear

RegistrySpec == RegistryInit /\ [][RegistryNext]_allVars

-----------------------------------------------------------------------------
\* Once the publisher has caught up, the leaves quantity it derives from the log is
\* the quantity the manager holds for the order, through fills from either side,
\* amendments, clear() and reset().  For an order that took part in a trade
\* submitOrder did not log it is never too low.
LeavesMatchBook ==
    pc = "idle" /\ log = <<>> =>
        \A id \in DOMAIN orders \cap DOMAIN orderStates :
            /\ LeavesOf(orderStates[id]) >= orders[id].quantity
            /\ id \notin silent => LeavesOf(orderStates[id]) = orders[id].quantity

\* What is logged about an order comes after the event that introduces it, so that a
\* publisher that follows the log drops no fill.
SubmittedComesFirst ==
    \A i, j \in 1..Len(log) :
        i < j /\ log[j].event = "OrderSubmitted" =>
            CASE log[i].event = "OrderRejected" -> TRUE
              [] log[i].event = "TradeExecuted" -> log[j].id \notin {log[i].incoming, log[i].resting}
              [] OTHER -> log[i].id # log[j].id

\* A fill takes from the leaves quantity what was left of it: the unsigned
\* subtraction in emitFill never wraps, however far the publisher lags behind and
\* whatever trades submitOrder has kept from it.
LeavesCountDown ==
    [][Process /\ Head(log).event = "TradeExecuted" =>
          \A id \in DOMAIN orderStates \cap {Head(log).incoming, Head(log).resting} :
              LeavesOf(orderStates'[id]) < LeavesOf(orderStates[id])]_allVars
=============================================================================
