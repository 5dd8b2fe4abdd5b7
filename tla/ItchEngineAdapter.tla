-------------------------- MODULE ItchEngineAdapter --------------------------
(***************************************************************************)
(* ItchEngineAdapter: replays ITCH messages onto the exchange.             *)
(*                                                                         *)
(* Each handler makes at most one call of the order manager, through the   *)
(* registry: it begins the call, and AdapterStep runs the manager to the   *)
(* end of it.  What a handler does after the call returns (adding up the   *)
(* trades) happens on the last step of the call; what depends only on      *)
(* whether the call is accepted is done at its beginning, where that is    *)
(* decided.                                                                *)
(*                                                                         *)
(* One stock is followed with its instrument, and symbols says whether it  *)
(* has been registered.  The other stocks have instruments of their own    *)
(* but share engineIdForRef_, nextSyntheticId_ and tradeVolume_ with it:   *)
(* there is one map for the references of all stocks.  Of their messages   *)
(* the model has what they do to this shared state.                        *)
(***************************************************************************)
EXTENDS OrderManager, SequencesExt

CONSTANTS Ref,              \* order reference numbers
          FirstSyntheticId  \* 1'000'000'000

VARIABLES
    symbols,          \* symbols_: the stock has a symbol and an instrument
    engineIdForRef,   \* engineIdForRef_
    nextSyntheticId,  \* nextSyntheticId_
    tradeVolume       \* tradeVolume_

adapterVars == <<symbols, engineIdForRef, nextSyntheticId, tradeVolume>>

AdapterInit ==
    /\ Init
    /\ symbols = FALSE
    /\ engineIdForRef = [ref \in {} |-> NoOrder]
    /\ nextSyntheticId = FirstSyntheticId
    /\ tradeVolume = 0

\* An order of the adapter has no account.
EngineOrder(id, side, price, quantity, tif) ==
    [id |-> id, side |-> side, price |-> price, quantity |-> quantity,
     account |-> 0, type |-> "Limit", tif |-> tif]

\* Mutant: the reference is the id, also after a replacement.
EngineIdFor_Ref(ref) == ref

EngineIdFor(ref) == IF ref \in DOMAIN engineIdForRef THEN engineIdForRef[ref] ELSE ref

\* findOrder() finds every order the manager has ever recorded.
Known(ref) == symbols /\ EngineIdFor(ref) \in DOMAIN orders

Existing(ref) == orders[EngineIdFor(ref)]

\* A call the manager may reject, in which case nothing changes.
Submit(o) == IF ValidateNewOrder(o, known) = "None" THEN AddOrderCall(o) ELSE UNCHANGED vars
Match(o) == IF ValidateNewOrder(o, known) = "None" THEN MatchOrderCall(o) ELSE UNCHANGED vars
Cancel(id) == IF id \in active THEN CancelOrderCall(id) ELSE UNCHANGED vars
Amend(o) == IF ReplaceAccepted(o) THEN AmendInPlace(o) \/ AmendRequeue(o) ELSE UNCHANGED vars

Ignore == UNCHANGED <<vars, adapterVars>>

MapRef(ref, id) ==
    [r \in DOMAIN engineIdForRef \cup {ref} |-> IF r = ref THEN id ELSE engineIdForRef[r]]

-----------------------------------------------------------------------------
\* 'S' with event code 'C': reset().
HandleEndOfMessages ==
    /\ DropInstrument
    /\ symbols' = FALSE
    /\ engineIdForRef' = [ref \in {} |-> NoOrder]
    /\ nextSyntheticId' = FirstSyntheticId
    /\ tradeVolume' = 0

\* 'R'.
HandleStockDirectory ==
    /\ symbols' = TRUE
    /\ UNCHANGED <<vars, engineIdForRef, nextSyntheticId, tradeVolume>>

\* 'A' and 'F'.
HandleAddOrder(ref, side, shares, price) ==
    IF ~symbols THEN Ignore
    ELSE /\ engineIdForRef' = MapRef(ref, ref)
         /\ Submit(EngineOrder(ref, side, price, shares, "GTC"))
         /\ UNCHANGED <<symbols, nextSyntheticId, tradeVolume>>

\* Mutant: the synthetic order is as large as the resting one.
ApplyExecuted_All(ref, executedShares, price) ==
    IF ~Known(ref) THEN Ignore
    ELSE /\ Match(EngineOrder(nextSyntheticId, Opposite(Existing(ref).side), price,
                              Existing(ref).quantity, "IOC"))
         /\ nextSyntheticId' = nextSyntheticId + 1
         /\ UNCHANGED <<symbols, engineIdForRef, tradeVolume>>

\* Mutant: the synthetic order is as large as the message says.
ApplyExecuted_Unclamped(ref, executedShares, price) ==
    IF ~Known(ref) THEN Ignore
    ELSE /\ Match(EngineOrder(nextSyntheticId, Opposite(Existing(ref).side), price,
                              executedShares, "IOC"))
         /\ nextSyntheticId' = nextSyntheticId + 1
         /\ UNCHANGED <<symbols, engineIdForRef, tradeVolume>>

\* applyExecuted(): an immediate-or-cancel order against the resting one.
ApplyExecuted(ref, executedShares, price) ==
    IF ~Known(ref) THEN Ignore
    ELSE /\ Match(EngineOrder(nextSyntheticId, Opposite(Existing(ref).side), price,
                              MinOf(executedShares, Existing(ref).quantity), "IOC"))
         /\ nextSyntheticId' = nextSyntheticId + 1
         /\ UNCHANGED <<symbols, engineIdForRef, tradeVolume>>

\* 'E' executes at the price of the order, 'C' at a price of its own.
HandleExecuted(ref, shares) == ApplyExecuted(ref, shares, Existing(ref).price)
HandleExecutedWithPrice(ref, shares, price) == ApplyExecuted(ref, shares, price)

\* 'X'.
HandleCancel(ref, shares) ==
    /\ IF ~Known(ref) THEN UNCHANGED vars
       ELSE LET remaining == Existing(ref).quantity - MinOf(shares, Existing(ref).quantity)
            IN  IF remaining = 0 THEN Cancel(EngineIdFor(ref))
                ELSE Amend(EngineOrder(EngineIdFor(ref), Existing(ref).side,
                                       Existing(ref).price, remaining, "GTC"))
    /\ UNCHANGED adapterVars

\* 'D'.
HandleDelete(ref) ==
    /\ IF symbols THEN Cancel(EngineIdFor(ref)) ELSE UNCHANGED vars
    /\ UNCHANGED adapterVars

\* 'U': the order keeps its id and its side.
HandleReplace(ref, new, shares, price) ==
    IF ~Known(ref) THEN Ignore
    ELSE LET o == EngineOrder(EngineIdFor(ref), Existing(ref).side, price, shares, "GTC")
         IN  /\ Amend(o)
             /\ engineIdForRef' = IF ReplaceAccepted(o) THEN MapRef(new, o.id) ELSE engineIdForRef
             /\ UNCHANGED <<symbols, nextSyntheticId, tradeVolume>>

-----------------------------------------------------------------------------
\* 'A' and 'F' for another stock.
HandleOtherAddOrder(ref) ==
    /\ engineIdForRef' = MapRef(ref, ref)
    /\ UNCHANGED <<vars, symbols, nextSyntheticId, tradeVolume>>

\* 'U' for another stock, when the reference leads to an order of that stock.
HandleOtherReplace(ref, new) ==
    /\ engineIdForRef' = MapRef(new, EngineIdFor(ref))
    /\ UNCHANGED <<vars, symbols, nextSyntheticId, tradeVolume>>

-----------------------------------------------------------------------------
\* The manager works on the call; the trades of an execution are added up at its end.
AdapterStep ==
    /\ CallStep
    /\ tradeVolume' =
         IF pc' = "idle" /\ order.tif = "IOC"
         THEN tradeVolume + FoldLeft(LAMBDA total, trade : total + trade.quantity, 0, allTrades)
         ELSE tradeVolume
    /\ UNCHANGED <<symbols, engineIdForRef, nextSyntheticId>>
=============================================================================
