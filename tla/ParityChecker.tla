---------------------------- MODULE ParityChecker ----------------------------
(***************************************************************************)
(* ParityChecker: every ITCH message goes to the feed's own book and to    *)
(* the exchange, and the two books are compared.                           *)
(*                                                                         *)
(* The feed is that of a venue with price-time priority.  venue holds the  *)
(* FIFO of each of its levels, which the messages do not show.  On this    *)
(* feed the order that executes is the front of the best level, a          *)
(* replacement goes to the back of its level, no order is entered that     *)
(* would cross, an execution with a price is at a price the order accepts, *)
(* and a reference is "unique per `stockLocate` for the life of the        *)
(* resting order": it may be used again once its order is gone, and on     *)
(* another stock at any time.                                              *)
(*                                                                         *)
(* The exchange cannot follow all of that.  Liberties is the set of the    *)
(* rules below that the feed does not keep:                                *)
(*                                                                         *)
(*   "reuse"   no order is entered under a number its instrument has had   *)
(*             as an id                                                    *)
(*   "stocks"  no order of another stock gets a reference that rests here, *)
(*             unless both orders have been entered under the same one     *)
(*   "shrink"  an order that is replaced at its price for no more shares   *)
(*             has none behind it                                          *)
(*   "stray"   an order that is gone is named by no execution and no       *)
(*             replacement, nor by any message if the map leads from it    *)
(*             to an active order                                          *)
(*   "excess"  no more shares are executed than are left                   *)
(*                                                                         *)
(* The comparison itself is a property of the states between messages.     *)
(***************************************************************************)
EXTENDS ItchEngineAdapter

CONSTANTS Stock,            \* the stock locate code
          Lots,             \* the shares of an order that is entered or replaced
          MaxShares,        \* bound on the shares of an execution or a cancel, and of Lots
          LastSyntheticId,  \* bound on the executions of a session
          MaxOrders,        \* bound on the orders entered in a session
          Liberties

ASSUME ParityAssumption ==
    /\ FirstSyntheticId \in Nat /\ LastSyntheticId \in Nat
    /\ Ref \cap FirstSyntheticId..LastSyntheticId = {}
    /\ Ref \cup FirstSyntheticId..LastSyntheticId \subseteq OrderId
    /\ MaxShares \in Nat /\ Lots \subseteq 1..MaxShares /\ MaxOrders \in Nat
    /\ 0 \in AccountId

VARIABLES
    feedBooks,   \* the books of the ItchBookBuilder
    venue,       \* the venue's FIFO of each side and price
    origin,      \* the reference each resting order was entered with
    feedVolume,  \* shares the feed's book lost by executions since the last end of messages
    executing    \* the execution that runs, for the properties

checkerVars == <<feedBooks, venue, origin, feedVolume, executing>>
parityVars == <<vars, adapterVars, checkerVars>>

Feed == INSTANCE ItchBookBuilder WITH books <- feedBooks, Locate <- {Stock}

NoVenue == [side \in Side |-> NoLevels]
NoRefs == [ref \in {} |-> NoOrder]

ParityInit ==
    /\ AdapterInit
    /\ Feed!FeedInit
    /\ venue = NoVenue
    /\ origin = NoRefs
    /\ feedVolume = 0
    /\ executing = NoOrder

-----------------------------------------------------------------------------
\* The rules of the feed.
FeedOrders == IF symbols THEN feedBooks[Stock].orders ELSE NoRefs

Resting(ref) == ref \in DOMAIN FeedOrders

\* A reference a cancel or a delete may name.
Named(ref) == Resting(ref) \/ EngineIdFor(ref) \notin active \/ "stray" \in Liberties

AtFront(ref) ==
    LET o == FeedOrders[ref]
    IN  o.price = Best(o.side, venue[o.side]) /\ ref = Head(venue[o.side][o.price])

AtBack(ref) ==
    LET fifo == venue[FeedOrders[ref].side][FeedOrders[ref].price]
    IN  ref = fifo[Len(fifo)]

\* The order a venue executes; a stray message may name any order it used to have.
Executable(ref, shares) ==
    /\ nextSyntheticId <= LastSyntheticId
    /\ IF Resting(ref)
       THEN AtFront(ref) /\ (shares <= FeedOrders[ref].shares \/ "excess" \in Liberties)
       ELSE EngineIdFor(ref) \in known \ active /\ "stray" \in Liberties

Enters(side, price) == \A q \in DOMAIN venue[Opposite(side)] : ~Reaches(side, price, q)

\* Another stock may give this reference to an order with this id.
Elsewhere(ref, id) == (Resting(ref) => origin[ref] = id) \/ "stocks" \in Liberties

VenueWithout(ref) ==
    [venue EXCEPT ![FeedOrders[ref].side] = EraseOrder(@, FeedOrders[ref].price, ref)]

\* The order has no shares left once it has lost these.
Gone(ref, shares) == Resting(ref) /\ shares >= FeedOrders[ref].shares

Forget(ref) == Restrict(origin, DOMAIN origin \ {ref})
Enter(map, ref, id) == [r \in DOMAIN map \cup {ref} |-> IF r = ref THEN id ELSE map[r]]

Reduce(ref, shares) ==
    /\ Feed!ReduceMessage(Stock, ref, shares)
    /\ venue' = IF Gone(ref, shares) THEN VenueWithout(ref) ELSE venue
    /\ origin' = IF Gone(ref, shares) THEN Forget(ref) ELSE origin

-----------------------------------------------------------------------------
\* process(), once the adapter is done with the last message: the builder applies the
\* message, then the adapter begins to.
EndOfMessages ==
    /\ pc = "idle"
    /\ Feed!EndOfMessages
    /\ HandleEndOfMessages
    /\ venue' = NoVenue
    /\ origin' = NoRefs
    /\ feedVolume' = 0
    /\ UNCHANGED executing

StockDirectory ==
    /\ pc = "idle"
    /\ Feed!StockDirectory(Stock)
    /\ HandleStockDirectory
    /\ UNCHANGED <<venue, origin, feedVolume, executing>>

AddOrderMessage(ref, side, shares, price) ==
    /\ pc = "idle"
    /\ ~Resting(ref) /\ Enters(side, price)
    /\ ref \notin known \/ "reuse" \in Liberties
    /\ Cardinality(known \cap Ref) < MaxOrders
    /\ Feed!AddOrderMessage(Stock, ref, side, shares, price)
    /\ HandleAddOrder(ref, side, shares, price)
    /\ venue' = IF symbols THEN [venue EXCEPT ![side] = PushBack(@, price, ref)] ELSE venue
    /\ origin' = IF symbols THEN Enter(origin, ref, ref) ELSE origin
    /\ UNCHANGED <<feedVolume, executing>>

\* What the two kinds of execution have in common.
Execution(ref, shares) ==
    /\ Reduce(ref, shares)
    /\ feedVolume' = feedVolume +
          (IF Resting(ref) THEN MinOf(shares, FeedOrders[ref].shares) ELSE 0)
    /\ executing' = IF pc' = "idle" THEN NoOrder
                    ELSE [resting |-> Resting(ref), id |-> IF Resting(ref) THEN origin[ref] ELSE ref]

ExecutedMessage(ref, shares) ==
    /\ pc = "idle"
    /\ Executable(ref, shares)
    /\ HandleExecuted(ref, shares)
    /\ Execution(ref, shares)

ExecutedWithPriceMessage(ref, shares, price) ==
    /\ pc = "idle"
    /\ Executable(ref, shares)
    /\ Resting(ref) => Reaches(FeedOrders[ref].side, FeedOrders[ref].price, price)
    /\ HandleExecutedWithPrice(ref, shares, price)
    /\ Execution(ref, shares)

CancelMessage(ref, shares) ==
    /\ pc = "idle"
    /\ Named(ref)
    /\ Reduce(ref, shares)
    /\ HandleCancel(ref, shares)
    /\ UNCHANGED <<feedVolume, executing>>

DeleteMessage(ref) ==
    /\ pc = "idle"
    /\ Named(ref)
    /\ Feed!DeleteMessage(Stock, ref)
    /\ HandleDelete(ref)
    /\ venue' = IF Resting(ref) THEN VenueWithout(ref) ELSE venue
    /\ origin' = IF Resting(ref) THEN Forget(ref) ELSE origin
    /\ UNCHANGED <<feedVolume, executing>>

ReplaceMessage(ref, new, shares, price) ==
    /\ pc = "idle"
    /\ Resting(ref) \/ "stray" \in Liberties
    /\ ~Resting(new) /\ new # ref
    /\ Resting(ref) =>
          /\ Enters(FeedOrders[ref].side, price)
          /\ \/ price # FeedOrders[ref].price \/ shares > FeedOrders[ref].shares
             \/ AtBack(ref) \/ "shrink" \in Liberties
    /\ Feed!ReplaceMessage(Stock, ref, new, shares, price)
    /\ HandleReplace(ref, new, shares, price)
    /\ venue' = IF Resting(ref)
                THEN [VenueWithout(ref) EXCEPT ![FeedOrders[ref].side] = PushBack(@, price, new)]
                ELSE venue
    /\ origin' = IF Resting(ref) THEN Enter(Forget(ref), new, origin[ref]) ELSE origin
    /\ UNCHANGED <<feedVolume, executing>>

\* The same messages for other stocks, as far as they change where a reference leads.
\* There are any number of these stocks: on one of them an order may have been entered
\* under every id that some reference leads to.
OtherAddOrderMessage(ref) ==
    /\ pc = "idle"
    /\ EngineIdFor(ref) # ref
    /\ Elsewhere(ref, ref)
    /\ HandleOtherAddOrder(ref)
    /\ UNCHANGED checkerVars

OtherReplaceMessage(ref, new) ==
    /\ pc = "idle"
    /\ EngineIdFor(new) # EngineIdFor(ref)
    /\ Elsewhere(new, EngineIdFor(ref))
    /\ HandleOtherReplace(ref, new)
    /\ UNCHANGED checkerVars

\* The adapter works on the message.
ProcessStep ==
    /\ AdapterStep
    /\ executing' = IF pc' = "idle" THEN NoOrder ELSE executing
    /\ UNCHANGED <<feedBooks, venue, origin, feedVolume>>

\* An execution of so many shares, and the other messages.
Executes(shares) ==
    \E ref \in Ref :
        \/ ExecutedMessage(ref, shares)
        \/ \E price \in 1..MaxPrice : ExecutedWithPriceMessage(ref, shares, price)

OtherMessage ==
    \/ EndOfMessages
    \/ StockDirectory
    \/ \E ref \in Ref :
          \/ DeleteMessage(ref)
          \/ OtherAddOrderMessage(ref)
          \/ \E new \in Ref : OtherReplaceMessage(ref, new)
          \/ \E shares \in 1..MaxShares : CancelMessage(ref, shares)
          \/ \E shares \in Lots, price \in 1..MaxPrice :
                \/ \E side \in Side : AddOrderMessage(ref, side, shares, price)
                \/ \E new \in Ref : ReplaceMessage(ref, new, shares, price)

ParityNext ==
    \/ \E shares \in 1..MaxShares : Executes(shares)
    \/ OtherMessage
    \/ ProcessStep

ParitySpec == ParityInit /\ [][ParityNext]_parityVars

-----------------------------------------------------------------------------
\* The adapter is done with the message and the books are compared.
Checkpoint == pc = "idle" /\ symbols

FeedDepth(side, depth) == DepthFrom(side, feedBooks[Stock].levels[side], depth)

\* compareAllLocates() finds both sides equal, to this depth.
BooksMatch(depth) == \A side \in Side : FeedDepth(side, depth) = Depth(side, depth)

\* On the feed of a price-time venue that keeps the rules above the comparison never
\* reports a mismatch, and would not if it compared every level instead of the best.
NoMismatch == Checkpoint => BooksMatch(1) /\ BooksMatch(MaxPrice)

\* "later messages against the new ITCH ref resolve to the same underlying engine
\* order": engineIdForRef_ leads from each resting reference, after any chain of
\* replacements, to the id the order was entered with; these are the active orders of
\* the exchange, with side, price and what is left, and every level of the exchange
\* has the venue's order of priority.
RefsResolve ==
    Checkpoint =>
        /\ \A ref \in DOMAIN FeedOrders : EngineIdFor(ref) = origin[ref]
        /\ {origin[ref] : ref \in DOMAIN FeedOrders} = active
        /\ Cardinality(active) = Cardinality(DOMAIN FeedOrders)
        /\ \A ref \in DOMAIN FeedOrders :
              LET o == orders[origin[ref]]
              IN  /\ FeedOrders[ref].side = o.side
                  /\ FeedOrders[ref].price = o.price
                  /\ FeedOrders[ref].shares = o.quantity
        /\ \A side \in Side : \A p \in DOMAIN venue[side] :
              [i \in 1..Len(venue[side][p]) |-> origin[venue[side][p][i]]] = book[side][p]

\* The synthetic order trades with the order that was entered for the execution's
\* reference and with no other one, also when the message says more than is left, and
\* what has been traded since the last end of messages is what the feed's orders lost.
ExecutionHitsItsOrder ==
    /\ executing # NoOrder => \A i \in 1..Len(allTrades) : allTrades[i].resting = executing.id
    /\ pc = "idle" => tradeVolume = feedVolume

\* The level totals of the feed's book, which the comparison reads, are the sums of its
\* resting orders, although each message only changes them by a difference.
LevelsSumOrders == Feed!LevelsSumOrders

\* "False if the message was ignored (no prior R for its locate, or the referenced
\* order isn't resting)": an execution of an order that does not rest is ignored.
StrayExecutionIgnored == executing # NoOrder /\ ~executing.resting => allTrades = <<>>
=============================================================================
