---------------------------- MODULE BookInvariants ----------------------------
(***************************************************************************)
(* checkInvariants() and checkOrderManagerInvariants(): the checkers the   *)
(* tests run between two calls, as the set of the names they report.       *)
(*                                                                         *)
(* They walk levels and table of a ReferenceMatcher and, level by level,   *)
(* the shadow queues of its manager.  PriceLevelsOrdered is left out: the  *)
(* keys of a std::map are visited in strictly ascending order.             *)
(***************************************************************************)
EXTENDS OrderManager

\* The levels of both sides.
Levels == UNION {{<<side, p>> : p \in DOMAIN book[side]} : side \in Side}
Fifo(level) == book[level[1]][level[2]]

RestingCount == MapThenSumSet(LAMBDA level : Len(Fifo(level)), Levels)

Reported(name, found) == IF found THEN {name} ELSE {}

\* checkReferenceMatcherInvariants().
CheckReferenceMatcherInvariants ==
    UNION {
      Reported("NoZeroQuantityRestingOrders",
          \E level \in Levels : \E id \in Range(Fifo(level)) : orderTable[id].quantity = 0),
      Reported("OrderPriceMatchesLevel",
          \E level \in Levels : \E id \in Range(Fifo(level)) : orderTable[id].price # level[2]),
      Reported("OrderTableSizeMatchesRestingCount",
          RestingCount # Cardinality(DOMAIN orderTable)),
      Reported("OrderTableLocationsAccurate",
          \E id \in DOMAIN orderTable :
              LET level == <<orderTable[id].side, orderTable[id].price>>
              IN  level \notin Levels \/ id \notin Range(Fifo(level))),
      Reported("NoCrossedBookAtRest",
          /\ \A side \in Side : DOMAIN book[side] # {}
          /\ ~(BestPrice("Buy") < BestPrice("Sell")))}

\* checkOrderManagerInvariants().
CheckOrderManagerInvariants ==
    CheckReferenceMatcherInvariants \cup
    UNION {
      Reported("StatusConsistentWithActive",
          \E id \in active : \/ id \notin DOMAIN orders
                             \/ orders[id].status \notin {"New", "PartiallyFilled"}),
      Reported("ActiveIdsSubsetOfOrderTable", ~(active \subseteq DOMAIN orderTable)),
      Reported("ShadowQueueMatchesMatcherFifo",
          \E side \in Side : \E p \in DOMAIN shadow[side] :
              shadow[side][p] # IF p \in DOMAIN book[side] THEN book[side][p] ELSE <<>>)}

\* The checkers find nothing between two calls, after any sequence of orders, fills,
\* cancels, amendments and rejected calls.
CheckersFindNothing == pc = "idle" => CheckOrderManagerInvariants = {}
=============================================================================
