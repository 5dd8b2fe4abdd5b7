-------------------------- MODULE MatcherRefinement --------------------------
(***************************************************************************)
(* OptimizedMatcher is a "drop-in IMatcher with identical price-time-      *)
(* priority semantics to ReferenceMatcher": reading the pointers of a      *)
(* level from front to back gives a level of the reference matcher.        *)
(***************************************************************************)
EXTENDS OptimizedMatcher

\* How many live places there are up to one of them, and the k-th of them.
Rank(level, i) == Cardinality({j \in LivePlaces(level) : j <= i})
NthLive(level, k) == CHOOSE i \in LivePlaces(level) : Rank(level, i) = k

\* The ids of the orders a level points to, from front to back.
IdsOf(mem, level) ==
    [k \in 1..Cardinality(LivePlaces(level)) |-> mem[level.orders[NthLive(level, k)]].id]

ReferenceBook ==
    [side \in Side |-> [p \in DOMAIN levels[side] |-> IdsOf(memory, levels[side][p])]]

ReferenceTable ==
    [id \in DOMAIN refs |->
        [side |-> refs[id].side, price |-> refs[id].price, quantity |-> memory[SlotOf(id)].quantity]]

Reference == INSTANCE ReferenceMatcher WITH book <- ReferenceBook, orderTable <- ReferenceTable

\* Every behaviour of OptimizedMatcher is one of ReferenceMatcher: the same trades
\* with the same orders in the same sequence, and the same book after every step.
ImplementsReferenceMatcher == Reference!MatcherSpec

\* The trades of one call of OptimizedMatcher walk the book outwards, level after
\* level: none is worse for the incoming order than its limit, and none is better than
\* the trade before it.
TradesWalkTheBook == Reference!TradesWalkTheBook

\* In every state a snapshot of the book is the one ReferenceMatcher would give: the
\* same best prices and, to any number of levels, the same depth.
SameMarketData ==
    \A side \in Side :
        /\ BestPrice(side) = Reference!BestPrice(side)
        /\ \A n \in 0..MaxPrice + 1 : Depth(side, n) = Reference!Depth(side, n)
=============================================================================
