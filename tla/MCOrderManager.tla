---------------------------- MODULE MCOrderManager ----------------------------
(***************************************************************************)
(* OrderManager on a small instance.                                       *)
(*                                                                         *)
(* Three ids: two orders can rest in one level, in either order, while a   *)
(* third is probed against them or cancels, shrinks or requeues between    *)
(* them.  Quantity 2 gives partial fills on either side and an amendment   *)
(* that keeps priority; price 2 gives a level that crosses and one that    *)
(* does not.  Account 0 has no self-trade prevention, account 1 has it.    *)
(***************************************************************************)
EXTENDS BookInvariants, PriceTimeRefinement, TLC

\* The price and the time in force of a market order do not matter.  Orders without
\* a quantity and limit orders without a price are among them, to be rejected.  An
\* order that cannot rest has quantity 2: with 1 it would do what 2 does first.
SomeRequests ==
    {o \in Order : /\ o.type = "Market" => o.price = 0 /\ o.tif = "GTC"
                   /\ MayRest(o) \/ o.quantity = MaxQuantity}

\* Fewer of them: to the book an immediate-or-cancel order is a market order with a
\* limit, and one side of the market is enough for market orders.
FewerRequests ==
    {o \in SomeRequests : /\ o.tif = "GTC"
                          /\ o.type = "Market" => o.side = "Buy" /\ o.quantity = 2}

IdSymmetry == Permutations(OrderId)
=============================================================================
