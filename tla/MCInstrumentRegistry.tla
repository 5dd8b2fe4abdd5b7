------------------------- MODULE MCInstrumentRegistry -------------------------
(***************************************************************************)
(* InstrumentRegistry with three ids, so that one matchOrder can fill two  *)
(* resting orders, quantities up to 2, so that an order can be filled in   *)
(* part, amended and filled again, and a publisher that is up to MaxLog    *)
(* events behind when a call begins.                                       *)
(***************************************************************************)
EXTENDS InstrumentRegistry, TLC

\* Limit orders that are good till cancelled, and immediate-or-cancel orders of one
\* side; a market order differs from these in its price only.
SomeRequests ==
    {o \in Order : /\ o.type = "Limit"
                   /\ o.price > 0
                   /\ o.tif = "IOC" => o.side = "Buy"}

IdSymmetry == Permutations(OrderId)
=============================================================================
