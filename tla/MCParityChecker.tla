--------------------------- MODULE MCParityChecker ---------------------------
(***************************************************************************)
(* ParityChecker with three references and two orders, so that both share  *)
(* a level and one of them is reduced, moved behind the other or replaced  *)
(* under a reference that is new, was used before or is in use on another  *)
(* stock; two prices, and two shares in a message.  Two executions fill an *)
(* order in part and in full and reach the one behind it.  All quantities  *)
(* fit below MaxQuantity, as they do in 64 bits.                           *)
(***************************************************************************)
EXTENDS ParityChecker, TLC

Ids == Ref \cup FirstSyntheticId..LastSyntheticId

RefSymmetry == Permutations(Ref)
=============================================================================
