-------------------------- MODULE MCOptimizedMatcher --------------------------
(***************************************************************************)
(* OptimizedMatcher with three ids and slabs of two orders, so that the    *)
(* pool grows twice and slots are reused; up to three orders pushed into a *)
(* level, so that tombstones appear at its front, in its middle and at its *)
(* end while it stays; two prices, so that an order can walk from one      *)
(* level to the next; quantities up to 2 for partial fills on either side. *)
(***************************************************************************)
EXTENDS MatcherRefinement, TLC

IdSymmetry == Permutations(OrderId)
=============================================================================
