---------------------------- MODULE MC_OrderBook ----------------------------
(* Small instances of the order book for TLC.                              *)
EXTENDS PriceTimeRefinement, TLC

Symmetry == Permutations(Ids) \union Permutations(Slots)
=============================================================================
