--------------------------- MODULE MC_ItchReplay ----------------------------
(* Small instances of the order routing for TLC.                           *)
EXTENDS ItchReplay, TLC

Symmetry == Permutations(Ids)
=============================================================================
