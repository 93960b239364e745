--------------------------- MODULE MC_TableStore ----------------------------
(* Small instances of the memory behind the id table for TLC: ids hash to  *)
(* two neighbouring slots, so probe chains collide, shift and are cut.     *)
EXTENDS TableStore, TLC

NearHashes == [Ids -> {0, 1}]

Symmetry == Permutations(Ids)
=============================================================================
