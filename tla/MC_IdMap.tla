------------------------------ MODULE MC_IdMap ------------------------------
(* Small instances of the id table for TLC: every hash function of the ids *)
(* into the table is an initial state; or, to fill a table, one hash       *)
(* function and ids that arrive in order.  The table has the size the      *)
(* constructor gives it.                                                   *)
EXTENDS IdMap, Sizing, TLC

MCShifts == <<1, 2, 4>>

ASSUME CapAssumption == Cap = TableSize(Cardinality(Vals))

AllHashes == [Ids -> 0 .. Cap - 1]

Symmetry == Permutations(Ids) \union Permutations(Vals)

(* Home slots of ids 1 to 10.                                              *)
FillHash   == <<0, 1, 0, 0, 4, 1, 1, 0, 4, 0>>
FillHashes == {[id \in Ids |-> FillHash[id]]}

FillSymmetry == Permutations(Vals)

FillSpec == Init /\ [][Next /\ \E n \in 0 .. Cardinality(Ids) : used' = 1 .. n]_vars

-----------------------------------------------------------------------------
(* What IdMap takes for granted of its size, for every max_orders: a power *)
(* of two, so that & mask_ is a remainder, and up to a quarter of the range*)
(* of uint32_t the least one that leaves the table half empty.             *)
Powers == {2 ^ k : k \in 0 .. Width}

ASSUME SizesExact ==
  \A m \in 1 .. Limit \div 4 : TableSize(m) = Min({p \in Powers : p >= 2 * m})

ASSUME MaskIsModulo ==
  \A cap \in {TableSize(m) : m \in 1 .. 2 * Limit - 1} \ {0} :
    \A x \in 0 .. Limit - 1 : x & (cap - 1) = x % cap

(* Beyond it the doubling and the rounding wrap, and the table is smaller  *)
(* than the pool it serves.                                                *)
ASSUME LargePoolsWrap ==
  \A m \in Limit \div 4 + 1 .. Limit - 1 : TableSize(m) < PoolSize(m)
=============================================================================
