------------------------------- MODULE Sizing -------------------------------
(***************************************************************************)
(* How many slots the id table of a book has for a given max_orders: the   *)
(* conversions of OrderBook's constructor, the doubling in 32 bits and     *)
(* round_up_pow2, which is applied twice, by OrderBook.cpp and again by    *)
(* IdMap.  Width stands for 32; max_orders is wider, 64 bits in the code.  *)
(***************************************************************************)
EXTENDS Integers, Sequences, Bitwise

CONSTANTS
  Width,    \* bits of a uint32_t
  Shifts    \* the shifts of round_up_pow2, in turn: 1, 2, 4, 8, 16

Limit == 2 ^ Width

(* v |= v >> s, for every s of Shifts: all bits below the highest are set. *)
Smear(v) ==
  LET smear[k \in 0 .. Len(Shifts)] ==
        IF k = 0 THEN v ELSE smear[k - 1] | (smear[k - 1] \div 2 ^ Shifts[k])
  IN  smear[Len(Shifts)]

(* Of 0 the result is 1; above the highest power of two it wraps to 0.     *)
RoundUp(v) == IF v <= 1 THEN 1 ELSE (Smear(v - 1) + 1) % Limit

PoolSize(max_orders)  == max_orders % Limit
TableSize(max_orders) == RoundUp(RoundUp((PoolSize(max_orders) * 2) % Limit))
=============================================================================
