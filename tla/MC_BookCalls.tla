---------------------------- MODULE MC_BookCalls ----------------------------
(* Small instances of the book and its callers' contract for TLC.          *)
EXTENDS BookCalls, TLC

Symmetry == Permutations(Ids) \union Permutations(Slots)
=============================================================================
