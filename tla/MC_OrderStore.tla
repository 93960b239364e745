--------------------------- MODULE MC_OrderStore ----------------------------
(* Small instances of the book's memory for TLC.                           *)
EXTENDS OrderStore

CONSTANT MaxPrice

MCPrices == 0 .. MaxPrice
=============================================================================
