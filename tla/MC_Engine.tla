----------------------------- MODULE MC_Engine ------------------------------
(* Small instances of the nanomatch binary for TLC.  Cancels name any id,  *)
(* also of an order that is gone or was never placed.                      *)
EXTENDS Engine

CONSTANTS MaxRecords, Quantities

Limits  == [type : {"L"}, id : Ids, side : {0, 1, 2}, price : {1, TopPrice}, qty : Quantities]
Markets == [type : {"M"}, id : {NULL}, side : {0, 1}, price : {0}, qty : Quantities]
Others  == [type : {"C", "?"}, id : Ids, side : {0}, price : {0}, qty : {0}]

MCFiles ==
  UNION {{f \in [1 .. n -> Limits \union Markets \union Others] : WellFormed(f)} :
           n \in 0 .. MaxRecords}
=============================================================================
