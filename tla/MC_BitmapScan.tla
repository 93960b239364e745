--------------------------- MODULE MC_BitmapScan ----------------------------
(* Small instances of the bitmap for TLC.                                  *)
EXTENDS BitmapScan
=============================================================================
