--------------------------- MODULE MC_ItchFraming ---------------------------
(* Small instances of the framing loop for TLC: the files are laid out     *)
(* from all short sequences of types and lengths.                          *)
EXTENDS ItchFraming, FiniteSetsExt

CONSTANT MaxRecords

Laid(s) ==
  [k \in DOMAIN s |->
     [at   |-> MapThenSumSet(LAMBDA j : Prefix + s[j].len, 1 .. k - 1),
      type |-> s[k].type,
      len  |-> s[k].len]]

MCFiles ==
  UNION {{Laid(s) : s \in [1 .. n -> [type : Types, len : Lengths]]} :
           n \in 0 .. MaxRecords}
=============================================================================
