\* Entries that outlive their orders fill a table of 8 behind a pool of 4.
SPECIFICATION FillSpec
CONSTANTS
  Ids = {1, 2, 3, 4, 5, 6, 7, 8, 9, 10}
  Vals = {v1, v2, v3, v4}
  Width = 8
  Shifts <- MCShifts
  Cap = 8
  Hashes <- FillHashes
  EMPTY = EMPTY
SYMMETRY FillSymmetry
INVARIANTS
  ProbesEnd
CHECK_DEADLOCK FALSE
