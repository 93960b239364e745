\* Three resting orders in a table of 8; every id is used once, so the
\* run ends when all have come and gone.
SPECIFICATION Spec
CONSTANTS
  Ids = {a, b, c, d}
  Vals = {v1, v2, v3}
  Width = 8
  Shifts <- MCShifts
  Cap = 8
  Hashes <- AllHashes
  EMPTY = EMPTY
SYMMETRY Symmetry
INVARIANTS
  HeldStoredOnce
PROPERTIES
  OrderedEraseKeepsLookups
CHECK_DEADLOCK FALSE
