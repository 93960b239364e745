\* A resting order the table no longer finds.
SPECIFICATION Spec
CONSTANTS
  Ids = {a, b, c}
  Vals = {v1, v2, v3}
  Width = 8
  Shifts <- MCShifts
  Cap = 8
  Hashes <- AllHashes
  EMPTY = EMPTY
SYMMETRY Symmetry
INVARIANTS
  FindsEveryHeld
CHECK_DEADLOCK FALSE
