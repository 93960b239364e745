\* Words of 3 bits, 3 of them, the last one not full.
SPECIFICATION Spec
CONSTANTS
  WordBits = 3
  Band = 8
  NONE = NONE
INVARIANTS
  ScanExact
