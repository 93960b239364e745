\* An order is taken off the book by a call on another id.
SPECIFICATION TableSpec
CONSTANTS
  MaxOrders = 3
  Band = 2
  Prices = {0, 1}
  NULL = NULL
  Ids = {a, b, c, d}
  Cap = 8
  Hashes <- NearHashes
SYMMETRY Symmetry
INVARIANTS
  CancelsItsOwn
CHECK_DEADLOCK FALSE
