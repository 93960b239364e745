\* Cancels leave live_order_count behind, until a book of no more orders than
\* the limit, in a pool of twice as many slots, rejects a price.
SPECIFICATION Spec
CONSTANTS
  Ids = {i1, i2, i3}
  Slots = {s1, s2, s3, s4}
  Prices = {0, 1, 2, 3, 5}
  Quantities = {1, 2}
  Band = 3
  RebaseLimit = 2
  CountBound = 5
  VolumeMod = 16
  NULL = NULL
INVARIANT SmallBookRebases
