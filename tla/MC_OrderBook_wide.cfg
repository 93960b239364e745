\* A window wide enough for every price, so that it is anchored and stays:
\* the book is compared with the abstract price-time book.
SPECIFICATION Spec
CONSTANTS
  Ids = {i1, i2, i3}
  Slots = {s1, s2}
  Prices = {4, 5}
  Quantities = {1, 2}
  Band = 6
  RebaseLimit = 2
  CountBound = 4
  VolumeMod = 3
  NULL = NULL
INVARIANTS
  TopQtyNeverOverstates
PROPERTIES
  ImplementsPriceTime
  CallReturns
