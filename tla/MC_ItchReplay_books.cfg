\* Two tracked stocks, one that is not allowed (3) and one that is allowed but
\* beyond the table of books (5); three orders in turn.
SPECIFICATION Spec
CONSTANTS
  Ids = {i1, i2, i3}
  NULL = NULL
  Locates = {1, 2, 3, 5}
  Allowed = {1, 2, 5}
  kMaxStockLocate = 4
  Prices = {1, 2, 3}
  Quantities = {1, 2, 3}
SYMMETRY Symmetry
INVARIANTS
  NoGhosts
  RestingIsRouted
  EntriesLeadHome
  ExactUnlessLost
PROPERTIES
  TradesOnlyIfFeedCrosses
CHECK_DEADLOCK FALSE
