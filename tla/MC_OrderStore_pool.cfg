\* Three slots, two levels a side, prices that fit, slide and drop.
SPECIFICATION Spec
CONSTANTS
  MaxOrders = 3
  Band = 2
  MaxPrice = 3
  Prices <- MCPrices
  NULL = NULL
INVARIANTS
  LinksExact
PROPERTIES
  ImplementsLists
  LoopsEnd
