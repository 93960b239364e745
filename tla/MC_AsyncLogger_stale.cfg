\* A late load of head_ makes enqueue_trade drop a trade of a ring that has
\* room: not in the list of runs, kept to show it.
SPECIFICATION LoggerSpec
CONSTANTS
  Trades = 3
  Items = {1, 2, 3}
  Capacity = 2
  NULL = NULL
  TORN = TORN
PROPERTY DropsOnlyWhenFull
