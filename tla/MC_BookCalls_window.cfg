\* A window of 3 levels over 6 prices: it slides, drops, relabels and rejects.
\* Volumes wrap (VolumeMod below the sum of two orders).
SPECIFICATION CallSpec
CONSTANTS
  Ids = {i1, i2, i3, i4}
  Slots = {s1, s2, s3}
  Prices = {0, 1, 2, 3, 5}
  Quantities = {0, 1, 2}
  Band = 3
  RebaseLimit = 3
  CountBound = 5
  VolumeMod = 3
  NULL = NULL
SYMMETRY Symmetry
INVARIANTS
  TypeOK
  QueuesPartitionPool
  IdMapExact
  BitmapExact
  LevelsExact
  BestIsLive
  CountCoversBook
  KeepsContract
PROPERTIES
  OnlyRebaseLosesTop
  TimePriorityKept
  RestingOrdersKept
  TradesConserve
