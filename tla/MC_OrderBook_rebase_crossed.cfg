\* After a slide an order rests although it crosses the opposite side.
SPECIFICATION Spec
CONSTANTS
  Ids = {i1, i2, i3}
  Slots = {s1, s2}
  Prices = {0, 1, 2, 3, 5}
  Quantities = {1, 2}
  Band = 3
  RebaseLimit = 2
  CountBound = 5
  VolumeMod = 16
  NULL = NULL
INVARIANT NotCrossed
