\* Six trades through a ring of 2 slots.
SPECIFICATION LoggerSpec
CONSTANTS
  Trades = 6
  Items = {1, 2, 3, 4, 5, 6}
  Capacity = 2
  NULL = NULL
  TORN = TORN
INVARIANTS
  ThreadsApart
  Fifo
  NothingLostAtClose
PROPERTIES
  EnqueueAnswers
  StopReturns
  AcceptedIsWritten
