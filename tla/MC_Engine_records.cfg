\* Files of up to three records.
SPECIFICATION Spec
CONSTANTS
  Ids = {i1, i2}
  NULL = NULL
  Files <- MCFiles
  RecordSize = 18
  TopPrice = 2
  MaxRecords = 3
  Quantities = {1, 2}
INVARIANTS
  Released
  WholeFile
  RestingFromFile
