\* A record too short for its message, followed by another one.
SPECIFICATION Spec
CONSTANTS
  Files <- MCFiles
  MaxRecords = 2
  Types = {"D", "S"}
  Lengths = {2, 19}
  MaxSize = 42
INVARIANTS
  MalformedNotHandled
