\* Up to two records of two handled types and one that is ignored.  Lengths:
\* none, shorter than any struct, just a Delete, just an Add.  The mapping ends
\* anywhere up to four bytes past the longest file.
SPECIFICATION Spec
CONSTANTS
  Files <- MCFiles
  MaxRecords = 2
  Types = {"A", "D", "S"}
  Lengths = {0, 2, 19, 36}
  MaxSize = 80
INVARIANTS
  ReadsStayInside
  StaysAligned
  WholeMessagesHandled
  HeldJustForWalk
PROPERTIES
  Returns
