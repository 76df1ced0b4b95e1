SPECIFICATION Spec
CONSTANTS
  Piece <- MCPiece
  Lines <- MCLines
  Torn <- MCLong
  Faults = {}
  Readers = {"live"}
  MaxEmptyPolls = 1
  MaxWrites = 1
  MaxTruncations = 1
  MaxOpens = 2
INVARIANT WholeLines
CHECK_DEADLOCK FALSE
