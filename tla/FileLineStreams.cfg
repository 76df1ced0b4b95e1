SPECIFICATION FairSpec
CONSTANTS
  Piece <- MCPiece
  Lines <- MCLines
  Torn = {}
  Faults = {"nothing"}
  Readers = {"file", "live"}
  MaxEmptyPolls = 1
  MaxWrites = 3
  MaxTruncations = 2
  MaxOpens = 2
INVARIANTS
  TypeOK
  WholeLines
PROPERTIES
  EndsAtEndOfFile
  PollingEnds
CHECK_DEADLOCK FALSE
