SPECIFICATION FairSpec
CONSTANTS
  Piece <- MCPiece
  Lines <- MCLines
  Torn <- MCLong
  Faults = {"nothing", "part"}
  Readers = {"live"}
  MaxEmptyPolls = 1
  MaxWrites = 2
  MaxTruncations = 2
  MaxOpens = 2
INVARIANTS
  TextInOrder
  NothingBehindLostLine
PROPERTIES
  EndsAtEndOfFile
  PollingEnds
CHECK_DEADLOCK FALSE
