CONSTANTS
  Item <- MCItem
  Func <- MCFunc
  Chosen <- MCChosen
  MaxObjects = 3
  MaxLength = 2
SPECIFICATION FairSpec
INVARIANTS TypeOK ReadOnceInOrder WritesKept
PROPERTY EverythingRead
CHECK_DEADLOCK FALSE
