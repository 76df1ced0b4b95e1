SPECIFICATION Spec
CONSTANTS
  Item <- MCItem
  Func <- MCFunc
  Chosen = {2, 3}
  Initial <- MCInitial
  Added = {3}
  Index <- MCIndex
  MaxObjects = 2
  MaxNodes = 4
  MaxEnumerators = 1
INVARIANT ChainsOK
PROPERTIES
  PassComplete
  ImplementsSequence
CHECK_DEADLOCK FALSE
