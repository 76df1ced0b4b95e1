SPECIFICATION Spec
CONSTANTS
  Item <- MCItem
  Func <- MCFunc
  Chosen = {2, 3}
  Initial <- MCInitial
  Added = {3}
  Index <- MCIndex
  MaxObjects = 2
  MaxCount = 4
  Unset = 0
  MaxEnumerators = 1
INVARIANTS
  TypeOK
  EnumerationSound
PROPERTY ImplementsSequence
CHECK_DEADLOCK FALSE
