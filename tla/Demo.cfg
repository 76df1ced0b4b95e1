SPECIFICATION Spec
CONSTANTS
  MaxContents = 3
  Malformed = {3}
  MaxClicks = 3
  MaxChanges = 2
INVARIANTS
  TypeOK
  ErrorsAreShown
PROPERTY SettlesOnChoice
CHECK_DEADLOCK FALSE
