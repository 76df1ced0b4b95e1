SPECIFICATION FairSpec
CONSTANTS
  Column <- MCColumn
  TableName <- MCMoreTableNames
  Files <- MCMoreFiles
  PhysicalColumn <- MCPhysicalColumn
  Alias = {"r"}
  Tables <- MCMoreTables
  Conditions <- MCMoreConditions
  ColumnLists <- MCMoreColumnLists
  JoinKeys <- MCJoinKeys
  MaxNodes = 4
  MaxPending = 2
  MaxNotes = 2
INVARIANTS
  IInv
  JoinWorkNotIncreased
PROPERTY ImplementsAbstract
CHECK_DEADLOCK FALSE
