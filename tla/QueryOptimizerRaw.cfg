SPECIFICATION Spec
CONSTANTS
  Column <- MCColumn
  TableName <- MCTableName
  Files <- MCFiles
  PhysicalColumn <- MCPhysicalColumn
  Alias = {}
  Tables <- MCTables
  Conditions <- MCConditions
  ColumnLists <- MCColumnLists
  JoinKeys <- MCJoinKeys
  MaxNodes = 3
  MaxPending = 2
  MaxNotes = 0
INVARIANT RawReported
CHECK_DEADLOCK FALSE
