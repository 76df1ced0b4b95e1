SPECIFICATION SqlSpec
CONSTANTS
  Column <- MCSqlColumn
  TableName <- MCTableName
  Files <- MCFiles
  PhysicalColumn <- MCSqlPhysicalColumn
  Alias = {"r"}
  Tables <- MCTables
  Conditions <- MCSqlConditions
  ColumnLists <- MCColumnLists
  JoinKeys <- MCJoinKeys
  MaxNodes = 5
  MaxPending = 2
  MaxNotes = 0
  DoubleQuotedStrings = TRUE
  NameText <- MCNameText
  Rendered <- MCRendered
  Bindings <- MCBindings
  Database <- MCDatabase
INVARIANT SqlAnswerKept
CHECK_DEADLOCK FALSE
