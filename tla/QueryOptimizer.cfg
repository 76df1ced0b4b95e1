SPECIFICATION Spec
CONSTANTS
  Column <- MCColumn
  TableName <- MCTableName
  Files <- MCFiles
  PhysicalColumn <- MCPhysicalColumn
  Alias = {}
  Tables <- MCTables
  Conditions <- MCConditions
  ColumnLists <- MCColumnLists
  JoinKeys <- MCJoinKeys
  MaxNodes = 5
  MaxPending = 2
  MaxNotes = 0
INVARIANTS
  TypeOK
  AnswersFit
  NeverThrows
  AnswerPreserved
  NoRuleNoChange
  JoinWorkNotIncreased
CHECK_DEADLOCK FALSE
