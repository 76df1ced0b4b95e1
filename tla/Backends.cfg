SPECIFICATION FairSpec
CONSTANTS
  Column <- MCColumn
  TableName <- MCTableName
  Files <- MCFiles
  PhysicalColumn <- MCPhysicalColumn
  Alias = {"r"}
  Token <- MCToken
  Disk <- MCDisk
  FieldText <- MCFieldText
  Databases <- MCDatabases
  DoubleQuotedStrings = TRUE
  NameText <- MCNameText
  Rendered <- MCRendered
  FirstBindings <- MCFirstBindings
  Registrations <- MCRegistrations
  MaxBindings <- MCMaxBindings
  Queries <- MCQueries
  Lines <- MCLines
  Height <- HeightTree
  Compile <- CompileTree
  RelationOf <- RelationTree
  Exact <- ExactTree
  Comparable <- ComparableTree
INVARIANTS
  TypeOK
  ParsesWhatIsWritten
  AnsweredAsMeant
  HandlesReleased
  BackendsAgree
PROPERTIES
  CsvImplements
  SqliteImplements
CHECK_DEADLOCK FALSE
