------------------------------ MODULE CsvOperators ------------------------------
(***************************************************************************)
(* What each handler of CsvBackend makes of the answers of its inputs, and *)
(* CsvParser::read as the handlers see it.                                 *)
(*                                                                         *)
(* An answer is a QueryResult, or the exception that replaced it (error).  *)
(* Its rows are a function from row identities to rows: <<i>> is the i-th  *)
(* line of a file, <<l, r>> the row a join makes of rows l and r.  Filter  *)
(* and projection keep identities and the nested loops visit pairs in      *)
(* lexicographic order, so two answers with equal functions are equal row  *)
(* sequences: identities carry both the order and the multiplicity.        *)
(***************************************************************************)
EXTENDS PredicateEvaluator

CONSTANTS
  TableName,        \* the sources registered in the catalog
  Files,            \* TableName -> what a read of the source's file finds
  PhysicalColumn    \* Column -> the header name it is looked up by

(* readable: registered, can be opened, has a header line that parses;     *)
(* malformed: a data line has an unclosed quote or a wrong number of       *)
(* fields.  A CSV cell is always a text, never NULL.                       *)
File == [readable : BOOLEAN, malformed : BOOLEAN,
         header : Seq(Column), rows : Seq(Seq(Text))]

ASSUME FilesAssumption ==
  /\ Files \in [TableName -> File]
  /\ \A t \in TableName : \A i \in DOMAIN Files[t].rows :
       Len(Files[t].rows[i]) = Len(Files[t].header)

ASSUME PhysicalColumnAssumption == PhysicalColumn \in [Column -> Column]

Errors == {"none", "source", "column", "row", "raw", "size"}

Failed(error) == [error |-> error, schema |-> <<>>, rows |-> <<>>]
Answer(schema, rows) == [error |-> "none", schema |-> schema, rows |-> rows]

\* QueryResult::append, for every row: the row must be as long as the schema.
Collected(schema, rows) ==
  IF \A id \in DOMAIN rows : DOMAIN rows[id] = DOMAIN schema
  THEN Answer(schema, rows)
  ELSE Failed("size")

\* The lines of a file, each mapped to the expected schema.
ReadRows(file, schema) ==
  [id \in {<<line>> : line \in DOMAIN file.rows} |->
     [k \in DOMAIN schema |->
        file.rows[id[1]][ColumnIndex(file.header, PhysicalColumn[schema[k]])]]]

HeaderHas(file, schema) ==
  \A k \in DOMAIN schema : SequenceContains(file.header, PhysicalColumn[schema[k]])

ExecuteTable(name, schema) ==
  LET file == Files[name] IN
  CASE ~file.readable -> Failed("source")
    [] file.readable /\ ~HeaderHas(file, schema) -> Failed("column")
    [] file.readable /\ HeaderHas(file, schema) /\ file.malformed -> Failed("row")
    [] OTHER -> Collected(schema, ReadRows(file, schema))

SelectedRows(condition, input) ==
  [id \in {i \in DOMAIN input.rows : Evaluate(condition, input.schema, input.rows[i])}
     |-> input.rows[id]]

\* A raw condition is noticed only when there is a row to evaluate it on.
ExecuteSelect(condition, schema, input) ==
  CASE input.error # "none" -> input
    [] input.error = "none" /\ condition.raw /\ DOMAIN input.rows # {} -> Failed("raw")
    [] OTHER -> Collected(schema, SelectedRows(condition, input))

ProjectedRow(columns, schema, row) ==
  [k \in DOMAIN columns |-> row[ColumnIndex(schema, columns[k])]]

ProjectedRows(columns, input) ==
  [id \in DOMAIN input.rows |-> ProjectedRow(columns, input.schema, input.rows[id])]

\* A missing column is noticed only when there is a row to project.
ExecuteProject(columns, input) ==
  CASE input.error # "none" -> input
    [] /\ input.error = "none"
       /\ DOMAIN input.rows # {}
       /\ ~AllColumnsIncluded(columns, input.schema) -> Failed("column")
    [] OTHER -> Collected(columns, ProjectedRows(columns, input))

\* Keys are compared as texts, not as numbers; a NULL key joins with nothing.
KeysMatch(leftKey, rightKey) ==
  ~IsNull(leftKey) /\ ~IsNull(rightKey) /\ leftKey.bytes = rightKey.bytes

MatchingRows(left, right, leftColumn, rightColumn) ==
  {pair \in (DOMAIN left.rows) \X (DOMAIN right.rows) :
     KeysMatch(left.rows[pair[1]][ColumnIndex(left.schema, leftColumn)],
               right.rows[pair[2]][ColumnIndex(right.schema, rightColumn)])}

JoinedRows(left, right, leftColumn, rightColumn) ==
  [pair \in MatchingRows(left, right, leftColumn, rightColumn) |->
     left.rows[pair[1]] \o right.rows[pair[2]]]

\* The left input runs first, then the right one, then the keys are looked up.
ExecuteJoin(schema, left, right, leftColumn, rightColumn) ==
  CASE left.error # "none" -> left
    [] left.error = "none" /\ right.error # "none" -> right
    [] /\ left.error = "none" /\ right.error = "none"
       /\ \/ ~SequenceContains(left.schema, leftColumn)
          \/ ~SequenceContains(right.schema, rightColumn) -> Failed("column")
    [] OTHER -> Collected(schema, JoinedRows(left, right, leftColumn, rightColumn))

-----------------------------------------------------------------------------
(* An execution that succeeds answers with the announced schema and rows   *)
(* that fit it; one that fails never fails for a row of the wrong size.    *)
Fits(answer, schema) ==
  /\ answer.error \in Errors \ {"size"}
  /\ answer.error = "none" =>
       /\ answer.schema = schema
       /\ \A id \in DOMAIN answer.rows : answer.rows[id] \in [DOMAIN schema -> Cell]
=============================================================================
