-------------------------- MODULE QueryOptimizerProofs --------------------------
(***************************************************************************)
(* The invariants of QueryOptimizer for every set of tables, conditions,   *)
(* column lists and join keys, and queries of any size.  The argument is   *)
(* the inductive invariant IInv of QueryOptimizer: every node built is     *)
(* sound, the frames of the stack are linked as calls are, what a call     *)
(* has finished means what it replaces, and the loop of                    *)
(* splitProjectColumnsForJoin keeps its two lists apart.                   *)
(*                                                                         *)
(* Before it come the facts about schemas, rows and the answers of the     *)
(* operators: which column a name means in a projected or joined row, that *)
(* an answer fits its schema, and the equations behind the rules.          *)
(*                                                                         *)
(* The last part, from "What SQLite has for an expression" on, is about    *)
(* SqlRewrites.  A map Means gives every node the relation SQLite makes of *)
(* it out of the relations of its children; RelationsKept says of every    *)
(* such map that each call has returned an expression with the relation of *)
(* its argument.  That there is such a map, and that it holds what the     *)
(* texts of SqlCompiler give when they are run, is Computed: one more node *)
(* extends each of the recursive functions of SqlRewrites by one value.    *)
(***************************************************************************)
EXTENDS SqlRewrites, FiniteSetTheorems, SequenceTheorems, WellFoundedInduction, TLAPS

-----------------------------------------------------------------------------
(* Schemas.                                                                *)

(* A nonempty set of naturals has a least element.                         *)
LEMMA NatMin ==
  ASSUME NEW T, T \subseteq Nat, T # {}
  PROVE  \E x \in T : \A y \in T : x <= y
<1> DEFINE R == {ss \in Nat \X Nat : ss[1] < ss[2]}
<1>1. IsWellFoundedOn(R, Nat)
  BY NatLessThanWellFounded DEF OpToRel
<1>2. PICK x \in T : \A y \in T : ~ (<<y, x>> \in R)
  BY <1>1, WFMin
<1>3. ASSUME NEW y \in T PROVE x <= y
  <2>1. <<y, x>> \in Nat \X Nat
    OBVIOUS
  <2>2. ~ (<<y, x>>[1] < <<y, x>>[2])
    BY <1>2, <2>1
  <2> QED BY <2>2
<1> QED BY <1>3

(* columnIndex finds a position of the column, and no earlier one exists.  *)
LEMMA ColumnIndexFound ==
  ASSUME NEW S, NEW schema \in Seq(S), NEW column, SequenceContains(schema, column)
  PROVE  /\ ColumnIndex(schema, column) \in DOMAIN schema
         /\ schema[ColumnIndex(schema, column)] = column
         /\ \A j \in DOMAIN schema : schema[j] = column => ColumnIndex(schema, column) <= j
<1>1. Positions(schema, column) \subseteq Nat
  BY DEF Positions
<1>2. \E i \in Positions(schema, column) :
        \A j \in Positions(schema, column) : i <= j
  BY <1>1, NatMin DEF SequenceContains
<1>3. /\ ColumnIndex(schema, column) \in Positions(schema, column)
      /\ \A j \in Positions(schema, column) : ColumnIndex(schema, column) <= j
  BY <1>2 DEF ColumnIndex
<1> QED BY <1>3 DEF Positions

(* The least position of a column is its columnIndex.                      *)
LEMMA ColumnIndexIs ==
  ASSUME NEW S, NEW schema \in Seq(S), NEW column,
         NEW i \in DOMAIN schema, schema[i] = column,
         \A j \in DOMAIN schema : schema[j] = column => i <= j
  PROVE  SequenceContains(schema, column) /\ ColumnIndex(schema, column) = i
<1>1. SequenceContains(schema, column)
  BY DEF SequenceContains, Positions
<1>2. ColumnIndex(schema, column) \in DOMAIN schema
      /\ schema[ColumnIndex(schema, column)] = column
      /\ ColumnIndex(schema, column) <= i
  BY <1>1, ColumnIndexFound
<1>3. i <= ColumnIndex(schema, column)
  BY <1>2
<1>4. i \in Int /\ ColumnIndex(schema, column) \in Int
  BY <1>2
<1> QED BY <1>1, <1>2, <1>3, <1>4

\* sequenceContains: a column is contained when some position holds it.
LEMMA ContainsIsPosition ==
  ASSUME NEW schema, NEW column
  PROVE  SequenceContains(schema, column) <=> \E i \in DOMAIN schema : schema[i] = column
BY DEF SequenceContains, Positions

(* In the schema of a join the left input's columns come first.            *)
LEMMA ConcatColumns ==
  ASSUME NEW S, NEW left \in Seq(S), NEW right \in Seq(S), NEW column
  PROVE  /\ SequenceContains(left \o right, column)
              <=> SequenceContains(left, column) \/ SequenceContains(right, column)
         /\ SequenceContains(left, column)
              => ColumnIndex(left \o right, column) = ColumnIndex(left, column)
         /\ ~SequenceContains(left, column) /\ SequenceContains(right, column)
              => ColumnIndex(left \o right, column) = Len(left) + ColumnIndex(right, column)
<1> DEFINE both == left \o right
<1>1. /\ both \in Seq(S)
      /\ DOMAIN both = 1 .. (Len(left) + Len(right))
      /\ DOMAIN left = 1 .. Len(left) /\ DOMAIN right = 1 .. Len(right)
      /\ Len(left) \in Nat /\ Len(right) \in Nat
  OBVIOUS
<1>2. /\ \A i \in 1 .. Len(left) : both[i] = left[i]
      /\ \A i \in 1 .. Len(right) : both[Len(left) + i] = right[i]
  OBVIOUS
<1>2b. ASSUME NEW i \in 1 .. (Len(left) + Len(right)), i \notin 1 .. Len(left)
       PROVE  i - Len(left) \in 1 .. Len(right) /\ both[i] = right[i - Len(left)]
  BY <1>1, <1>2b
<1> HIDE DEF both
<1>3. SequenceContains(both, column)
        <=> SequenceContains(left, column) \/ SequenceContains(right, column)
  <2>1. ASSUME SequenceContains(both, column)
        PROVE  SequenceContains(left, column) \/ SequenceContains(right, column)
    BY <2>1, <1>1, <1>2, <1>2b, ContainsIsPosition
  <2>2. ASSUME SequenceContains(left, column) PROVE SequenceContains(both, column)
    BY <2>2, <1>1, <1>2, ContainsIsPosition
  <2>3. ASSUME SequenceContains(right, column) PROVE SequenceContains(both, column)
    <3>1. PICK i \in 1 .. Len(right) : right[i] = column
      BY <2>3, <1>1, ContainsIsPosition
    <3>2. Len(left) + i \in DOMAIN both /\ both[Len(left) + i] = column
      BY <1>1, <1>2, <3>1
    <3> QED BY <3>2, ContainsIsPosition
  <2> QED BY <2>1, <2>2, <2>3
<1>4. ASSUME SequenceContains(left, column)
      PROVE  ColumnIndex(both, column) = ColumnIndex(left, column)
  <2> DEFINE i == ColumnIndex(left, column)
  <2>1. /\ i \in 1 .. Len(left) /\ left[i] = column
        /\ \A j \in 1 .. Len(left) : left[j] = column => i <= j
    BY <1>1, <1>4, ColumnIndexFound
  <2> HIDE DEF i
  <2>2. i \in DOMAIN both /\ both[i] = column
    BY <2>1, <1>1, <1>2
  <2>3. ASSUME NEW j \in DOMAIN both, both[j] = column PROVE i <= j
    <3>1. CASE j \in 1 .. Len(left)
      BY <3>1, <2>1, <2>3, <1>2
    <3>2. CASE j \notin 1 .. Len(left)
      BY <3>2, <2>1, <1>1
    <3> QED BY <3>1, <3>2
  <2>4. ColumnIndex(both, column) = i
    BY <2>2, <2>3, <1>1, ColumnIndexIs
  <2> QED BY <2>4 DEF i
<1>5. ASSUME ~SequenceContains(left, column), SequenceContains(right, column)
      PROVE  ColumnIndex(both, column) = Len(left) + ColumnIndex(right, column)
  <2> DEFINE i == ColumnIndex(right, column)
  <2>1. /\ i \in 1 .. Len(right) /\ right[i] = column
        /\ \A j \in 1 .. Len(right) : right[j] = column => i <= j
    BY <1>1, <1>5, ColumnIndexFound
  <2> HIDE DEF i
  <2>2. Len(left) + i \in DOMAIN both /\ both[Len(left) + i] = column
    BY <2>1, <1>1, <1>2
  <2>3. ASSUME NEW j \in DOMAIN both, both[j] = column PROVE Len(left) + i <= j
    <3>1. j \notin 1 .. Len(left)
      BY <2>3, <1>1, <1>2, <1>5, ContainsIsPosition
    <3>2. j - Len(left) \in 1 .. Len(right) /\ right[j - Len(left)] = column
      BY <3>1, <2>3, <1>1, <1>2b
    <3>3. i <= j - Len(left)
      BY <3>2, <2>1
    <3> QED BY <3>3, <2>1, <2>3, <1>1
  <2>4. ColumnIndex(both, column) = Len(left) + i
    BY <2>2, <2>3, <1>1, ColumnIndexIs
  <2> QED BY <2>4 DEF i
<1> QED BY <1>3, <1>4, <1>5 DEF both

\* countColumnMatches: no match means absent, one match means present.
LEMMA NoMatches ==
  ASSUME NEW S, NEW schema \in Seq(S), NEW column
  PROVE  /\ CountColumnMatches(schema, column) = 0 => ~SequenceContains(schema, column)
         /\ CountColumnMatches(schema, column) = 1 => SequenceContains(schema, column)
<1>1. IsFiniteSet(Positions(schema, column))
  <2>1. IsFiniteSet(1 .. Len(schema))
    BY FS_Interval
  <2>2. Positions(schema, column) \subseteq 1 .. Len(schema)
    BY DEF Positions
  <2> QED BY <2>1, <2>2, FS_Subset
<1> QED BY <1>1, FS_EmptySet DEF CountColumnMatches, SequenceContains

(* A column located on a side is in that side's schema and not in the other.*)
LEMMA LocatedColumn ==
  ASSUME NEW S, NEW left \in Seq(S), NEW right \in Seq(S), NEW column
  PROVE  /\ LocateColumn(column, left, right) = "Left"
              => SequenceContains(left, column) /\ ~SequenceContains(right, column)
         /\ LocateColumn(column, left, right) = "Right"
              => ~SequenceContains(left, column) /\ SequenceContains(right, column)
<1> DEFINE l == CountColumnMatches(left, column)
           r == CountColumnMatches(right, column)
<1>1. /\ l = 0 => ~SequenceContains(left, column)
      /\ l = 1 => SequenceContains(left, column)
      /\ r = 0 => ~SequenceContains(right, column)
      /\ r = 1 => SequenceContains(right, column)
  BY NoMatches
<1>2. LocateColumn(column, left, right) = "Left" => l = 1 /\ r = 0
  BY DEF LocateColumn
<1>3. LocateColumn(column, left, right) = "Right" => l = 0 /\ r = 1
  BY DEF LocateColumn
<1> QED BY <1>1, <1>2, <1>3

\* allColumnsIncluded: every column of the list is in the other.
LEMMA IncludedColumns ==
  ASSUME NEW S, NEW columns \in Seq(S), NEW available
  PROVE  AllColumnsIncluded(columns, available)
           <=> \A column : SequenceContains(columns, column)
                             => SequenceContains(available, column)
BY ContainsIsPosition DEF AllColumnsIncluded

\* appendUnique adds its value and loses or adds no other.
LEMMA AppendUniqueColumns ==
  ASSUME NEW S, NEW columns \in Seq(S), NEW value \in S, NEW column
  PROVE  /\ AppendUnique(columns, value) \in Seq(S)
         /\ SequenceContains(AppendUnique(columns, value), column)
              <=> SequenceContains(columns, column) \/ column = value
<1>1. CASE SequenceContains(columns, value)
  BY <1>1 DEF AppendUnique
<1>2. CASE ~SequenceContains(columns, value)
  <2> DEFINE longer == Append(columns, value)
  <2>1. AppendUnique(columns, value) = longer
    BY <1>2 DEF AppendUnique
  <2>2. /\ longer \in Seq(S)
        /\ DOMAIN longer = 1 .. (Len(columns) + 1)
        /\ \A i \in 1 .. Len(columns) : longer[i] = columns[i]
        /\ longer[Len(columns) + 1] = value
        /\ DOMAIN columns = 1 .. Len(columns) /\ Len(columns) \in Nat
    OBVIOUS
  <2> HIDE DEF longer
  <2>3. ASSUME NEW i \in DOMAIN longer, longer[i] = column
        PROVE  SequenceContains(columns, column) \/ column = value
    <3>1. CASE i \in 1 .. Len(columns)
      BY <3>1, <2>2, <2>3, ContainsIsPosition
    <3>2. CASE i = Len(columns) + 1
      BY <3>2, <2>2, <2>3
    <3> QED BY <3>1, <3>2, <2>2
  <2>4. ASSUME NEW i \in DOMAIN columns, columns[i] = column
        PROVE  SequenceContains(longer, column)
    <3>1. i \in DOMAIN longer /\ longer[i] = column
      BY <2>2, <2>4
    <3> QED BY <3>1, ContainsIsPosition
  <2>5. SequenceContains(longer, value)
    <3>1. Len(columns) + 1 \in DOMAIN longer
      BY <2>2
    <3> QED BY <3>1, <2>2, ContainsIsPosition
  <2> QED BY <2>1, <2>2, <2>3, <2>4, <2>5, ContainsIsPosition
<1> QED BY <1>1, <1>2

-----------------------------------------------------------------------------
(* Values of a row.                                                        *)

\* executeProject: a column kept has the value it had in the input row.
LEMMA ValueInProjectedRow ==
  ASSUME NEW S, NEW columns \in Seq(S), NEW schema, NEW row, NEW column,
         SequenceContains(columns, column), SequenceContains(schema, column)
  PROVE  RowValue(columns, ProjectedRow(columns, schema, row), column)
           = RowValue(schema, row, column)
<1> DEFINE i == ColumnIndex(columns, column)
<1>1. i \in DOMAIN columns /\ columns[i] = column
  BY ColumnIndexFound
<1>2. ProjectedRow(columns, schema, row)[i] = row[ColumnIndex(schema, column)]
  BY <1>1 DEF ProjectedRow
<1> QED BY <1>2 DEF RowValue

\* A joined row: the cells of the left row, then those of the right.
LEMMA CellsOfJoinedRow ==
  ASSUME NEW leftSchema \in Seq(Column), NEW rightSchema \in Seq(Column),
         NEW left \in [DOMAIN leftSchema -> Cell], NEW right \in [DOMAIN rightSchema -> Cell]
  PROVE  /\ \A i \in DOMAIN leftSchema : (left \o right)[i] = left[i]
         /\ \A i \in DOMAIN rightSchema : (left \o right)[Len(leftSchema) + i] = right[i]
<1>1. /\ left \in Seq(Cell) /\ Len(left) = Len(leftSchema)
      /\ right \in Seq(Cell) /\ Len(right) = Len(rightSchema)
  OBVIOUS
<1> QED BY <1>1

\* A column of the left side has its left value in the joined row, even when
\* the right side repeats its name: findColumnIndex takes the first.
LEMMA LeftValueInJoinedRow ==
  ASSUME NEW leftSchema \in Seq(Column), NEW rightSchema \in Seq(Column),
         NEW left \in [DOMAIN leftSchema -> Cell], NEW right \in [DOMAIN rightSchema -> Cell],
         NEW column, SequenceContains(leftSchema, column)
  PROVE  RowValue(leftSchema \o rightSchema, left \o right, column)
           = RowValue(leftSchema, left, column)
<1>1. ColumnIndex(leftSchema, column) \in DOMAIN leftSchema
  BY ColumnIndexFound
<1>2. /\ SequenceContains(leftSchema \o rightSchema, column)
      /\ ColumnIndex(leftSchema \o rightSchema, column) = ColumnIndex(leftSchema, column)
  BY ConcatColumns
<1> QED BY <1>1, <1>2, CellsOfJoinedRow DEF RowValue

\* A column only the right side has keeps its value in the joined row.
LEMMA RightValueInJoinedRow ==
  ASSUME NEW leftSchema \in Seq(Column), NEW rightSchema \in Seq(Column),
         NEW left \in [DOMAIN leftSchema -> Cell], NEW right \in [DOMAIN rightSchema -> Cell],
         NEW column, ~SequenceContains(leftSchema, column), SequenceContains(rightSchema, column)
  PROVE  RowValue(leftSchema \o rightSchema, left \o right, column)
           = RowValue(rightSchema, right, column)
<1>1. ColumnIndex(rightSchema, column) \in DOMAIN rightSchema
  BY ColumnIndexFound
<1>2. /\ SequenceContains(leftSchema \o rightSchema, column)
      /\ ColumnIndex(leftSchema \o rightSchema, column)
           = Len(leftSchema) + ColumnIndex(rightSchema, column)
  BY ConcatColumns
<1> QED BY <1>1, <1>2, CellsOfJoinedRow DEF RowValue

(* evaluate sees a row only through the values of the condition's columns. *)
LEMMA EvaluateByValues ==
  ASSUME NEW condition, NEW schema, NEW row, NEW schema2, NEW row2,
         RowValue(schema, row, condition.leftColumn)
           = RowValue(schema2, row2, condition.leftColumn),
         condition.rightKind = "Column" =>
           RowValue(schema, row, condition.rightColumn)
             = RowValue(schema2, row2, condition.rightColumn)
  PROVE  Evaluate(condition, schema, row) <=> Evaluate(condition, schema2, row2)
BY DEF Evaluate

-----------------------------------------------------------------------------
(* Operators that succeed.                                                 *)

\* executeSelect of an answer, under a condition that was parsed.
LEMMA SelectSucceeds ==
  ASSUME NEW schema, NEW input, NEW condition, ~condition.raw,
         Fits(input, schema), input.error = "none"
  PROVE  ExecuteSelect(condition, schema, input)
           = Answer(schema, SelectedRows(condition, input))
<1>1. Collected(schema, SelectedRows(condition, input))
        = Answer(schema, SelectedRows(condition, input))
  BY DEF Collected, SelectedRows, Fits
<1> QED BY <1>1 DEF ExecuteSelect

\* executeProject of an answer that has all the columns.
LEMMA ProjectSucceeds ==
  ASSUME NEW columns, NEW schema, NEW input, AllColumnsIncluded(columns, schema),
         Fits(input, schema), input.error = "none"
  PROVE  ExecuteProject(columns, input)
           = Answer(columns, ProjectedRows(columns, input))
<1>1. Collected(columns, ProjectedRows(columns, input))
        = Answer(columns, ProjectedRows(columns, input))
  BY DEF Collected, ProjectedRows, ProjectedRow
<1>2. input.schema = schema
  BY DEF Fits
<1> QED BY <1>1, <1>2 DEF ExecuteProject

\* One joined row has a cell for each column of the joined schema.
LEMMA JoinedRowFits ==
  ASSUME NEW leftSchema \in Seq(Column), NEW rightSchema \in Seq(Column),
         NEW left \in [DOMAIN leftSchema -> Cell], NEW right \in [DOMAIN rightSchema -> Cell]
  PROVE  left \o right \in [DOMAIN (leftSchema \o rightSchema) -> Cell]
<1>1. /\ left \in Seq(Cell) /\ Len(left) = Len(leftSchema)
      /\ right \in Seq(Cell) /\ Len(right) = Len(rightSchema)
  OBVIOUS
<1>2. /\ left \o right \in Seq(Cell)
      /\ Len(left \o right) = Len(leftSchema) + Len(rightSchema)
  <2>1. /\ left \o right \in Seq(Cell)
        /\ Len(left \o right) = Len(left) + Len(right)
    BY <1>1, ConcatProperties
  <2> QED BY <1>1, <2>1
<1>3. DOMAIN (leftSchema \o rightSchema) = 1 .. (Len(leftSchema) + Len(rightSchema))
  OBVIOUS
<1>4. \A row \in Seq(Cell) : row \in [1 .. Len(row) -> Cell]
  OBVIOUS
<1>5. left \o right \in [1 .. Len(left \o right) -> Cell]
  BY <1>2, <1>4
<1> QED BY <1>2, <1>3, <1>5

\* All the rows executeJoin appends fit the joined schema.
LEMMA JoinedRowsFit ==
  ASSUME NEW leftSchema \in Seq(Column), NEW rightSchema \in Seq(Column),
         NEW left, NEW right, NEW leftColumn, NEW rightColumn,
         Fits(left, leftSchema), left.error = "none",
         Fits(right, rightSchema), right.error = "none"
  PROVE  \A pair \in DOMAIN JoinedRows(left, right, leftColumn, rightColumn) :
           JoinedRows(left, right, leftColumn, rightColumn)[pair]
             \in [DOMAIN (leftSchema \o rightSchema) -> Cell]
<1> SUFFICES ASSUME NEW pair \in MatchingRows(left, right, leftColumn, rightColumn)
             PROVE  left.rows[pair[1]] \o right.rows[pair[2]]
                      \in [DOMAIN (leftSchema \o rightSchema) -> Cell]
  BY DEF JoinedRows
<1>1. pair[1] \in DOMAIN left.rows /\ pair[2] \in DOMAIN right.rows
  BY DEF MatchingRows
<1>2. /\ left.rows[pair[1]] \in [DOMAIN leftSchema -> Cell]
      /\ right.rows[pair[2]] \in [DOMAIN rightSchema -> Cell]
  BY <1>1 DEF Fits
<1> QED BY <1>2, JoinedRowFits

\* executeJoin of two answers that have their key columns.
LEMMA JoinSucceeds ==
  ASSUME NEW leftSchema \in Seq(Column), NEW rightSchema \in Seq(Column),
         NEW left, NEW right, NEW leftColumn, NEW rightColumn,
         Fits(left, leftSchema), left.error = "none",
         Fits(right, rightSchema), right.error = "none",
         SequenceContains(leftSchema, leftColumn),
         SequenceContains(rightSchema, rightColumn)
  PROVE  ExecuteJoin(leftSchema \o rightSchema, left, right, leftColumn, rightColumn)
           = Answer(leftSchema \o rightSchema, JoinedRows(left, right, leftColumn, rightColumn))
<1> DEFINE schema == leftSchema \o rightSchema
<1>1. left.schema = leftSchema /\ right.schema = rightSchema
  BY DEF Fits
<1>2. Collected(schema, JoinedRows(left, right, leftColumn, rightColumn))
        = Answer(schema, JoinedRows(left, right, leftColumn, rightColumn))
  BY JoinedRowsFit DEF Collected
<1>3. ExecuteJoin(schema, left, right, leftColumn, rightColumn)
        = Collected(schema, JoinedRows(left, right, leftColumn, rightColumn))
  BY <1>1 DEF ExecuteJoin
<1> QED BY <1>2, <1>3

(* An operator whose input failed fails the same way, the left input first.*)
LEMMA FailedSelect ==
  ASSUME NEW condition, NEW schema, NEW input, input.error # "none"
  PROVE  ExecuteSelect(condition, schema, input) = input
BY DEF ExecuteSelect

\* executeProject hands its input's exception on.
LEMMA FailedProject ==
  ASSUME NEW columns, NEW input, input.error # "none"
  PROVE  ExecuteProject(columns, input) = input
BY DEF ExecuteProject

\* executeJoin runs its left input first: a left failure hides a right one.
LEMMA FailedJoin ==
  ASSUME NEW schema, NEW left, NEW right, NEW leftColumn, NEW rightColumn
  PROVE  /\ left.error # "none" =>
              ExecuteJoin(schema, left, right, leftColumn, rightColumn) = left
         /\ left.error = "none" /\ right.error # "none" =>
              ExecuteJoin(schema, left, right, leftColumn, rightColumn) = right
BY DEF ExecuteJoin

\* executeJoin throws when a key column is missing.
LEMMA JoinWithoutKey ==
  ASSUME NEW leftSchema, NEW rightSchema, NEW schema,
         NEW left, NEW right, NEW leftColumn, NEW rightColumn,
         Fits(left, leftSchema), left.error = "none",
         Fits(right, rightSchema), right.error = "none",
         ~SequenceContains(leftSchema, leftColumn) \/ ~SequenceContains(rightSchema, rightColumn)
  PROVE  ExecuteJoin(schema, left, right, leftColumn, rightColumn) = Failed("column")
<1>1. left.schema = leftSchema /\ right.schema = rightSchema
  BY DEF Fits
<1> QED BY <1>1 DEF ExecuteJoin

\* Every failure but a row of the wrong size fits every schema.
LEMMA FailureFits ==
  ASSUME NEW error \in Errors \ {"size", "none"}, NEW schema
  PROVE  Fits(Failed(error), schema)
BY DEF Fits, Failed

\* An answer whose rows have the width of its schema fits it.
LEMMA AnswerFits ==
  ASSUME NEW schema, NEW rows,
         \A id \in DOMAIN rows : rows[id] \in [DOMAIN schema -> Cell]
  PROVE  Fits(Answer(schema, rows), schema)
BY DEF Fits, Answer, Errors

-----------------------------------------------------------------------------
(* Every operator answers with rows that fit.                              *)

\* executeTable: what it answers fits the schema its source announced.
LEMMA TableFits ==
  ASSUME NEW name \in TableName, NEW schema \in Seq(Column)
  PROVE  Fits(ExecuteTable(name, schema), schema)
<1> DEFINE file == Files[name]
<1>1. file \in File
  BY FilesAssumption
<1>2. CASE ~file.readable \/ ~HeaderHas(file, schema) \/ file.malformed
  <2>1. ExecuteTable(name, schema) \in {Failed("source"), Failed("column"), Failed("row")}
    BY <1>1, <1>2 DEF ExecuteTable, File
  <2> QED BY <2>1, FailureFits DEF Errors
<1>3. CASE file.readable /\ HeaderHas(file, schema) /\ ~file.malformed
  <2>1. ASSUME NEW id \in DOMAIN ReadRows(file, schema)
        PROVE  ReadRows(file, schema)[id] \in [DOMAIN schema -> Cell]
    <3>1. PICK line \in DOMAIN file.rows : id = <<line>>
      BY DEF ReadRows
    <3>2. /\ file.rows[line] \in Seq(Text)
          /\ Len(file.rows[line]) = Len(file.header)
      <4>1. file.rows \in Seq(Seq(Text))
        BY <1>1 DEF File
      <4>2. \A i \in DOMAIN file.rows : Len(file.rows[i]) = Len(file.header)
        BY FilesAssumption
      <4> QED BY <4>1, <4>2
    <3>3. ASSUME NEW k \in DOMAIN schema
          PROVE  file.rows[line][ColumnIndex(file.header, PhysicalColumn[schema[k]])] \in Cell
      <4>1. SequenceContains(file.header, PhysicalColumn[schema[k]])
        BY <1>3 DEF HeaderHas
      <4>2. file.header \in Seq(Column)
        BY <1>1 DEF File
      <4>3. ColumnIndex(file.header, PhysicalColumn[schema[k]]) \in DOMAIN file.header
        BY <4>1, <4>2, ColumnIndexFound
      <4>4. ColumnIndex(file.header, PhysicalColumn[schema[k]]) \in DOMAIN file.rows[line]
        BY <4>2, <4>3, <3>2
      <4> QED BY <4>4, <3>2 DEF Cell
    <3>4. ReadRows(file, schema)[id]
            = [k \in DOMAIN schema |->
                 file.rows[line][ColumnIndex(file.header, PhysicalColumn[schema[k]])]]
      BY <3>1 DEF ReadRows
    <3> QED BY <3>3, <3>4
  <2>2. ExecuteTable(name, schema) = Collected(schema, ReadRows(file, schema))
    BY <1>3 DEF ExecuteTable
  <2>3. Collected(schema, ReadRows(file, schema)) = Answer(schema, ReadRows(file, schema))
    BY <2>1 DEF Collected
  <2> QED BY <2>1, <2>2, <2>3, AnswerFits
<1> QED BY <1>1, <1>2, <1>3 DEF File

\* executeSelect keeps the schema, and so the width of its rows.
LEMMA SelectFits ==
  ASSUME NEW condition, NEW schema, NEW input, Fits(input, schema)
  PROVE  Fits(ExecuteSelect(condition, schema, input), schema)
<1>1. CASE input.error # "none"
  BY <1>1, FailedSelect
<1>2. CASE input.error = "none"
  <2>1. ExecuteSelect(condition, schema, input)
          \in {Failed("raw"), Collected(schema, SelectedRows(condition, input))}
    BY <1>2 DEF ExecuteSelect
  <2>2. \A id \in DOMAIN SelectedRows(condition, input) :
          SelectedRows(condition, input)[id] \in [DOMAIN schema -> Cell]
    BY <1>2 DEF Fits, SelectedRows
  <2>3. Collected(schema, SelectedRows(condition, input))
          = Answer(schema, SelectedRows(condition, input))
    BY <2>2 DEF Collected
  <2> QED BY <2>1, <2>2, <2>3, AnswerFits, FailureFits DEF Errors
<1> QED BY <1>1, <1>2

(* The rows of a projection hold cells of the rows projected.              *)
LEMMA ProjectedRowsFit ==
  ASSUME NEW columns \in Seq(Column), NEW schema \in Seq(Column), NEW input,
         AllColumnsIncluded(columns, schema), Fits(input, schema), input.error = "none"
  PROVE  \A id \in DOMAIN input.rows :
           ProjectedRow(columns, schema, input.rows[id]) \in [DOMAIN columns -> Cell]
<1> SUFFICES ASSUME NEW id \in DOMAIN input.rows, NEW k \in DOMAIN columns
             PROVE  input.rows[id][ColumnIndex(schema, columns[k])] \in Cell
  BY DEF ProjectedRow
<1>1. ColumnIndex(schema, columns[k]) \in DOMAIN schema
  BY ColumnIndexFound DEF AllColumnsIncluded
<1> QED BY <1>1 DEF Fits

\* executeProject makes rows of the width of its column list.
LEMMA ProjectFits ==
  ASSUME NEW columns \in Seq(Column), NEW schema \in Seq(Column), NEW input,
         AllColumnsIncluded(columns, schema), Fits(input, schema)
  PROVE  Fits(ExecuteProject(columns, input), columns)
<1>1. CASE input.error # "none"
  BY <1>1, FailedProject DEF Fits
<1>2. CASE input.error = "none"
  <2>1. ExecuteProject(columns, input) = Answer(columns, ProjectedRows(columns, input))
    BY <1>2, ProjectSucceeds
  <2>2. input.schema = schema
    BY <1>2 DEF Fits
  <2>3. \A id \in DOMAIN ProjectedRows(columns, input) :
          ProjectedRows(columns, input)[id] \in [DOMAIN columns -> Cell]
    BY <1>2, <2>2, ProjectedRowsFit DEF ProjectedRows
  <2> QED BY <2>1, <2>3, AnswerFits
<1> QED BY <1>1, <1>2

\* executeJoin makes rows of the width of the two schemas together.
LEMMA JoinFits ==
  ASSUME NEW leftSchema \in Seq(Column), NEW rightSchema \in Seq(Column),
         NEW left, NEW right, NEW leftColumn, NEW rightColumn,
         Fits(left, leftSchema), Fits(right, rightSchema)
  PROVE  Fits(ExecuteJoin(leftSchema \o rightSchema, left, right, leftColumn, rightColumn),
              leftSchema \o rightSchema)
<1> DEFINE answer == ExecuteJoin(leftSchema \o rightSchema, left, right, leftColumn, rightColumn)
<1>1. CASE left.error # "none" \/ right.error # "none"
  <2>1. (answer = left /\ left.error # "none") \/ (answer = right /\ right.error # "none")
    BY <1>1, FailedJoin
  <2> QED BY <2>1 DEF Fits
<1>2. CASE left.error = "none" /\ right.error = "none"
  <2>1. CASE SequenceContains(leftSchema, leftColumn) /\ SequenceContains(rightSchema, rightColumn)
    <3>1. answer = Answer(leftSchema \o rightSchema,
                          JoinedRows(left, right, leftColumn, rightColumn))
      BY <1>2, <2>1, JoinSucceeds
    <3>2. \A pair \in DOMAIN JoinedRows(left, right, leftColumn, rightColumn) :
            JoinedRows(left, right, leftColumn, rightColumn)[pair]
              \in [DOMAIN (leftSchema \o rightSchema) -> Cell]
      BY <1>2, JoinedRowsFit, Zenon
    <3> QED BY <3>1, <3>2, AnswerFits, Zenon
  <2>2. CASE ~SequenceContains(leftSchema, leftColumn) \/ ~SequenceContains(rightSchema, rightColumn)
    BY <1>2, <2>2, JoinWithoutKey, FailureFits DEF Errors
  <2> QED BY <2>1, <2>2
<1> QED BY <1>1, <1>2

-----------------------------------------------------------------------------
(* The equations behind the rules.  Each says that two execution plans give*)
(* the same answer: rows, order, or exception.                             *)

(* Filtering a projection is projecting the filtered input, when the       *)
(* condition reads projected columns only.                                 *)
LEMMA SelectThroughProject ==
  ASSUME NEW columns \in Seq(Column), NEW schema \in Seq(Column), NEW input,
         Fits(input, schema), AllColumnsIncluded(columns, schema),
         NEW condition, ~condition.raw,
         SequenceContains(columns, condition.leftColumn),
         condition.rightKind = "Column" => SequenceContains(columns, condition.rightColumn)
  PROVE  ExecuteSelect(condition, columns, ExecuteProject(columns, input))
           = ExecuteProject(columns, ExecuteSelect(condition, schema, input))
<1>1. CASE input.error # "none"
  BY <1>1, FailedSelect, FailedProject
<1>2. CASE input.error = "none"
  <2> DEFINE projected == Answer(columns, ProjectedRows(columns, input))
             selected  == Answer(schema, SelectedRows(condition, input))
  <2>1. ExecuteProject(columns, input) = projected /\ Fits(projected, columns)
    BY <1>2, ProjectSucceeds, ProjectFits
  <2>2. ExecuteSelect(condition, schema, input) = selected /\ Fits(selected, schema)
    BY <1>2, SelectSucceeds, SelectFits
  <2>3. /\ projected.error = "none" /\ projected.schema = columns
        /\ projected.rows = ProjectedRows(columns, input)
        /\ selected.error = "none" /\ selected.schema = schema
        /\ selected.rows = SelectedRows(condition, input)
        /\ input.schema = schema
    BY <1>2 DEF Answer, Fits
  <2> HIDE DEF projected, selected
  <2>4. ExecuteSelect(condition, columns, projected)
          = Answer(columns, SelectedRows(condition, projected))
    BY <2>1, <2>3, SelectSucceeds
  <2>5. ExecuteProject(columns, selected) = Answer(columns, ProjectedRows(columns, selected))
    BY <2>2, <2>3, ProjectSucceeds
  <2>6. ASSUME NEW id \in DOMAIN input.rows
        PROVE  Evaluate(condition, columns, ProjectedRow(columns, schema, input.rows[id]))
                 <=> Evaluate(condition, schema, input.rows[id])
    <3>1. \A column : SequenceContains(columns, column) =>
            RowValue(columns, ProjectedRow(columns, schema, input.rows[id]), column)
              = RowValue(schema, input.rows[id], column)
      BY IncludedColumns, ValueInProjectedRow
    <3> QED BY <3>1, EvaluateByValues
  <2>7. SelectedRows(condition, projected) = ProjectedRows(columns, selected)
    <3>1. SelectedRows(condition, projected)
            = [id \in {i \in DOMAIN input.rows :
                         Evaluate(condition, columns, ProjectedRow(columns, schema, input.rows[i]))}
                 |-> ProjectedRow(columns, schema, input.rows[id])]
      BY <2>3 DEF SelectedRows, ProjectedRows
    <3>2. ProjectedRows(columns, selected)
            = [id \in {i \in DOMAIN input.rows : Evaluate(condition, schema, input.rows[i])}
                 |-> ProjectedRow(columns, schema, input.rows[id])]
      BY <2>3 DEF SelectedRows, ProjectedRows
    <3> QED BY <3>1, <3>2, <2>6
  <2> QED BY <2>1, <2>2, <2>4, <2>5, <2>7
<1> QED BY <1>1, <1>2

(* Projecting a projection is projecting its input.                        *)
LEMMA ProjectThroughProject ==
  ASSUME NEW outer \in Seq(Column), NEW inner \in Seq(Column),
         NEW schema \in Seq(Column), NEW input,
         Fits(input, schema), AllColumnsIncluded(inner, schema),
         AllColumnsIncluded(outer, inner)
  PROVE  /\ AllColumnsIncluded(outer, schema)
         /\ ExecuteProject(outer, ExecuteProject(inner, input)) = ExecuteProject(outer, input)
<1>1. AllColumnsIncluded(outer, schema)
  BY IncludedColumns
<1>2. CASE input.error # "none"
  BY <1>1, <1>2, FailedProject
<1>3. CASE input.error = "none"
  <2> DEFINE projected == Answer(inner, ProjectedRows(inner, input))
  <2>1. ExecuteProject(inner, input) = projected /\ Fits(projected, inner)
    BY <1>3, ProjectSucceeds, ProjectFits
  <2>2. /\ projected.error = "none" /\ projected.schema = inner
        /\ projected.rows = ProjectedRows(inner, input) /\ input.schema = schema
    BY <1>3 DEF Answer, Fits
  <2> HIDE DEF projected
  <2>3. ExecuteProject(outer, projected) = Answer(outer, ProjectedRows(outer, projected))
    BY <2>1, <2>2, ProjectSucceeds
  <2>4. ExecuteProject(outer, input) = Answer(outer, ProjectedRows(outer, input))
    BY <1>1, <1>3, ProjectSucceeds
  <2>5. ASSUME NEW row
        PROVE  ProjectedRow(outer, inner, ProjectedRow(inner, schema, row))
                 = ProjectedRow(outer, schema, row)
    <3> SUFFICES ASSUME NEW k \in DOMAIN outer
                 PROVE  ProjectedRow(inner, schema, row)[ColumnIndex(inner, outer[k])]
                          = row[ColumnIndex(schema, outer[k])]
      BY DEF ProjectedRow
    <3>1. /\ ColumnIndex(inner, outer[k]) \in DOMAIN inner
          /\ inner[ColumnIndex(inner, outer[k])] = outer[k]
      BY ColumnIndexFound DEF AllColumnsIncluded
    <3> QED BY <3>1 DEF ProjectedRow
  <2>6. ProjectedRows(outer, projected) = ProjectedRows(outer, input)
    BY <2>2, <2>5 DEF ProjectedRows
  <2> QED BY <1>1, <2>1, <2>3, <2>4, <2>6
<1> QED BY <1>1, <1>2, <1>3

(* Filtering a join on columns of its left input is joining the filtered   *)
(* left input.                                                             *)
LEMMA SelectThroughJoinLeft ==
  ASSUME NEW leftSchema \in Seq(Column), NEW rightSchema \in Seq(Column),
         NEW left, NEW right, NEW leftColumn, NEW rightColumn,
         Fits(left, leftSchema), Fits(right, rightSchema),
         NEW condition, ~condition.raw,
         SequenceContains(leftSchema, condition.leftColumn),
         condition.rightKind = "Column" =>
           SequenceContains(leftSchema, condition.rightColumn)
  PROVE  ExecuteSelect(condition, leftSchema \o rightSchema,
                       ExecuteJoin(leftSchema \o rightSchema, left, right, leftColumn, rightColumn))
           = ExecuteJoin(leftSchema \o rightSchema,
                       ExecuteSelect(condition, leftSchema, left), right, leftColumn, rightColumn)
<1> DEFINE schema == leftSchema \o rightSchema
           joined == ExecuteJoin(schema, left, right, leftColumn, rightColumn)
           selected == ExecuteSelect(condition, leftSchema, left)
<1>1. Fits(joined, schema) /\ Fits(selected, leftSchema)
  BY JoinFits, SelectFits
<1>2. CASE left.error # "none" \/ right.error # "none"
  <2>1. selected.error = left.error
    BY <1>2, FailedSelect, SelectSucceeds DEF Answer
  <2>2. selected.error # "none" => selected = left
    BY <2>1, FailedSelect
  <2> QED BY <1>2, <2>1, <2>2, FailedSelect, FailedJoin
<1>3. CASE /\ left.error = "none" /\ right.error = "none"
           /\ ~SequenceContains(leftSchema, leftColumn) \/ ~SequenceContains(rightSchema, rightColumn)
  <2>1. selected.error = "none"
    BY <1>3, SelectSucceeds DEF Answer
  <2>2. joined = Failed("column") /\ ExecuteJoin(schema, selected, right, leftColumn, rightColumn) = Failed("column")
    BY <1>1, <1>3, <2>1, JoinWithoutKey
  <2> QED BY <2>2, FailedSelect DEF Failed
<1>4. CASE /\ left.error = "none" /\ right.error = "none"
           /\ SequenceContains(leftSchema, leftColumn) /\ SequenceContains(rightSchema, rightColumn)
  <2>1. joined = Answer(schema, JoinedRows(left, right, leftColumn, rightColumn))
    BY <1>4, JoinSucceeds
  <2>2. selected = Answer(leftSchema, SelectedRows(condition, left))
    BY <1>4, SelectSucceeds
  <2>3. /\ joined.error = "none" /\ joined.schema = schema
        /\ joined.rows = JoinedRows(left, right, leftColumn, rightColumn)
        /\ selected.error = "none" /\ selected.schema = leftSchema
        /\ selected.rows = SelectedRows(condition, left)
        /\ left.schema = leftSchema /\ right.schema = rightSchema
    BY <1>4, <2>1, <2>2 DEF Answer, Fits
  <2> HIDE DEF joined, selected
  <2>4. ExecuteSelect(condition, schema, joined) = Answer(schema, SelectedRows(condition, joined))
    BY <1>1, <2>3, SelectSucceeds
  <2>5. ExecuteJoin(schema, selected, right, leftColumn, rightColumn)
          = Answer(schema, JoinedRows(selected, right, leftColumn, rightColumn))
    BY <1>1, <1>4, <2>3, JoinSucceeds
  <2>6. ASSUME NEW l \in DOMAIN left.rows, NEW r \in DOMAIN right.rows
        PROVE  Evaluate(condition, schema, left.rows[l] \o right.rows[r])
                 <=> Evaluate(condition, leftSchema, left.rows[l])
    <3>1. left.rows[l] \in [DOMAIN leftSchema -> Cell] /\ right.rows[r] \in [DOMAIN rightSchema -> Cell]
      BY <1>4 DEF Fits
    <3>2. \A column : SequenceContains(leftSchema, column) =>
            RowValue(schema, left.rows[l] \o right.rows[r], column)
              = RowValue(leftSchema, left.rows[l], column)
      BY <3>1, LeftValueInJoinedRow, Zenon
    <3> QED BY <3>2, EvaluateByValues
  <2>7. SelectedRows(condition, joined) = JoinedRows(selected, right, leftColumn, rightColumn)
    <3> DEFINE M == MatchingRows(left, right, leftColumn, rightColumn)
    <3>0. DOMAIN joined.rows = M /\ \A p \in M : joined.rows[p] = left.rows[p[1]] \o right.rows[p[2]]
      BY <2>3 DEF JoinedRows
    <3>1. SelectedRows(condition, joined)
            = [pair \in {p \in M : Evaluate(condition, schema, left.rows[p[1]] \o right.rows[p[2]])}
                 |-> left.rows[pair[1]] \o right.rows[pair[2]]]
      <4> HIDE DEF M
      <4>1. {p \in DOMAIN joined.rows : Evaluate(condition, joined.schema, joined.rows[p])}
              = {p \in M : Evaluate(condition, schema, left.rows[p[1]] \o right.rows[p[2]])}
        BY <2>3, <3>0
      <4> QED BY <3>0, <4>1 DEF SelectedRows
    <3>2. MatchingRows(selected, right, leftColumn, rightColumn)
            = {pair \in M : Evaluate(condition, leftSchema, left.rows[pair[1]])}
      BY <2>3 DEF SelectedRows, MatchingRows
    <3>3. \A pair \in M : pair[1] \in DOMAIN left.rows /\ pair[2] \in DOMAIN right.rows
      BY DEF MatchingRows
    <3>4. {p \in M : Evaluate(condition, schema, left.rows[p[1]] \o right.rows[p[2]])}
            = {pair \in M : Evaluate(condition, leftSchema, left.rows[pair[1]])}
      BY <3>3, <2>6
    <3>5. \A pair \in MatchingRows(selected, right, leftColumn, rightColumn) :
            selected.rows[pair[1]] = left.rows[pair[1]]
      BY <2>3 DEF SelectedRows, MatchingRows
    <3> QED BY <3>1, <3>2, <3>4, <3>5 DEF JoinedRows
  <2> QED BY <2>4, <2>5, <2>7 DEF joined, selected
<1> QED BY <1>2, <1>3, <1>4

(* Filtering a join on columns of its right input is joining the filtered   *)
(* right input.                                                             *)
LEMMA SelectThroughJoinRight ==
  ASSUME NEW leftSchema \in Seq(Column), NEW rightSchema \in Seq(Column),
         NEW left, NEW right, NEW leftColumn, NEW rightColumn,
         Fits(left, leftSchema), Fits(right, rightSchema),
         NEW condition, ~condition.raw,
         ~SequenceContains(leftSchema, condition.leftColumn) /\ SequenceContains(rightSchema, condition.leftColumn),
         condition.rightKind = "Column" =>
           ~SequenceContains(leftSchema, condition.rightColumn) /\ SequenceContains(rightSchema, condition.rightColumn)
  PROVE  ExecuteSelect(condition, leftSchema \o rightSchema,
                       ExecuteJoin(leftSchema \o rightSchema, left, right, leftColumn, rightColumn))
           = ExecuteJoin(leftSchema \o rightSchema,
                       left, ExecuteSelect(condition, rightSchema, right), leftColumn, rightColumn)
<1> DEFINE schema == leftSchema \o rightSchema
           joined == ExecuteJoin(schema, left, right, leftColumn, rightColumn)
           selected == ExecuteSelect(condition, rightSchema, right)
<1>1. Fits(joined, schema) /\ Fits(selected, rightSchema)
  BY JoinFits, SelectFits
<1>2. CASE left.error # "none" \/ right.error # "none"
  <2>1. selected.error = right.error
    BY <1>2, FailedSelect, SelectSucceeds DEF Answer
  <2>2. selected.error # "none" => selected = right
    BY <2>1, FailedSelect
  <2> QED BY <1>2, <2>1, <2>2, FailedSelect, FailedJoin
<1>3. CASE /\ left.error = "none" /\ right.error = "none"
           /\ ~SequenceContains(leftSchema, leftColumn) \/ ~SequenceContains(rightSchema, rightColumn)
  <2>1. selected.error = "none"
    BY <1>3, SelectSucceeds DEF Answer
  <2>2. joined = Failed("column") /\ ExecuteJoin(schema, left, selected, leftColumn, rightColumn) = Failed("column")
    BY <1>1, <1>3, <2>1, JoinWithoutKey
  <2> QED BY <2>2, FailedSelect DEF Failed
<1>4. CASE /\ left.error = "none" /\ right.error = "none"
           /\ SequenceContains(leftSchema, leftColumn) /\ SequenceContains(rightSchema, rightColumn)
  <2>1. joined = Answer(schema, JoinedRows(left, right, leftColumn, rightColumn))
    BY <1>4, JoinSucceeds
  <2>2. selected = Answer(rightSchema, SelectedRows(condition, right))
    BY <1>4, SelectSucceeds
  <2>3. /\ joined.error = "none" /\ joined.schema = schema
        /\ joined.rows = JoinedRows(left, right, leftColumn, rightColumn)
        /\ selected.error = "none" /\ selected.schema = rightSchema
        /\ selected.rows = SelectedRows(condition, right)
        /\ left.schema = leftSchema /\ right.schema = rightSchema
    BY <1>4, <2>1, <2>2 DEF Answer, Fits
  <2> HIDE DEF joined, selected
  <2>4. ExecuteSelect(condition, schema, joined) = Answer(schema, SelectedRows(condition, joined))
    BY <1>1, <2>3, SelectSucceeds
  <2>5. ExecuteJoin(schema, left, selected, leftColumn, rightColumn)
          = Answer(schema, JoinedRows(left, selected, leftColumn, rightColumn))
    BY <1>1, <1>4, <2>3, JoinSucceeds
  <2>6. ASSUME NEW l \in DOMAIN left.rows, NEW r \in DOMAIN right.rows
        PROVE  Evaluate(condition, schema, left.rows[l] \o right.rows[r])
                 <=> Evaluate(condition, rightSchema, right.rows[r])
    <3>1. left.rows[l] \in [DOMAIN leftSchema -> Cell] /\ right.rows[r] \in [DOMAIN rightSchema -> Cell]
      BY <1>4 DEF Fits
    <3>2. ASSUME NEW column,
                 ~SequenceContains(leftSchema, column), SequenceContains(rightSchema, column)
          PROVE  RowValue(schema, left.rows[l] \o right.rows[r], column)
                   = RowValue(rightSchema, right.rows[r], column)
      <4>1. ASSUME NEW a \in [DOMAIN leftSchema -> Cell], NEW b \in [DOMAIN rightSchema -> Cell]
            PROVE  RowValue(schema, a \o b, column) = RowValue(rightSchema, b, column)
        BY <3>2, RightValueInJoinedRow, ZenonT(60)
      <4> QED BY <3>1, <4>1, Zenon
    <3> QED BY <3>2, EvaluateByValues
  <2>7. SelectedRows(condition, joined) = JoinedRows(left, selected, leftColumn, rightColumn)
    <3> DEFINE M == MatchingRows(left, right, leftColumn, rightColumn)
    <3>0. DOMAIN joined.rows = M /\ \A p \in M : joined.rows[p] = left.rows[p[1]] \o right.rows[p[2]]
      BY <2>3 DEF JoinedRows
    <3>1. SelectedRows(condition, joined)
            = [pair \in {p \in M : Evaluate(condition, schema, left.rows[p[1]] \o right.rows[p[2]])}
                 |-> left.rows[pair[1]] \o right.rows[pair[2]]]
      <4> HIDE DEF M
      <4>1. {p \in DOMAIN joined.rows : Evaluate(condition, joined.schema, joined.rows[p])}
              = {p \in M : Evaluate(condition, schema, left.rows[p[1]] \o right.rows[p[2]])}
        BY <2>3, <3>0
      <4> QED BY <3>0, <4>1 DEF SelectedRows
    <3>2. MatchingRows(left, selected, leftColumn, rightColumn)
            = {pair \in M : Evaluate(condition, rightSchema, right.rows[pair[2]])}
      BY <2>3 DEF SelectedRows, MatchingRows
    <3>3. \A pair \in M : pair[1] \in DOMAIN left.rows /\ pair[2] \in DOMAIN right.rows
      BY DEF MatchingRows
    <3>4. {p \in M : Evaluate(condition, schema, left.rows[p[1]] \o right.rows[p[2]])}
            = {pair \in M : Evaluate(condition, rightSchema, right.rows[pair[2]])}
      BY <3>3, <2>6
    <3>5. \A pair \in MatchingRows(left, selected, leftColumn, rightColumn) :
            selected.rows[pair[2]] = right.rows[pair[2]]
      BY <2>3 DEF SelectedRows, MatchingRows
    <3> QED BY <3>1, <3>2, <3>4, <3>5 DEF JoinedRows
  <2> QED BY <2>4, <2>5, <2>7 DEF joined, selected
<1> QED BY <1>2, <1>3, <1>4

-----------------------------------------------------------------------------
(* Projection pruning.                                                     *)

(* An answer narrowed to fewer columns: the same failure, or the same rows *)
(* with the same values in the columns of a set.                           *)
Narrowed(narrow, narrowSchema, wide, wideSchema, columns) ==
  /\ Fits(narrow, narrowSchema) /\ Fits(wide, wideSchema)
  /\ narrow.error = wide.error
  /\ wide.error # "none" => narrow = wide
  /\ DOMAIN narrow.rows = DOMAIN wide.rows
  /\ \A column \in columns :
       /\ SequenceContains(narrowSchema, column)
       /\ SequenceContains(wideSchema, column)
       /\ wide.error = "none" =>
            \A id \in DOMAIN wide.rows :
              RowValue(narrowSchema, narrow.rows[id], column)
                = RowValue(wideSchema, wide.rows[id], column)

(* projectIfNeeded either leaves an input alone or projects it.            *)
LEMMA NotNarrowed ==
  ASSUME NEW schema, NEW input, Fits(input, schema), NEW columns,
         \A column \in columns : SequenceContains(schema, column)
  PROVE  Narrowed(input, schema, input, schema, columns)
BY DEF Narrowed

\* projectIfNeeded that does project: the rest of the columns are untouched.
LEMMA NarrowedByProject ==
  ASSUME NEW list \in Seq(Column), NEW schema \in Seq(Column), NEW input,
         Fits(input, schema), AllColumnsIncluded(list, schema), NEW columns,
         \A column \in columns : SequenceContains(list, column)
  PROVE  Narrowed(ExecuteProject(list, input), list, input, schema, columns)
<1>1. Fits(ExecuteProject(list, input), list)
  BY ProjectFits
<1>2. \A column \in columns : SequenceContains(schema, column)
  BY IncludedColumns
<1>3. CASE input.error # "none"
  <2>1. ExecuteProject(list, input) = input
    BY <1>3, FailedProject
  <2> QED BY <1>1, <1>2, <1>3, <2>1 DEF Narrowed
<1>4. CASE input.error = "none"
  <2>1. ExecuteProject(list, input) = Answer(list, ProjectedRows(list, input))
    BY <1>4, ProjectSucceeds
  <2>2. /\ ExecuteProject(list, input).error = "none"
        /\ DOMAIN ExecuteProject(list, input).rows = DOMAIN input.rows
        /\ \A id \in DOMAIN input.rows :
             ExecuteProject(list, input).rows[id] = ProjectedRow(list, schema, input.rows[id])
    BY <1>4, <2>1 DEF Answer, ProjectedRows, Fits
  <2>3. \A column \in columns : \A id \in DOMAIN input.rows :
          RowValue(list, ProjectedRow(list, schema, input.rows[id]), column)
            = RowValue(schema, input.rows[id], column)
    BY <1>2, ValueInProjectedRow
  <2> QED BY <1>1, <1>2, <1>4, <2>2, <2>3 DEF Narrowed
<1> QED BY <1>3, <1>4

(* A join of narrowed inputs matches the same pairs of rows.               *)
LEMMA NarrowedMatches ==
  ASSUME NEW left, NEW leftSchema, NEW right, NEW rightSchema,
         NEW narrowLeft, NEW narrowLeftSchema, NEW narrowRight, NEW narrowRightSchema,
         NEW leftColumns, NEW rightColumns,
         Narrowed(narrowLeft, narrowLeftSchema, left, leftSchema, leftColumns),
         Narrowed(narrowRight, narrowRightSchema, right, rightSchema, rightColumns),
         left.error = "none", right.error = "none",
         NEW leftColumn \in leftColumns, NEW rightColumn \in rightColumns
  PROVE  MatchingRows(narrowLeft, narrowRight, leftColumn, rightColumn)
           = MatchingRows(left, right, leftColumn, rightColumn)
<1>1. /\ left.schema = leftSchema /\ right.schema = rightSchema
      /\ narrowLeft.schema = narrowLeftSchema /\ narrowRight.schema = narrowRightSchema
      /\ DOMAIN narrowLeft.rows = DOMAIN left.rows
      /\ DOMAIN narrowRight.rows = DOMAIN right.rows
  BY DEF Narrowed, Fits
<1>2. \A l \in DOMAIN left.rows :
        narrowLeft.rows[l][ColumnIndex(narrowLeftSchema, leftColumn)]
          = left.rows[l][ColumnIndex(leftSchema, leftColumn)]
  BY DEF Narrowed, RowValue
<1>3. \A r \in DOMAIN right.rows :
        narrowRight.rows[r][ColumnIndex(narrowRightSchema, rightColumn)]
          = right.rows[r][ColumnIndex(rightSchema, rightColumn)]
  BY DEF Narrowed, RowValue
<1> QED BY <1>1, <1>2, <1>3 DEF MatchingRows

(* What a join that succeeds answers with.                                 *)
IsJoin(answer, schema, left, right, leftColumn, rightColumn) ==
  /\ answer.error = "none"
  /\ answer.schema = schema
  /\ DOMAIN answer.rows = MatchingRows(left, right, leftColumn, rightColumn)
  /\ \A p \in DOMAIN answer.rows : answer.rows[p] = left.rows[p[1]] \o right.rows[p[2]]

\* What executeJoin answers, stated by pairs of rows.
LEMMA JoinedAnswer ==
  ASSUME NEW leftSchema \in Seq(Column), NEW rightSchema \in Seq(Column),
         NEW left, NEW right, NEW leftColumn, NEW rightColumn,
         Fits(left, leftSchema), left.error = "none",
         Fits(right, rightSchema), right.error = "none",
         SequenceContains(leftSchema, leftColumn),
         SequenceContains(rightSchema, rightColumn)
  PROVE  IsJoin(ExecuteJoin(leftSchema \o rightSchema, left, right, leftColumn, rightColumn),
                leftSchema \o rightSchema, left, right, leftColumn, rightColumn)
<1> DEFINE rows == JoinedRows(left, right, leftColumn, rightColumn)
           schema == leftSchema \o rightSchema
           joined == ExecuteJoin(schema, left, right, leftColumn, rightColumn)
<1>1. joined = Answer(schema, rows)
  BY JoinSucceeds
<1>2. /\ DOMAIN rows = MatchingRows(left, right, leftColumn, rightColumn)
      /\ \A p \in DOMAIN rows : rows[p] = left.rows[p[1]] \o right.rows[p[2]]
  BY DEF JoinedRows
<1> HIDE DEF rows, joined, schema
<1>3. joined.error = "none" /\ joined.schema = schema /\ joined.rows = rows
  BY <1>1 DEF Answer
<1>4. IsJoin(joined, schema, left, right, leftColumn, rightColumn)
  BY <1>2, <1>3 DEF IsJoin
<1> QED BY <1>4 DEF joined, schema

(* A column kept on its side has in the joined row the value it had there. *)
LeftKept(leftSchema, rightSchema, column) ==
  \A a \in [DOMAIN leftSchema -> Cell], b \in [DOMAIN rightSchema -> Cell] :
    RowValue(leftSchema \o rightSchema, a \o b, column) = RowValue(leftSchema, a, column)

RightKept(leftSchema, rightSchema, column) ==
  \A a \in [DOMAIN leftSchema -> Cell], b \in [DOMAIN rightSchema -> Cell] :
    RowValue(leftSchema \o rightSchema, a \o b, column) = RowValue(rightSchema, b, column)

\* The columns of the left side are kept by a join.
LEMMA LeftValueKept ==
  ASSUME NEW leftSchema \in Seq(Column), NEW rightSchema \in Seq(Column),
         NEW column, SequenceContains(leftSchema, column)
  PROVE  LeftKept(leftSchema, rightSchema, column)
<1>1. ASSUME NEW a \in [DOMAIN leftSchema -> Cell], NEW b \in [DOMAIN rightSchema -> Cell]
      PROVE  RowValue(leftSchema \o rightSchema, a \o b, column) = RowValue(leftSchema, a, column)
  BY LeftValueInJoinedRow, ZenonT(60)
<1> QED BY <1>1, Zenon DEF LeftKept

\* The columns only the right side has are kept by a join.
LEMMA RightValueKept ==
  ASSUME NEW leftSchema \in Seq(Column), NEW rightSchema \in Seq(Column),
         NEW column, ~SequenceContains(leftSchema, column), SequenceContains(rightSchema, column)
  PROVE  RightKept(leftSchema, rightSchema, column)
<1>1. ASSUME NEW a \in [DOMAIN leftSchema -> Cell], NEW b \in [DOMAIN rightSchema -> Cell]
      PROVE  RowValue(leftSchema \o rightSchema, a \o b, column) = RowValue(rightSchema, b, column)
  BY RightValueInJoinedRow, ZenonT(60)
<1> QED BY <1>1, Zenon DEF RightKept

\* No column of the set is in the schema; every column of the list is in the set.
Absent(columns, schema) == \A column \in columns : ~SequenceContains(schema, column)
Listed(list, columns) == \A k \in DOMAIN list : list[k] \in columns

(* Two joins that a projection cannot tell apart.                          *)
ProjectAlike(columns, leftColumn, rightColumn, left, leftSchema, right, rightSchema,
             narrowLeft, narrowLeftSchema, narrowRight, narrowRightSchema) ==
  /\ AllColumnsIncluded(columns, narrowLeftSchema \o narrowRightSchema)
  /\ ExecuteProject(columns, ExecuteJoin(narrowLeftSchema \o narrowRightSchema,
                      narrowLeft, narrowRight, leftColumn, rightColumn))
     = ExecuteProject(columns, ExecuteJoin(leftSchema \o rightSchema,
                      left, right, leftColumn, rightColumn))

(* Projecting a join of narrowed inputs gives what projecting the join of  *)
(* the whole inputs gives, when every projected column is kept on its side *)
(* and both keys are kept.                                                 *)
LEMMA ProjectPruned ==
  ASSUME NEW left, NEW leftSchema \in Seq(Column),
         NEW right, NEW rightSchema \in Seq(Column),
         NEW narrowLeft, NEW narrowLeftSchema \in Seq(Column),
         NEW narrowRight, NEW narrowRightSchema \in Seq(Column),
         NEW leftColumns, NEW rightColumns,
         Narrowed(narrowLeft, narrowLeftSchema, left, leftSchema, leftColumns),
         Narrowed(narrowRight, narrowRightSchema, right, rightSchema, rightColumns),
         Absent(rightColumns, leftSchema), Absent(rightColumns, narrowLeftSchema),
         NEW leftColumn \in leftColumns, NEW rightColumn \in rightColumns,
         NEW columns \in Seq(Column),
         Listed(columns, leftColumns \cup rightColumns)
  PROVE  ProjectAlike(columns, leftColumn, rightColumn, left, leftSchema, right, rightSchema,
                      narrowLeft, narrowLeftSchema, narrowRight, narrowRightSchema)
<1> DEFINE schema == leftSchema \o rightSchema
           narrowSchema == narrowLeftSchema \o narrowRightSchema
           joined == ExecuteJoin(schema, left, right, leftColumn, rightColumn)
           narrowJoined == ExecuteJoin(narrowSchema, narrowLeft, narrowRight,
                                       leftColumn, rightColumn)
<1>1. /\ Fits(left, leftSchema) /\ Fits(right, rightSchema)
      /\ Fits(narrowLeft, narrowLeftSchema) /\ Fits(narrowRight, narrowRightSchema)
      /\ narrowLeft.error = left.error /\ narrowRight.error = right.error
      /\ SequenceContains(leftSchema, leftColumn)
      /\ SequenceContains(narrowLeftSchema, leftColumn)
      /\ SequenceContains(rightSchema, rightColumn)
      /\ SequenceContains(narrowRightSchema, rightColumn)
  BY DEF Narrowed
<1>2. ASSUME NEW k \in DOMAIN columns
      PROVE  SequenceContains(schema, columns[k]) /\ SequenceContains(narrowSchema, columns[k])
  <2>1. \/ SequenceContains(leftSchema, columns[k]) /\ SequenceContains(narrowLeftSchema, columns[k])
        \/ SequenceContains(rightSchema, columns[k]) /\ SequenceContains(narrowRightSchema, columns[k])
    BY DEF Narrowed, Listed
  <2> QED BY <2>1, ConcatColumns
<1>3. AllColumnsIncluded(columns, schema) /\ AllColumnsIncluded(columns, narrowSchema)
  BY <1>2 DEF AllColumnsIncluded
<1>4. CASE left.error # "none" \/ right.error # "none"
  <2>1. narrowJoined = joined
    <3>1. CASE left.error # "none"
      <4>1. narrowLeft = left
        BY <3>1 DEF Narrowed
      <4> QED BY <3>1, <4>1, FailedJoin
    <3>2. CASE left.error = "none" /\ right.error # "none"
      <4>1. narrowRight = right
        BY <3>2 DEF Narrowed
      <4> QED BY <1>1, <3>2, <4>1, FailedJoin
    <3> QED BY <1>4, <3>1, <3>2
  <2> QED BY <1>3, <2>1 DEF ProjectAlike
<1>5. CASE left.error = "none" /\ right.error = "none"
  <2> DEFINE M == MatchingRows(left, right, leftColumn, rightColumn)
  <2>1. Fits(joined, schema)
    BY <1>1, JoinFits
  <2>2. Fits(narrowJoined, narrowSchema)
    BY <1>1, JoinFits
  <2>3. MatchingRows(narrowLeft, narrowRight, leftColumn, rightColumn) = M
    BY <1>5, NarrowedMatches
  <2>4. /\ joined.error = "none" /\ joined.schema = schema /\ DOMAIN joined.rows = M
        /\ \A p \in M : joined.rows[p] = left.rows[p[1]] \o right.rows[p[2]]
    <3>1. IsJoin(joined, schema, left, right, leftColumn, rightColumn)
      BY <1>1, <1>5, JoinedAnswer
    <3> HIDE DEF joined, schema
    <3> QED BY <3>1 DEF IsJoin
  <2>5. /\ narrowJoined.error = "none" /\ narrowJoined.schema = narrowSchema
        /\ DOMAIN narrowJoined.rows = M
        /\ \A p \in M : narrowJoined.rows[p] = narrowLeft.rows[p[1]] \o narrowRight.rows[p[2]]
    <3>1. narrowLeft.error = "none" /\ narrowRight.error = "none"
      BY <1>1, <1>5
    <3>2. IsJoin(narrowJoined, narrowSchema, narrowLeft, narrowRight, leftColumn, rightColumn)
      BY <1>1, <3>1, JoinedAnswer
    <3> HIDE DEF narrowJoined, narrowSchema
    <3> QED BY <2>3, <3>2 DEF IsJoin
  <2>6. /\ schema \in Seq(Column) /\ narrowSchema \in Seq(Column)
    OBVIOUS
  <2> HIDE DEF joined, narrowJoined, schema, narrowSchema
  <2>7. /\ ExecuteProject(columns, joined) = Answer(columns, ProjectedRows(columns, joined))
        /\ ExecuteProject(columns, narrowJoined) = Answer(columns, ProjectedRows(columns, narrowJoined))
    BY <1>3, <2>1, <2>2, <2>4, <2>5, ProjectSucceeds
  <2>8. ASSUME NEW p \in M, NEW column \in leftColumns \cup rightColumns
        PROVE  RowValue(narrowSchema, narrowLeft.rows[p[1]] \o narrowRight.rows[p[2]], column)
                 = RowValue(schema, left.rows[p[1]] \o right.rows[p[2]], column)
    <3> DEFINE l == left.rows[p[1]]   nl == narrowLeft.rows[p[1]]
               r == right.rows[p[2]]  nr == narrowRight.rows[p[2]]
    <3>1. p[1] \in DOMAIN left.rows /\ p[2] \in DOMAIN right.rows
      BY DEF MatchingRows
    <3>2. /\ l \in [DOMAIN leftSchema -> Cell] /\ r \in [DOMAIN rightSchema -> Cell]
          /\ nl \in [DOMAIN narrowLeftSchema -> Cell] /\ nr \in [DOMAIN narrowRightSchema -> Cell]
      BY <3>1, <1>5 DEF Narrowed, Fits
    <3> HIDE DEF l, nl, r, nr
    <3>4. RowValue(narrowLeftSchema \o narrowRightSchema, nl \o nr, column)
            = RowValue(leftSchema \o rightSchema, l \o r, column)
      <4>1. CASE column \in leftColumns
        <5>1. LeftKept(leftSchema, rightSchema, column)
              /\ LeftKept(narrowLeftSchema, narrowRightSchema, column)
          BY <4>1, LeftValueKept DEF Narrowed
        <5>2. RowValue(narrowLeftSchema, nl, column) = RowValue(leftSchema, l, column)
          BY <3>1, <4>1, <1>5 DEF Narrowed, l, nl
        <5> QED BY <3>2, <5>1, <5>2, Zenon DEF LeftKept
      <4>2. CASE column \in rightColumns
        <5>1. RightKept(leftSchema, rightSchema, column)
              /\ RightKept(narrowLeftSchema, narrowRightSchema, column)
          BY <4>2, RightValueKept DEF Narrowed, Absent
        <5>2. RowValue(narrowRightSchema, nr, column) = RowValue(rightSchema, r, column)
          BY <3>1, <4>2, <1>5 DEF Narrowed, r, nr
        <5> QED BY <3>2, <5>1, <5>2, Zenon DEF RightKept
      <4> QED BY <4>1, <4>2
    <3> QED BY <3>4 DEF l, nl, r, nr, schema, narrowSchema
  <2>9. ASSUME NEW p \in M
        PROVE  ProjectedRow(columns, narrowSchema, narrowJoined.rows[p])
                 = ProjectedRow(columns, schema, joined.rows[p])
    <3> SUFFICES ASSUME NEW k \in DOMAIN columns
                 PROVE  narrowJoined.rows[p][ColumnIndex(narrowSchema, columns[k])]
                          = joined.rows[p][ColumnIndex(schema, columns[k])]
      BY DEF ProjectedRow
    <3>1. RowValue(narrowSchema, narrowJoined.rows[p], columns[k])
            = RowValue(schema, joined.rows[p], columns[k])
      BY <2>4, <2>5, <2>8 DEF Listed
    <3> QED BY <3>1, <1>2 DEF RowValue
  <2>10. ProjectedRows(columns, narrowJoined) = ProjectedRows(columns, joined)
    BY <2>4, <2>5, <2>9 DEF ProjectedRows
  <2> QED BY <1>3, <2>7, <2>10 DEF ProjectAlike, joined, narrowJoined, schema, narrowSchema
<1> QED BY <1>4, <1>5

-----------------------------------------------------------------------------
\* A node that executes as announced.
Sound(expr, nodes) == NodeOK(expr, nodes) /\ Fits(expr.answer, expr.schema)

-----------------------------------------------------------------------------
(* What a node of each kind holds.                                         *)

\* What a Table node holds.
LEMMA TableFields ==
  ASSUME NEW nodes, NEW expr, NodeOK(expr, nodes), expr.kind = "Table"
  PROVE  /\ Children(expr) = <<>>
         /\ expr.name \in TableName
         /\ expr = TableExpr(expr.name, expr.schema)
BY DEF NodeOK, Children, LabelOK, Rebuilt

\* What a Select node holds.
LEMMA SelectFields ==
  ASSUME NEW nodes, NEW expr, NodeOK(expr, nodes), expr.kind = "Select"
  PROVE  /\ Children(expr) = <<expr.child>>
         /\ expr.child \in nodes
         /\ expr.condition \in Condition
         /\ expr = SelectExpr(expr.condition, expr.child)
<1>1. Children(expr) = <<expr.child>>
  BY DEF Children
<1>2. expr.child \in nodes
  BY <1>1 DEF NodeOK
<1>3. expr.condition \in Condition /\ expr = SelectExpr(expr.condition, expr.child)
  BY DEF NodeOK, LabelOK, Rebuilt
<1> QED BY <1>1, <1>2, <1>3

\* What a Project node holds: its constructor checked its columns.
LEMMA ProjectFields ==
  ASSUME NEW nodes, NEW expr, NodeOK(expr, nodes), expr.kind = "Project"
  PROVE  /\ Children(expr) = <<expr.child>>
         /\ expr.child \in nodes
         /\ expr.columns \in Seq(Column)
         /\ AllColumnsIncluded(expr.columns, expr.child.schema)
         /\ expr = ProjectExpr(expr.columns, expr.child)
<1>1. Children(expr) = <<expr.child>>
  BY DEF Children
<1>2. expr.child \in nodes
  BY <1>1 DEF NodeOK
<1>3. expr.columns \in Seq(Column) /\ expr = ProjectExpr(expr.columns, expr.child)
  BY DEF NodeOK, LabelOK, Rebuilt
<1>4. AllColumnsIncluded(expr.columns, expr.child.schema)
  BY DEF NodeOK, Constructible
<1> QED BY <1>1, <1>2, <1>3, <1>4

\* What a Join node holds.
LEMMA JoinFields ==
  ASSUME NEW nodes, NEW expr, NodeOK(expr, nodes), expr.kind = "Join"
  PROVE  /\ Children(expr) = <<expr.left, expr.right>>
         /\ expr.left \in nodes /\ expr.right \in nodes
         /\ expr.leftColumn \in Column /\ expr.rightColumn \in Column
         /\ expr = JoinExpr(expr.left, expr.right, expr.leftColumn, expr.rightColumn)
<1>1. Children(expr) = <<expr.left, expr.right>>
  BY DEF Children
<1>2. expr.left \in nodes /\ expr.right \in nodes
  BY <1>1 DEF NodeOK
<1>3. expr.leftColumn \in Column /\ expr.rightColumn \in Column
  BY DEF NodeOK, LabelOK
<1>4. expr = JoinExpr(expr.left, expr.right, expr.leftColumn, expr.rightColumn)
  BY DEF NodeOK, Rebuilt
<1> QED BY <1>1, <1>2, <1>3, <1>4

\* What a Rename node holds.
LEMMA RenameFields ==
  ASSUME NEW nodes, NEW expr, NodeOK(expr, nodes), expr.kind = "Rename"
  PROVE  /\ Children(expr) = <<expr.child>>
         /\ expr.child \in nodes
         /\ expr.alias \in Alias
         /\ expr = RenameExpr(expr.alias, expr.child)
<1>1. Children(expr) = <<expr.child>>
  BY DEF Children
<1>2. expr.child \in nodes
  BY <1>1 DEF NodeOK
<1>3. expr.alias \in Alias /\ expr = RenameExpr(expr.alias, expr.child)
  BY DEF NodeOK, LabelOK, Rebuilt
<1> QED BY <1>1, <1>2, <1>3

-----------------------------------------------------------------------------
(* What a constructor makes of sound parts is sound, among any nodes that  *)
(* include the parts.                                                      *)

\* The constructor of a Table node makes a sound node.
LEMMA TableSound ==
  ASSUME NEW nodes, NEW name \in TableName, NEW schema \in Seq(Column)
  PROVE  Sound(TableExpr(name, schema), nodes)
<1> DEFINE table == TableExpr(name, schema)
<1>1. /\ table.kind = "Table" /\ table.name = name /\ table.schema = schema
      /\ table.answer = ExecuteTable(name, schema)
  BY DEF TableExpr
<1> HIDE DEF table
<1>2. Children(table) = <<>> /\ LabelOK(table) /\ Rebuilt(table) = TableExpr(name, schema)
  BY <1>1 DEF Children, LabelOK, Rebuilt
<1>3. NodeOK(table, nodes)
  BY <1>1, <1>2 DEF NodeOK, ExprKind, Constructible, table
<1>4. Fits(table.answer, table.schema)
  BY <1>1, TableFits
<1> QED BY <1>3, <1>4 DEF Sound, table

\* The constructor of a Select node makes a sound node.
LEMMA SelectSound ==
  ASSUME NEW nodes, NEW child \in nodes, Sound(child, nodes), NEW condition \in Condition
  PROVE  Sound(SelectExpr(condition, child), nodes)
<1> DEFINE select == SelectExpr(condition, child)
<1>1. /\ select.kind = "Select" /\ select.condition = condition /\ select.child = child
      /\ select.schema = child.schema
      /\ select.answer = ExecuteSelect(condition, child.schema, child.answer)
  BY DEF SelectExpr
<1> HIDE DEF select
<1>2. /\ Children(select) = <<child>> /\ LabelOK(select)
      /\ Rebuilt(select) = SelectExpr(condition, child)
  BY <1>1 DEF Children, LabelOK, Rebuilt
<1>3. child.schema \in Seq(Column) /\ Fits(child.answer, child.schema)
  BY DEF Sound, NodeOK
<1>4. NodeOK(select, nodes)
  BY <1>1, <1>2, <1>3 DEF NodeOK, ExprKind, Constructible, select
<1>5. Fits(select.answer, select.schema)
  BY <1>1, <1>3, SelectFits
<1> QED BY <1>4, <1>5 DEF Sound, select

\* The constructor of a Project node that does not throw makes a sound node.
LEMMA ProjectSound ==
  ASSUME NEW nodes, NEW child \in nodes, Sound(child, nodes), NEW columns \in Seq(Column),
         AllColumnsIncluded(columns, child.schema)
  PROVE  Sound(ProjectExpr(columns, child), nodes)
<1> DEFINE project == ProjectExpr(columns, child)
<1>1. /\ project.kind = "Project" /\ project.columns = columns /\ project.child = child
      /\ project.schema = columns
      /\ project.answer = ExecuteProject(columns, child.answer)
  BY DEF ProjectExpr
<1> HIDE DEF project
<1>2. /\ Children(project) = <<child>> /\ LabelOK(project)
      /\ Rebuilt(project) = ProjectExpr(columns, child)
  BY <1>1 DEF Children, LabelOK, Rebuilt
<1>3. child.schema \in Seq(Column) /\ Fits(child.answer, child.schema)
  BY DEF Sound, NodeOK
<1>4. NodeOK(project, nodes)
  BY <1>1, <1>2, <1>3 DEF NodeOK, ExprKind, Constructible, project
<1>5. Fits(project.answer, project.schema)
  BY <1>1, <1>3, ProjectFits
<1> QED BY <1>4, <1>5 DEF Sound, project

\* The constructor of a Join node makes a sound node.
LEMMA JoinSound ==
  ASSUME NEW nodes, NEW left \in nodes, Sound(left, nodes), NEW right \in nodes,
         Sound(right, nodes), NEW leftColumn \in Column, NEW rightColumn \in Column
  PROVE  Sound(JoinExpr(left, right, leftColumn, rightColumn), nodes)
<1> DEFINE join == JoinExpr(left, right, leftColumn, rightColumn)
<1>1. /\ join.kind = "Join" /\ join.left = left /\ join.right = right
      /\ join.leftColumn = leftColumn /\ join.rightColumn = rightColumn
      /\ join.schema = left.schema \o right.schema
      /\ join.answer = ExecuteJoin(left.schema \o right.schema, left.answer, right.answer,
                                   leftColumn, rightColumn)
  BY DEF JoinExpr
<1> HIDE DEF join
<1>2. /\ Children(join) = <<left, right>> /\ LabelOK(join)
      /\ Rebuilt(join) = JoinExpr(left, right, leftColumn, rightColumn)
  BY <1>1 DEF Children, LabelOK, Rebuilt
<1>3. /\ left.schema \in Seq(Column) /\ Fits(left.answer, left.schema)
      /\ right.schema \in Seq(Column) /\ Fits(right.answer, right.schema)
  BY DEF Sound, NodeOK
<1>4. NodeOK(join, nodes)
  BY <1>1, <1>2, <1>3 DEF NodeOK, ExprKind, Constructible, join
<1>5. Fits(join.answer, join.schema)
  BY <1>1, <1>3, JoinFits
<1> QED BY <1>4, <1>5 DEF Sound, join

\* The constructor of a Rename node makes a sound node.
LEMMA RenameSound ==
  ASSUME NEW nodes, NEW child \in nodes, Sound(child, nodes), NEW alias \in Alias
  PROVE  Sound(RenameExpr(alias, child), nodes)
<1> DEFINE rename == RenameExpr(alias, child)
<1>1. /\ rename.kind = "Rename" /\ rename.alias = alias /\ rename.child = child
      /\ rename.schema = child.schema /\ rename.answer = child.answer
  BY DEF RenameExpr
<1> HIDE DEF rename
<1>2. /\ Children(rename) = <<child>> /\ LabelOK(rename)
      /\ Rebuilt(rename) = RenameExpr(alias, child)
  BY <1>1 DEF Children, LabelOK, Rebuilt
<1>3. NodeOK(rename, nodes)
  BY <1>1, <1>2 DEF Sound, NodeOK, ExprKind, Constructible, rename
<1> QED BY <1>1, <1>3 DEF Sound, rename

\* A sound node stays sound when more nodes are built.
LEMMA SoundAmongMore ==
  ASSUME NEW nodes, NEW more, nodes \subseteq more, NEW expr, Sound(expr, nodes)
  PROVE  Sound(expr, more)
BY DEF Sound, NodeOK

-----------------------------------------------------------------------------
(* A node keeps its meaning when a child is replaced by one that means the *)
(* same.                                                                   *)

\* Two rewrites in a row still mean what the first was given.
LEMMA SameMeaningTransitive ==
  ASSUME NEW a, NEW b, NEW c, SameMeaning(a, b), SameMeaning(b, c)
  PROVE  SameMeaning(a, c)
BY DEF SameMeaning

\* A selection means the same over an input that means the same.
LEMMA SameSelect ==
  ASSUME NEW condition, NEW child, NEW other, SameMeaning(child, other)
  PROVE  SameMeaning(SelectExpr(condition, child), SelectExpr(condition, other))
BY DEF SameMeaning, SelectExpr

\* A projection means the same over an input that means the same.
LEMMA SameProject ==
  ASSUME NEW columns, NEW child, NEW other, SameMeaning(child, other)
  PROVE  SameMeaning(ProjectExpr(columns, child), ProjectExpr(columns, other))
BY DEF SameMeaning, ProjectExpr

\* A join means the same over inputs that mean the same.
LEMMA SameJoin ==
  ASSUME NEW left, NEW otherLeft, NEW right, NEW otherRight, NEW leftColumn, NEW rightColumn,
         SameMeaning(left, otherLeft), SameMeaning(right, otherRight)
  PROVE  SameMeaning(JoinExpr(left, right, leftColumn, rightColumn),
                     JoinExpr(otherLeft, otherRight, leftColumn, rightColumn))
BY DEF SameMeaning, JoinExpr

\* What a Join of left and right means.
MeansJoin(expr, left, right, leftColumn, rightColumn) ==
  /\ expr.schema = left.schema \o right.schema
  /\ expr.answer = ExecuteJoin(left.schema \o right.schema, left.answer, right.answer,
                               leftColumn, rightColumn)

\* What a Join node means, by the answers of its two sides.
LEMMA JoinMeaning ==
  ASSUME NEW left, NEW right, NEW leftColumn, NEW rightColumn
  PROVE  MeansJoin(JoinExpr(left, right, leftColumn, rightColumn),
                   left, right, leftColumn, rightColumn)
BY DEF JoinExpr, MeansJoin

\* A rename means the same over an input that means the same.
LEMMA SameRename ==
  ASSUME NEW alias, NEW child, NEW other, SameMeaning(child, other)
  PROVE  SameMeaning(RenameExpr(alias, child), RenameExpr(alias, other))
BY DEF SameMeaning, RenameExpr

-----------------------------------------------------------------------------
(* The rules.                                                              *)

\* Rule Select(Project(x)) -> Project(Select(x)) is sound when the projection keeps the
\* columns of the condition.
LEMMA SelectBelowProject ==
  ASSUME NEW nodes, NEW project, Sound(project, nodes), project.kind = "Project",
         Sound(project.child, nodes),
         NEW condition, ~condition.raw,
         SequenceContains(project.columns, condition.leftColumn),
         condition.rightKind = "Column"
           => SequenceContains(project.columns, condition.rightColumn)
  PROVE  SameMeaning(ProjectExpr(project.columns, SelectExpr(condition, project.child)),
                     SelectExpr(condition, project))
<1> DEFINE columns == project.columns
           child == project.child
<1>1. /\ columns \in Seq(Column) /\ AllColumnsIncluded(columns, child.schema)
      /\ project = ProjectExpr(columns, child)
  BY ProjectFields DEF Sound
<1>2. child.schema \in Seq(Column) /\ Fits(child.answer, child.schema)
  BY DEF Sound, NodeOK
<1>3. project.schema = columns /\ project.answer = ExecuteProject(columns, child.answer)
  BY <1>1 DEF ProjectExpr
<1>4. ExecuteSelect(condition, columns, ExecuteProject(columns, child.answer))
        = ExecuteProject(columns, ExecuteSelect(condition, child.schema, child.answer))
  BY <1>1, <1>2, SelectThroughProject
<1> QED BY <1>3, <1>4 DEF SameMeaning, ProjectExpr, SelectExpr

\* Rule Select(Join(l, r)) -> Join(Select(l), r) is sound when the columns of the condition
\* are the left side's.
LEMMA SelectIntoLeft ==
  ASSUME NEW nodes, NEW join, Sound(join, nodes), join.kind = "Join",
         Sound(join.left, nodes), Sound(join.right, nodes),
         NEW condition, ~condition.raw,
         SequenceContains(join.left.schema, condition.leftColumn),
         condition.rightKind = "Column"
           => SequenceContains(join.left.schema, condition.rightColumn)
  PROVE  SameMeaning(JoinExpr(SelectExpr(condition, join.left), join.right,
                              join.leftColumn, join.rightColumn),
                     SelectExpr(condition, join))
<1> DEFINE l == join.left
           r == join.right
<1>1. join = JoinExpr(l, r, join.leftColumn, join.rightColumn)
  BY JoinFields DEF Sound
<1>2. /\ l.schema \in Seq(Column) /\ Fits(l.answer, l.schema)
      /\ r.schema \in Seq(Column) /\ Fits(r.answer, r.schema)
  BY DEF Sound, NodeOK
<1>3. MeansJoin(join, l, r, join.leftColumn, join.rightColumn)
  BY <1>1, JoinMeaning
<1>4. ExecuteSelect(condition, l.schema \o r.schema,
                    ExecuteJoin(l.schema \o r.schema, l.answer, r.answer,
                                join.leftColumn, join.rightColumn))
        = ExecuteJoin(l.schema \o r.schema, ExecuteSelect(condition, l.schema, l.answer),
                      r.answer, join.leftColumn, join.rightColumn)
  BY <1>2, SelectThroughJoinLeft
<1>5. MeansJoin(JoinExpr(SelectExpr(condition, l), r, join.leftColumn, join.rightColumn),
                SelectExpr(condition, l), r, join.leftColumn, join.rightColumn)
  BY JoinMeaning
<1> QED BY <1>3, <1>4, <1>5 DEF MeansJoin, SameMeaning, SelectExpr

\* Rule Select(Join(l, r)) -> Join(l, Select(r)) is sound when no column of the condition
\* is the left side's.
LEMMA SelectIntoRight ==
  ASSUME NEW nodes, NEW join, Sound(join, nodes), join.kind = "Join",
         Sound(join.left, nodes), Sound(join.right, nodes),
         NEW condition, ~condition.raw,
         ~SequenceContains(join.left.schema, condition.leftColumn)
           /\ SequenceContains(join.right.schema, condition.leftColumn),
         condition.rightKind = "Column"
           => ~SequenceContains(join.left.schema, condition.rightColumn)
              /\ SequenceContains(join.right.schema, condition.rightColumn)
  PROVE  SameMeaning(JoinExpr(join.left, SelectExpr(condition, join.right),
                              join.leftColumn, join.rightColumn),
                     SelectExpr(condition, join))
<1> DEFINE l == join.left
           r == join.right
<1>1. join = JoinExpr(l, r, join.leftColumn, join.rightColumn)
  BY JoinFields DEF Sound
<1>2. /\ l.schema \in Seq(Column) /\ Fits(l.answer, l.schema)
      /\ r.schema \in Seq(Column) /\ Fits(r.answer, r.schema)
  BY DEF Sound, NodeOK
<1>3. MeansJoin(join, l, r, join.leftColumn, join.rightColumn)
  BY <1>1, JoinMeaning
<1>4. ExecuteSelect(condition, l.schema \o r.schema,
                    ExecuteJoin(l.schema \o r.schema, l.answer, r.answer,
                                join.leftColumn, join.rightColumn))
        = ExecuteJoin(l.schema \o r.schema, l.answer,
                      ExecuteSelect(condition, r.schema, r.answer),
                      join.leftColumn, join.rightColumn)
  BY <1>2, SelectThroughJoinRight
<1>5. MeansJoin(JoinExpr(l, SelectExpr(condition, r), join.leftColumn, join.rightColumn),
                l, SelectExpr(condition, r), join.leftColumn, join.rightColumn)
  BY JoinMeaning
<1> QED BY <1>3, <1>4, <1>5 DEF MeansJoin, SameMeaning, SelectExpr

\* Rule Project(Project(x)) -> Project(x): the outer projection alone answers the same.
LEMMA ProjectOfProject ==
  ASSUME NEW nodes, NEW project, Sound(project, nodes), project.kind = "Project",
         Sound(project.child, nodes),
         NEW columns \in Seq(Column), AllColumnsIncluded(columns, project.schema)
  PROVE  /\ AllColumnsIncluded(columns, project.child.schema)
         /\ SameMeaning(ProjectExpr(columns, project.child), ProjectExpr(columns, project))
<1> DEFINE inner == project.columns
           child == project.child
<1>1. /\ inner \in Seq(Column) /\ AllColumnsIncluded(inner, child.schema)
      /\ project = ProjectExpr(inner, child)
  BY ProjectFields DEF Sound
<1>2. child.schema \in Seq(Column) /\ Fits(child.answer, child.schema)
  BY DEF Sound, NodeOK
<1>3. project.schema = inner /\ project.answer = ExecuteProject(inner, child.answer)
  BY <1>1 DEF ProjectExpr
<1>4. /\ AllColumnsIncluded(columns, child.schema)
      /\ ExecuteProject(columns, ExecuteProject(inner, child.answer))
           = ExecuteProject(columns, child.answer)
  BY <1>1, <1>2, <1>3, ProjectThroughProject
<1> QED BY <1>3, <1>4 DEF SameMeaning, ProjectExpr

(* left and right stand for the inputs projectIfNeeded narrows.            *)
LEMMA ProjectOfPruned ==
  ASSUME NEW nodes, NEW join, Sound(join, nodes), join.kind = "Join",
         Sound(join.left, nodes), Sound(join.right, nodes),
         NEW left, NEW right, left.schema \in Seq(Column), right.schema \in Seq(Column),
         NEW leftColumns, NEW rightColumns,
         Narrowed(left.answer, left.schema, join.left.answer, join.left.schema, leftColumns),
         Narrowed(right.answer, right.schema, join.right.answer, join.right.schema, rightColumns),
         Absent(rightColumns, join.left.schema), Absent(rightColumns, left.schema),
         join.leftColumn \in leftColumns, join.rightColumn \in rightColumns,
         NEW columns \in Seq(Column),
         Listed(columns, leftColumns \cup rightColumns)
  PROVE  LET pruned == JoinExpr(left, right, join.leftColumn, join.rightColumn)
         IN  /\ AllColumnsIncluded(columns, pruned.schema)
             /\ SameMeaning(ProjectExpr(columns, pruned), ProjectExpr(columns, join))
<1> DEFINE l == join.left
           r == join.right
           pruned == JoinExpr(left, right, join.leftColumn, join.rightColumn)
<1>1. join = JoinExpr(l, r, join.leftColumn, join.rightColumn)
  BY JoinFields DEF Sound
<1>2. l.schema \in Seq(Column) /\ r.schema \in Seq(Column)
  BY DEF Sound, NodeOK
<1>3. MeansJoin(join, l, r, join.leftColumn, join.rightColumn)
  BY <1>1, JoinMeaning
<1>4. MeansJoin(pruned, left, right, join.leftColumn, join.rightColumn)
  BY JoinMeaning
<1>5. ProjectAlike(columns, join.leftColumn, join.rightColumn,
                   l.answer, l.schema, r.answer, r.schema,
                   left.answer, left.schema, right.answer, right.schema)
  BY <1>2, ProjectPruned
<1> HIDE DEF pruned
<1>6. ExecuteProject(columns, pruned.answer) = ExecuteProject(columns, join.answer)
  BY <1>3, <1>4, <1>5 DEF MeansJoin, ProjectAlike
<1>7. AllColumnsIncluded(columns, pruned.schema)
  BY <1>4, <1>5 DEF MeansJoin, ProjectAlike
<1>8. SameMeaning(ProjectExpr(columns, pruned), ProjectExpr(columns, join))
  BY <1>6 DEF SameMeaning, ProjectExpr
<1> QED BY <1>7, <1>8 DEF pruned

-----------------------------------------------------------------------------
(* The nodes and the frames of the machine.                                *)

NodesSound == \A expr \in heap : Sound(expr, heap)

\* By the invariant, every node ever built is sound.
LEMMA HeapIsSound == ASSUME IInv PROVE NodesSound
BY DEF IInv, TypeOK, AnswersFit, NodesSound, Sound

\* A node has at most two children.
LEMMA SlotsOfNode ==
  ASSUME NEW nodes, NEW expr, NodeOK(expr, nodes)
  PROVE  Slots(expr) \subseteq {1, 2}
<1>1. Children(expr) = <<>> \/ (\E c : Children(expr) = <<c>>) \/ (\E l, r : Children(expr) = <<l, r>>)
  BY DEF NodeOK, ExprKind, Children
<1> QED BY <1>1 DEF Slots

(* A frame is a record: its fields and their sets.                         *)
LEMMA FrameTypeRecord ==
  ASSUME NEW nodes
  PROVE  FrameType(nodes) =
           [expr : nodes, slot : 0..2, done : DoneType(nodes),
            split : [scanned : Nat, left : Seq(Column), right : Seq(Column)]]
BY DEF FrameType

(* More nodes: what was well typed still is.                               *)
LEMMA FrameTypeGrows ==
  ASSUME NEW nodes, NEW more, nodes \subseteq more
  PROVE  FrameType(nodes) \subseteq FrameType(more)
<1>1. DoneType(nodes) \subseteq DoneType(more)
  <2> SUFFICES ASSUME NEW done \in DoneType(nodes) PROVE done \in DoneType(more)
    OBVIOUS
  <2>1. PICK slots \in SUBSET {1, 2} : done \in [slots -> nodes]
    BY DEF DoneType
  <2>2. done \in [slots -> more]
    BY <2>1
  <2> QED BY <2>2 DEF DoneType
<1> QED BY <1>1, FrameTypeRecord

\* The invariant holds before the first query is built.
LEMMA InitialInvariant == ASSUME Init PROVE IInv
<1> USE DEF Init
<1>1. TypeOK
  BY DEF TypeOK
<1>2. AnswersFit /\ NeverThrows
  BY DEF AnswersFit, NeverThrows
<1>3. CallsLinked /\ \A i \in DOMAIN stack : SplitSound(stack[i])
  BY DEF CallsLinked
<1>4. PartsPreserved
  BY DEF PartsPreserved
<1> QED BY <1>1, <1>2, <1>3, <1>4 DEF IInv

(* One call returns to its caller, which gets the node in its place.       *)
LEMMA ResumedFrame ==
  ASSUME NEW nodes, NEW frame \in FrameType(nodes), NEW slot \in {1, 2}, NEW expr \in nodes,
         slot \notin DOMAIN frame.done
  PROVE  /\ Resumed(frame, slot, expr) \in FrameType(nodes)
         /\ Resumed(frame, slot, expr).expr = frame.expr
         /\ Resumed(frame, slot, expr).slot = frame.slot
         /\ Resumed(frame, slot, expr).split = frame.split
         /\ DOMAIN Resumed(frame, slot, expr).done = DOMAIN frame.done \cup {slot}
         /\ Resumed(frame, slot, expr).done[slot] = expr
         /\ \A s \in DOMAIN frame.done : Resumed(frame, slot, expr).done[s] = frame.done[s]
<1> DEFINE done == [s \in DOMAIN frame.done \cup {slot} |->
                      IF s = slot THEN expr ELSE frame.done[s]]
<1>1. PICK slots \in SUBSET {1, 2} : frame.done \in [slots -> nodes]
  BY FrameTypeRecord DEF DoneType
<1>2. DOMAIN frame.done \cup {slot} \in SUBSET {1, 2} /\ DOMAIN frame.done = slots
  BY <1>1
<1>3. done \in [slots \cup {slot} -> nodes]
  BY <1>1, <1>2
<1>4. done \in DoneType(nodes)
  BY <1>2, <1>3 DEF DoneType
<1>5. /\ DOMAIN done = DOMAIN frame.done \cup {slot}
      /\ done[slot] = expr
      /\ \A s \in DOMAIN frame.done : done[s] = frame.done[s]
  OBVIOUS
<1>6. Resumed(frame, slot, expr) = [frame EXCEPT !.done = done]
  BY DEF Resumed
<1> HIDE DEF done
<1>7. /\ Resumed(frame, slot, expr) \in FrameType(nodes)
      /\ Resumed(frame, slot, expr).done = done
      /\ Resumed(frame, slot, expr).expr = frame.expr
      /\ Resumed(frame, slot, expr).slot = frame.slot
      /\ Resumed(frame, slot, expr).split = frame.split
  BY <1>4, <1>6, FrameTypeRecord
<1> QED BY <1>5, <1>7

\* The frame of a call that has just begun.
LEMMA FreshFrame ==
  ASSUME NEW nodes, NEW expr \in nodes, NEW slot \in 0..2
  PROVE  /\ Frame(expr, slot) \in FrameType(nodes)
         /\ Frame(expr, slot).expr = expr
         /\ Frame(expr, slot).slot = slot
         /\ DOMAIN Frame(expr, slot).done = {}
         /\ SplitSound(Frame(expr, slot))
<1>1. <<>> \in [{} -> nodes] /\ {} \in SUBSET {1, 2}
  OBVIOUS
<1>2. <<>> \in DoneType(nodes)
  BY <1>1 DEF DoneType
<1>3. Frame(expr, slot) \in FrameType(nodes)
  <2>1. NoSplit \in [scanned : Nat, left : Seq(Column), right : Seq(Column)]
    BY DEF NoSplit
  <2>2. PICK done \in DoneType(nodes) : done = <<>>
    BY <1>2
  <2> QED BY <2>1, <2>2, FrameTypeRecord DEF Frame
<1>4. SplitSound(Frame(expr, slot))
  BY DEF SplitSound, Frame, NoSplit
<1> QED BY <1>3, <1>4 DEF Frame

(* The stack below its top frame, and the frame there replaced.            *)
LEMMA StackWithoutTop ==
  ASSUME NEW S, NEW s \in Seq(S), s # <<>>,
         NEW front, front = SubSeq(s, 1, Len(s) - 1)
  PROVE  /\ Len(s) \in Nat \ {0} /\ DOMAIN s = 1..Len(s)
         /\ front \in Seq(S) /\ Len(front) = Len(s) - 1
         /\ DOMAIN front = 1..(Len(s) - 1)
         /\ front = <<>> <=> Len(s) = 1
         /\ \A i \in 1..(Len(s) - 1) : front[i] = s[i]
<1>1. Len(s) \in Nat \ {0} /\ DOMAIN s = 1..Len(s)
  OBVIOUS
<1>2. /\ front \in Seq(S) /\ Len(front) = Len(s) - 1
      /\ \A i \in 1..(Len(s) - 1) : front[i] = s[i]
  BY <1>1
<1>3. front = <<>> <=> Len(s) = 1
  <2>1. front = <<>> <=> Len(front) = 0
    BY <1>2, EmptySeq
  <2> QED BY <1>1, <1>2, <2>1
<1> QED BY <1>1, <1>2, <1>3

\* Replacing the last element of a sequence leaves the others.
LEMMA LastReplaced ==
  ASSUME NEW S, NEW s \in Seq(S), s # <<>>, NEW x \in S,
         NEW t, t = [s EXCEPT ![Len(s)] = x]
  PROVE  /\ t \in Seq(S) /\ Len(t) = Len(s) /\ DOMAIN t = 1..Len(s)
         /\ t[Len(s)] = x
         /\ \A i \in 1..(Len(s) - 1) : t[i] = s[i]
OBVIOUS

\* By the invariant, every frame of the stack is well typed.
LEMMA FramesTyped ==
  ASSUME IInv, NEW i \in DOMAIN stack
  PROVE  /\ stack[i] \in FrameType(heap)
         /\ DOMAIN stack[i].done \subseteq Slots(stack[i].expr)
<1>1. stack \in Seq(FrameType(heap))
  BY DEF IInv, TypeOK
<1>2. \A j \in DOMAIN stack : DOMAIN stack[j].done \subseteq Slots(stack[j].expr)
  BY DEF IInv, TypeOK
<1> QED BY <1>1, <1>2

\* Building sound nodes keeps every node sound.
LEMMA NodesStaySound ==
  ASSUME NodesSound, NEW built, \A node \in built : Sound(node, heap \cup built),
         heap' = heap \cup built
  PROVE  /\ NodesSound'
         /\ (\A expr \in heap : NodeOK(expr, heap))'
         /\ AnswersFit'
<1>1. \A expr \in heap : Sound(expr, heap \cup built)
  BY SoundAmongMore DEF NodesSound
<1>2. \A expr \in heap' : Sound(expr, heap')
  BY <1>1
<1> QED BY <1>2 DEF NodesSound, Sound, AnswersFit

(* A call hands expr back, having built the nodes of built: the invariant  *)
(* holds afterwards if expr means what the call's argument means, and is   *)
(* the argument itself when no rule was noted.                             *)
LEMMA Delivered ==
  ASSUME IInv, status = "optimizing",
         NEW expr, NEW built, NEW written \in Seq(Note),
         expr \in heap \cup built,
         \A node \in built : Sound(node, heap \cup built),
         SameMeaning(expr, Top.expr),
         NoRuleNoted /\ (\A i \in DOMAIN written : written[i].kind # "rule") => expr = Top.expr,
         Deliver(expr, built, written)
  PROVE  IInv'
<1> USE DEF Callers, Top
<1> DEFINE n == Len(stack)
<1>1. /\ heap' = heap \cup built
      /\ Return(expr, notes \o written)
      /\ UNCHANGED <<workspace, root>>
  <2>1. \A node \in built : Constructible(node)
    BY DEF Sound, NodeOK
  <2> QED BY <2>1 DEF Deliver
<1>2. NodesSound' /\ (\A e \in heap : NodeOK(e, heap))' /\ AnswersFit'
  BY <1>1, HeapIsSound, NodesStaySound
<1>3. /\ stack \in Seq(FrameType(heap)) /\ stack # <<>> /\ n \in Nat \ {0}
      /\ FrameType(heap) \subseteq FrameType(heap')
      /\ expr \in heap'
  <2>1. stack \in Seq(FrameType(heap)) /\ stack # <<>>
    BY DEF IInv, TypeOK
  <2>2. n \in Nat \ {0}
    BY <2>1
  <2>3. heap \subseteq heap' /\ expr \in heap'
    BY <1>1
  <2> QED BY <2>1, <2>2, <2>3, FrameTypeGrows
<1>4. notes \in Seq(Note) /\ notes' \in Seq(Note) /\ notes' = notes \o written
  BY <1>1 DEF IInv, TypeOK, Return
<1>5. NoRuleNoted' => /\ NoRuleNoted
                      /\ \A i \in DOMAIN written : written[i].kind # "rule"
  <2>1. \A i \in DOMAIN notes : i \in DOMAIN notes' /\ notes'[i] = notes[i]
    BY <1>4
  <2>2. \A i \in DOMAIN written : Len(notes) + i \in DOMAIN notes'
                                  /\ notes'[Len(notes) + i] = written[i]
    BY <1>4
  <2> QED BY <2>1, <2>2 DEF NoRuleNoted
<1>6. NoRuleNoted' => expr = Top.expr
  BY <1>5
<1>7. /\ workspace' \in Seq(heap')
      /\ root' \in {<<>>} \cup {<<e>> : e \in heap'}
      /\ root # <<>> /\ root' = root
      /\ result \in {<<>>} \cup {<<e>> : e \in heap'}
  <2>1. workspace \in Seq(heap) /\ workspace' = workspace /\ heap \subseteq heap'
    BY <1>1 DEF IInv, TypeOK
  <2>2. workspace' \in Seq(heap')
    BY <2>1
  <2> QED BY <1>1, <2>2 DEF IInv, TypeOK
<1>8. CASE Callers = <<>>
  <2>1. /\ status' = "returned" /\ result' = <<expr>> /\ stack' = <<>>
        /\ lastNotes' = lastNotes \o (notes \o written)
    BY <1>1, <1>8 DEF Return
  <2>2. n = 1
    BY <1>3, <1>8, StackWithoutTop
  <2>3. Top.expr = root[1]
    BY <1>3, <2>2 DEF IInv, CallsLinked
  <2>4. lastNotes' \in Seq(Note)
    BY <1>4, <2>1 DEF IInv, TypeOK
  <2>5. TypeOK'
    BY <1>2, <1>3, <1>4, <1>7, <2>1, <2>4 DEF TypeOK
  <2>6. CallsLinked' /\ NeverThrows' /\ (\A i \in DOMAIN stack : SplitSound(stack[i]))'
    BY <2>1 DEF CallsLinked, NeverThrows
  <2>7. PartsPreserved'
    <3>1. SameMeaning(result[1], root[1])'
      BY <1>7, <2>1, <2>3 DEF SameMeaning
    <3>2. NoRuleNoted' => result' = root'
      BY <1>6, <1>7, <2>1, <2>3
    <3> QED BY <2>1, <3>1, <3>2 DEF PartsPreserved
  <2> QED BY <1>2, <2>5, <2>6, <2>7 DEF IInv
<1>9. CASE Callers # <<>>
  <2> DEFINE caller == stack[n - 1]
             resumed == Resumed(caller, Top.slot, expr)
  <2>1. /\ status' = status /\ result' = result /\ lastNotes' = lastNotes
        /\ stack' = [Callers EXCEPT ![Len(Callers)] = Resumed(@, Top.slot, expr)]
    BY <1>1, <1>9 DEF Return
  <2>2. /\ n >= 2 /\ DOMAIN stack = 1..n
        /\ Callers \in Seq(FrameType(heap)) /\ Len(Callers) = n - 1
        /\ \A i \in 1..(n-1) : Callers[i] = stack[i]
    BY <1>3, <1>9, StackWithoutTop
  <2>3. /\ caller \in FrameType(heap') /\ caller.expr \in heap
        /\ Top.slot \in Slots(caller.expr) /\ Top.slot \notin DOMAIN caller.done
        /\ Top.expr = Children(caller.expr)[Top.slot]
    <3>1. caller \in FrameType(heap)
      BY <1>3, <2>2
    <3>2. n \in 2..Len(stack)
      BY <2>2, <1>3
    <3> QED BY <1>3, <3>1, <3>2, FrameTypeRecord DEF IInv, CallsLinked
  <2>4. Top.slot \in {1, 2}
    BY <2>3, SlotsOfNode DEF IInv, TypeOK
  <2>5. /\ resumed \in FrameType(heap')
        /\ resumed.expr = caller.expr
        /\ resumed.slot = caller.slot
        /\ resumed.split = caller.split
        /\ DOMAIN resumed.done = DOMAIN caller.done \cup {Top.slot}
        /\ resumed.done[Top.slot] = expr
        /\ \A s \in DOMAIN caller.done : resumed.done[s] = caller.done[s]
    BY <1>3, <2>3, <2>4, ResumedFrame
  <2>6. /\ stack' \in Seq(FrameType(heap')) /\ Len(stack') = n - 1 /\ DOMAIN stack' = 1..(n-1)
        /\ stack'[n-1] = resumed
        /\ \A i \in 1..(n-2) : stack'[i] = stack[i]
    <3>1. Callers \in Seq(FrameType(heap')) /\ Callers # <<>>
      BY <1>3, <1>9, <2>2
    <3>2. stack' = [Callers EXCEPT ![Len(Callers)] = resumed]
      BY <2>1, <2>2
    <3>3. resumed \in FrameType(heap')
      BY <2>5
    <3> HIDE DEF resumed, Callers
    <3>4. /\ stack' \in Seq(FrameType(heap')) /\ Len(stack') = Len(Callers)
          /\ DOMAIN stack' = 1..Len(Callers)
          /\ stack'[Len(Callers)] = resumed
          /\ \A i \in 1..(Len(Callers) - 1) : stack'[i] = Callers[i]
      BY <3>1, <3>2, <3>3, LastReplaced
    <3>5. Len(Callers) = n - 1 /\ n \in Nat /\ \A i \in 1..(n-1) : Callers[i] = stack[i]
      BY <1>3, <2>2
    <3> HIDE DEF n
    <3> QED BY <3>4, <3>5
  <2>7. \A i \in 1..(n-1) : /\ stack'[i].expr = stack[i].expr
                             /\ stack'[i].slot = stack[i].slot
                             /\ stack'[i].split = stack[i].split
    BY <2>2, <2>5, <2>6
  <2>8. \A i \in 1..(n-1) : SplitSound(stack'[i])
    <3>1. \A i \in 1..(n-2) : SplitSound(stack'[i])
      <4>1. \A i \in 1..(n-2) : i \in DOMAIN stack
        BY <1>3, <2>2
      <4>2. \A i \in DOMAIN stack : SplitSound(stack[i])
        BY DEF IInv
      <4> QED BY <2>6, <4>1, <4>2, Zenon
    <3>2. SplitSound(resumed)
      <4>1. SplitSound(caller)
        BY <2>2 DEF IInv
      <4>2. caller.expr.kind = "Project" => Slots(caller.expr) = {1}
        BY <2>3, ProjectFields DEF IInv, TypeOK, Slots
      <4>3. caller.split.scanned = 0 /\ caller.split = NoSplit
        <5>1. ~(caller.split.scanned > 0)
          BY <2>3, <4>1, <4>2 DEF SplitSound
        <5>2. caller.split.scanned \in Nat
          BY <2>3, FrameTypeRecord
        <5> QED BY <4>1, <5>1, <5>2 DEF SplitSound
      <4> HIDE DEF resumed, caller
      <4> QED BY <2>5, <4>3 DEF SplitSound, NoSplit
    <3> QED BY <2>2, <2>6, <3>1, <3>2
  <2>9. CallsLinked'
    <3>1. stack'[1].expr = root'[1]
      BY <1>3, <1>7, <2>2, <2>7 DEF IInv, CallsLinked
    <3>2. ASSUME NEW i \in 2..(n-1)
          PROVE  /\ stack'[i].slot \in Slots(stack'[i-1].expr) \ DOMAIN stack'[i-1].done
                 /\ stack'[i].expr = Children(stack'[i-1].expr)[stack'[i].slot]
      <4>1. i \in 2..Len(stack) /\ i \in 1..(n-1) /\ i-1 \in 1..(n-2) /\ i-1 \in 1..(n-1)
        BY <2>2
      <4>2. stack'[i-1] = stack[i-1]
        BY <2>6, <4>1
      <4> QED BY <2>7, <4>1, <4>2 DEF IInv, CallsLinked
    <3> QED BY <2>6, <3>1, <3>2 DEF CallsLinked, Slots
  <2>10. PartsPreserved'
    <3>1. ASSUME NEW i \in 1..(n-1), NEW slot \in DOMAIN stack'[i].done
          PROVE  /\ SameMeaning(stack'[i].done[slot], Children(stack'[i].expr)[slot])
                 /\ NoRuleNoted' => stack'[i].done[slot] = Children(stack'[i].expr)[slot]
      <4>1. CASE slot \in DOMAIN stack[i].done /\ stack'[i].done[slot] = stack[i].done[slot]
        BY <1>5, <2>2, <2>7, <4>1 DEF IInv, PartsPreserved
      <4>2. CASE i = n-1 /\ slot = Top.slot
        <5>1. stack'[i].done[slot] = expr /\ Children(stack'[i].expr)[slot] = Top.expr
          BY <2>3, <2>5, <2>6, <4>2
        <5> QED BY <1>6, <5>1
      <4>3. CASE i \in 1..(n-2)
        BY <2>6, <4>1, <4>3
      <4>4. CASE i = n-1
        <5>1. stack'[i].done = resumed.done /\ stack[i].done = caller.done
          BY <2>6, <4>4
        <5> QED BY <2>5, <4>1, <4>2, <4>4, <5>1
      <4>5. i \in 1..(n-2) \/ i = n-1
        <5>1. n \in Nat /\ i \in 1..(n-1)
          BY <1>3
        <5> HIDE DEF n
        <5> QED BY <5>1
      <4> QED BY <4>3, <4>4, <4>5, Zenon
    <3> QED BY <2>1, <2>6, <3>1 DEF PartsPreserved
  <2>11. TypeOK'
    <3>1. \A i \in 1..(n-1) : DOMAIN stack'[i].done \subseteq Slots(stack'[i].expr)
      <4>1. \A i \in 1..(n-2) : DOMAIN stack'[i].done \subseteq Slots(stack'[i].expr)
        <5>1. \A i \in 1..(n-2) : i \in DOMAIN stack /\ stack'[i] = stack[i]
          BY <1>3, <2>2, <2>6
        <5> QED BY <5>1, FramesTyped
      <4>2. DOMAIN caller.done \subseteq Slots(caller.expr)
        <5>1. n-1 \in DOMAIN stack
          BY <1>3, <2>2
        <5> QED BY <5>1, FramesTyped
      <4>3. DOMAIN resumed.done \subseteq Slots(resumed.expr)
        <5> HIDE DEF resumed, caller
        <5> QED BY <2>3, <2>5, <4>2
      <4>4. DOMAIN stack'[n-1].done \subseteq Slots(stack'[n-1].expr)
        <5>1. stack'[n-1] = resumed
          BY <2>6
        <5> HIDE DEF resumed, n
        <5> QED BY <4>3, <5>1
      <4>5. \A i \in 1..(n-1) : i \in 1..(n-2) \/ i = n-1
        <5>1. n \in Nat
          BY <1>3
        <5> HIDE DEF n
        <5> QED BY <5>1
      <4> QED BY <4>1, <4>4, <4>5, Zenon
    <3>2. stack' # <<>>
      BY <2>2, <2>6
    <3> QED BY <1>2, <1>4, <1>7, <2>1, <2>6, <3>1, <3>2 DEF IInv, TypeOK, Slots
  <2> QED BY <1>2, <2>1, <2>6, <2>8, <2>9, <2>10, <2>11 DEF IInv, NeverThrows
<1> QED BY <1>8, <1>9

\* Without a note, and with one rule noted.
LEMMA DeliveredSilently ==
  ASSUME IInv, status = "optimizing",
         NEW expr, NEW built, expr \in built,
         \A node \in built : Sound(node, heap \cup built),
         SameMeaning(expr, Top.expr), NoRuleNoted => expr = Top.expr,
         Deliver(expr, built, <<>>)
  PROVE  IInv'
<1>0. <<>> \in Seq(Note)
  OBVIOUS
<1>1. PICK written \in Seq(Note) : written = <<>>
  BY <1>0, Zenon
<1>2. Deliver(expr, built, written) /\ expr \in heap \cup built
  BY <1>1
<1>3. \A i \in DOMAIN written : written[i].kind # "rule"
  BY <1>1
<1> QED BY <1>2, <1>3, Delivered

\* A call that hands back its own copy of the node and notes nothing.
LEMMA DeliveredCopy ==
  ASSUME IInv, status = "optimizing",
         NEW expr, Sound(expr, heap \cup {expr}),
         SameMeaning(expr, Top.expr), NoRuleNoted => expr = Top.expr,
         Deliver(expr, {expr}, <<>>)
  PROVE  IInv'
<1>1. expr \in {expr} /\ \A node \in {expr} : Sound(node, heap \cup {expr})
  OBVIOUS
<1> QED BY <1>1, DeliveredSilently

\* A call that notes a warning only: the plan is left as it was.
LEMMA DeliveredWithWarning ==
  ASSUME IInv, status = "optimizing",
         NEW expr, Sound(expr, heap \cup {expr}),
         SameMeaning(expr, Top.expr), NoRuleNoted => expr = Top.expr,
         NEW name, Warning(name) \in Note,
         Deliver(expr, {expr}, <<Warning(name)>>)
  PROVE  IInv'
<1>0. <<Warning(name)>> \in Seq(Note)
  OBVIOUS
<1>1. PICK written \in Seq(Note) : written = <<Warning(name)>>
  BY <1>0, Zenon
<1>2. Deliver(expr, {expr}, written) /\ expr \in heap \cup {expr}
  BY <1>1
<1>3. \A i \in DOMAIN written : written[i].kind # "rule"
  BY <1>1 DEF Warning
<1>4. \A node \in {expr} : Sound(node, heap \cup {expr})
  OBVIOUS
<1> QED BY <1>2, <1>3, <1>4, Delivered

\* A call whose rule rewrote the plan and noted it.
LEMMA DeliveredByRule ==
  ASSUME IInv, status = "optimizing",
         NEW expr, NEW built, expr \in built,
         \A node \in built : Sound(node, heap \cup built),
         SameMeaning(expr, Top.expr),
         NEW name, Rule(name) \in Note,
         Deliver(expr, built, <<Rule(name)>>)
  PROVE  IInv'
<1>0. <<Rule(name)>> \in Seq(Note)
  OBVIOUS
<1>1. PICK written \in Seq(Note) : written = <<Rule(name)>>
  BY <1>0, Zenon
<1>2. Deliver(expr, built, written) /\ expr \in heap \cup built
  BY <1>1
<1>3. 1 \in DOMAIN written /\ written[1].kind = "rule"
  BY <1>1 DEF Rule
<1> QED BY <1>2, <1>3, Delivered

-----------------------------------------------------------------------------
(* What a handler finds when it runs: its argument, and the optimized      *)
(* children that mean what the argument's children mean.                   *)

\* The running call and its argument.
LEMMA TopFrame ==
  ASSUME IInv, status = "optimizing"
  PROVE  /\ Len(stack) \in DOMAIN stack
         /\ Top \in FrameType(heap)
         /\ Top.expr \in heap /\ Sound(Top.expr, heap)
         /\ SplitSound(Top)
<1>1. stack \in Seq(FrameType(heap)) /\ stack # <<>>
  BY DEF IInv, TypeOK
<1>2. Len(stack) \in DOMAIN stack
  BY <1>1
<1>3. Top \in FrameType(heap) /\ SplitSound(Top)
  BY <1>2, FramesTyped DEF Top, IInv
<1>4. Top.expr \in heap
  BY <1>3, FrameTypeRecord
<1> QED BY <1>2, <1>3, <1>4, HeapIsSound DEF NodesSound

\* What a call has already had optimized means what it replaces.
LEMMA DonePart ==
  ASSUME IInv, status = "optimizing", NEW slot \in DOMAIN Top.done
  PROVE  /\ Top.done[slot] \in heap /\ Sound(Top.done[slot], heap)
         /\ SameMeaning(Top.done[slot], Children(Top.expr)[slot])
         /\ NoRuleNoted => Top.done[slot] = Children(Top.expr)[slot]
<1>1. Top.done \in DoneType(heap)
  BY TopFrame, FrameTypeRecord
<1>2. Top.done[slot] \in heap
  BY <1>1 DEF DoneType
<1>3. /\ SameMeaning(Top.done[slot], Children(Top.expr)[slot])
      /\ NoRuleNoted => Top.done[slot] = Children(Top.expr)[slot]
  BY TopFrame DEF IInv, PartsPreserved, Top
<1> QED BY <1>2, <1>3, HeapIsSound DEF NodesSound

\* A handler of a node with one child, and that child optimized.
LEMMA OptimizedChild ==
  ASSUME IInv, NEW kind \in {"Select", "Project", "Rename"}, Ready(kind)
  PROVE  /\ status = "optimizing" /\ Top.expr.kind = kind /\ 1 \in DOMAIN Top.done
         /\ Top.done[1] \in heap /\ Sound(Top.done[1], heap)
         /\ SameMeaning(Top.done[1], Top.expr.child)
         /\ NoRuleNoted => Top.done[1] = Top.expr.child
<1>1. status = "optimizing" /\ Top.expr.kind = kind /\ DOMAIN Top.done = Slots(Top.expr)
  BY DEF Ready
<1>2. Sound(Top.expr, heap)
  BY <1>1, TopFrame
<1>3. Children(Top.expr) = <<Top.expr.child>>
  BY <1>1, <1>2, SelectFields, ProjectFields, RenameFields DEF Sound
<1>4. 1 \in DOMAIN Top.done /\ Children(Top.expr)[1] = Top.expr.child
  BY <1>1, <1>3 DEF Slots
<1> QED BY <1>1, <1>4, DonePart

\* A handler of a join, both sides optimized.
LEMMA OptimizedSides ==
  ASSUME IInv, Ready("Join")
  PROVE  /\ status = "optimizing" /\ Top.expr.kind = "Join" /\ DOMAIN Top.done = {1, 2}
         /\ Top.done[1] \in heap /\ Sound(Top.done[1], heap)
         /\ Top.done[2] \in heap /\ Sound(Top.done[2], heap)
         /\ SameMeaning(Top.done[1], Top.expr.left)
         /\ SameMeaning(Top.done[2], Top.expr.right)
         /\ NoRuleNoted => Top.done[1] = Top.expr.left /\ Top.done[2] = Top.expr.right
<1>1. status = "optimizing" /\ Top.expr.kind = "Join" /\ DOMAIN Top.done = Slots(Top.expr)
  BY DEF Ready
<1>2. Sound(Top.expr, heap)
  BY <1>1, TopFrame
<1>3. Children(Top.expr) = <<Top.expr.left, Top.expr.right>>
  BY <1>1, <1>2, JoinFields DEF Sound
<1>4. /\ DOMAIN Top.done = {1, 2}
      /\ Children(Top.expr)[1] = Top.expr.left /\ Children(Top.expr)[2] = Top.expr.right
  BY <1>1, <1>3 DEF Slots
<1> QED BY <1>1, <1>4, DonePart

-----------------------------------------------------------------------------
(* Every handler preserves the invariant.                                  *)

\* FinishTable keeps the invariant.
LEMMA TableStep == ASSUME IInv, FinishTable PROVE IInv'
<1> DEFINE table == TableExpr(Top.expr.name, Top.expr.schema)
<1>1. Ready("Table") /\ Deliver(table, {table}, <<>>)
  BY DEF FinishTable
<1>2. status = "optimizing" /\ Top.expr.kind = "Table" /\ Sound(Top.expr, heap)
  BY <1>1, TopFrame DEF Ready
<1>3. Top.expr = table /\ Top.expr.name \in TableName /\ Top.expr.schema \in Seq(Column)
  BY <1>2, TableFields DEF Sound, NodeOK
<1>4. Sound(table, heap \cup {table}) /\ SameMeaning(table, Top.expr)
  BY <1>3, TableSound DEF SameMeaning
<1> HIDE DEF table
<1> QED BY <1>1, <1>2, <1>3, <1>4, DeliveredCopy

\* FinishRename keeps the invariant.
LEMMA RenameStep == ASSUME IInv, FinishRename PROVE IInv'
<1> DEFINE rename == RenameExpr(Top.expr.alias, Top.done[1])
<1>1. Ready("Rename") /\ Deliver(rename, {rename}, <<>>)
  BY DEF FinishRename
<1>2. status = "optimizing" /\ Top.expr.kind = "Rename" /\ Sound(Top.expr, heap)
  BY <1>1, TopFrame DEF Ready
<1>3. Top.expr.alias \in Alias /\ Top.expr = RenameExpr(Top.expr.alias, Top.expr.child)
  BY <1>2, RenameFields DEF Sound
<1>4. /\ Top.done[1] \in heap /\ Sound(Top.done[1], heap)
      /\ SameMeaning(Top.done[1], Top.expr.child)
      /\ NoRuleNoted => Top.done[1] = Top.expr.child
  BY <1>1, OptimizedChild
<1>5. Sound(rename, heap \cup {rename})
  BY <1>3, <1>4, RenameSound, SoundAmongMore
<1>6. SameMeaning(rename, Top.expr) /\ (NoRuleNoted => rename = Top.expr)
  BY <1>3, <1>4, SameRename
<1> HIDE DEF rename
<1> QED BY <1>1, <1>2, <1>5, <1>6, DeliveredCopy

\* FinishJoin keeps the invariant.
LEMMA JoinStep == ASSUME IInv, FinishJoin PROVE IInv'
<1> DEFINE join == JoinExpr(Top.done[1], Top.done[2],
                            Top.expr.leftColumn, Top.expr.rightColumn)
<1>1. Ready("Join") /\ Deliver(join, {join}, <<>>)
  BY DEF FinishJoin
<1>2. status = "optimizing" /\ Top.expr.kind = "Join" /\ Sound(Top.expr, heap)
  BY <1>1, TopFrame DEF Ready
<1>3. /\ Top.expr.leftColumn \in Column /\ Top.expr.rightColumn \in Column
      /\ Top.expr = JoinExpr(Top.expr.left, Top.expr.right,
                             Top.expr.leftColumn, Top.expr.rightColumn)
  BY <1>2, JoinFields DEF Sound
<1>4. /\ Top.done[1] \in heap /\ Sound(Top.done[1], heap)
      /\ Top.done[2] \in heap /\ Sound(Top.done[2], heap)
      /\ SameMeaning(Top.done[1], Top.expr.left)
      /\ SameMeaning(Top.done[2], Top.expr.right)
      /\ NoRuleNoted => Top.done[1] = Top.expr.left /\ Top.done[2] = Top.expr.right
  BY <1>1, OptimizedSides
<1>5. Sound(join, heap \cup {join})
  BY <1>3, <1>4, JoinSound, SoundAmongMore
<1>6. SameMeaning(join, Top.expr) /\ (NoRuleNoted => join = Top.expr)
  BY <1>3, <1>4, SameJoin
<1> HIDE DEF join
<1> QED BY <1>1, <1>2, <1>5, <1>6, DeliveredCopy

\* What optimizeSelect starts from.
LEMMA SelectStart ==
  ASSUME IInv, Ready("Select")
  PROVE  /\ status = "optimizing" /\ Top.expr.condition \in Condition
         /\ Top.expr = SelectExpr(Top.expr.condition, Top.expr.child)
         /\ Top.done[1] \in heap /\ Sound(Top.done[1], heap)
         /\ SameMeaning(SelectExpr(Top.expr.condition, Top.done[1]), Top.expr)
         /\ NoRuleNoted => SelectExpr(Top.expr.condition, Top.done[1]) = Top.expr
<1>1. status = "optimizing" /\ Top.expr.kind = "Select" /\ Sound(Top.expr, heap)
  BY TopFrame DEF Ready
<1>2. /\ Top.expr.condition \in Condition
      /\ Top.expr = SelectExpr(Top.expr.condition, Top.expr.child)
  BY <1>1, SelectFields DEF Sound
<1>3. /\ Top.done[1] \in heap /\ Sound(Top.done[1], heap)
      /\ SameMeaning(Top.done[1], Top.expr.child)
      /\ NoRuleNoted => Top.done[1] = Top.expr.child
  BY OptimizedChild
<1>4. SameMeaning(SelectExpr(Top.expr.condition, Top.done[1]), Top.expr)
  BY <1>2, <1>3, SameSelect
<1> QED BY <1>1, <1>2, <1>3, <1>4

\* KeepSelect keeps the invariant.
LEMMA KeepSelectStep == ASSUME IInv, KeepSelect PROVE IInv'
<1> DEFINE kept == SelectExpr(Top.expr.condition, Top.done[1])
<1>1. /\ Ready("Select")
      /\ \/ Deliver(kept, {kept}, <<Warning("raw")>>)
         \/ Deliver(kept, {kept}, <<>>)
  BY DEF KeepSelect
<1>2. /\ status = "optimizing" /\ Top.expr.condition \in Condition
      /\ Top.done[1] \in heap /\ Sound(Top.done[1], heap)
      /\ SameMeaning(kept, Top.expr) /\ (NoRuleNoted => kept = Top.expr)
  BY <1>1, SelectStart
<1>3. Sound(kept, heap \cup {kept})
  BY <1>2, SelectSound, SoundAmongMore
<1>4. Warning("raw") \in Note
  BY DEF Note, Warning
<1> HIDE DEF kept
<1> QED BY <1>1, <1>2, <1>3, <1>4, DeliveredCopy, DeliveredWithWarning

(* A condition on one side reads columns of that side only.                *)
LEMMA SideOfCondition ==
  ASSUME NEW condition, NEW left \in Seq(Column), NEW right \in Seq(Column),
         NEW side \in {"Left", "Right"}, ConditionSide(condition, left, right) = side
  PROVE  /\ ~condition.raw
         /\ LocateColumn(condition.leftColumn, left, right) = side
         /\ condition.rightKind = "Column"
              => LocateColumn(condition.rightColumn, left, right) = side
<1> DEFINE l == LocateColumn(condition.leftColumn, left, right)
           r == IF condition.rightKind = "Column"
                THEN LocateColumn(condition.rightColumn, left, right)
                ELSE l
<1>1. ConditionSide(condition, left, right)
        = CASE condition.raw \/ ~({l, r} \subseteq {"Left", "Right"}) -> "Unknown"
            [] ~condition.raw /\ {l, r} = {"Left", "Right"} -> "Both"
            [] OTHER -> l
  BY DEF ConditionSide
<1> HIDE DEF l, r
<1>2. ~condition.raw /\ {l, r} \subseteq {"Left", "Right"} /\ {l, r} # {"Left", "Right"}
  BY <1>1
<1>3. l = side
  BY <1>1, <1>2
<1>4. r = l
  BY <1>2, <1>3
<1> QED BY <1>2, <1>3, <1>4 DEF l, r

\* The child of optimizeSelect when it is a join, and its sides.
LEMMA SidesOf ==
  ASSUME IInv, NEW join \in heap, join.kind = "Join"
  PROVE  /\ Sound(join, heap)
         /\ join.left \in heap /\ Sound(join.left, heap) /\ join.left.schema \in Seq(Column)
         /\ join.right \in heap /\ Sound(join.right, heap) /\ join.right.schema \in Seq(Column)
         /\ join.leftColumn \in Column /\ join.rightColumn \in Column
<1>1. Sound(join, heap)
  BY HeapIsSound DEF NodesSound
<1>2. /\ join.left \in heap /\ join.right \in heap
      /\ join.leftColumn \in Column /\ join.rightColumn \in Column
  BY <1>1, JoinFields DEF Sound
<1>3. Sound(join.left, heap) /\ Sound(join.right, heap)
  BY <1>2, HeapIsSound DEF NodesSound
<1> QED BY <1>1, <1>2, <1>3 DEF Sound, NodeOK

\* PushSelectBelowProject keeps the invariant.
LEMMA PushBelowProjectStep == ASSUME IInv, PushSelectBelowProject PROVE IInv'
<1> DEFINE condition == Top.expr.condition
           project == Top.done[1]
           pushed == SelectExpr(condition, project.child)
           moved == ProjectExpr(project.columns, pushed)
<1>1. /\ Ready("Select")
      /\ PushesBelowProject(condition, project)
      /\ Deliver(moved, {pushed, moved}, <<Rule("SelectProject")>>)
  BY DEF PushSelectBelowProject
<1>2. /\ status = "optimizing" /\ condition \in Condition
      /\ project \in heap /\ Sound(project, heap)
      /\ SameMeaning(SelectExpr(condition, project), Top.expr)
  BY <1>1, SelectStart
<1>3. /\ project.kind = "Project" /\ ~condition.raw
      /\ SequenceContains(project.columns, condition.leftColumn)
      /\ condition.rightKind = "Column"
           => SequenceContains(project.columns, condition.rightColumn)
  BY <1>1 DEF PushesBelowProject, ConditionUsesOnlyProjectedColumns
<1>4. /\ project.child \in heap /\ project.columns \in Seq(Column)
      /\ AllColumnsIncluded(project.columns, project.child.schema)
  BY <1>2, <1>3, ProjectFields DEF Sound
<1>5. Sound(project.child, heap)
  BY <1>4, HeapIsSound DEF NodesSound
<1>6. SameMeaning(moved, SelectExpr(condition, project))
  BY <1>2, <1>3, <1>5, SelectBelowProject
<1>7. pushed.schema = project.child.schema
  BY DEF SelectExpr
<1> DEFINE nodes == heap \cup {pushed, moved}
<1> HIDE DEF pushed, moved, project, condition
<1>8. Sound(project.child, nodes) /\ project.child \in nodes
  BY <1>4, <1>5, SoundAmongMore
<1>9. Sound(pushed, nodes) /\ pushed \in nodes
  BY <1>2, <1>8, SelectSound DEF pushed
<1>10. Sound(moved, nodes)
  BY <1>4, <1>7, <1>9, ProjectSound DEF moved
<1>11. SameMeaning(moved, Top.expr)
  BY <1>2, <1>6, SameMeaningTransitive
<1>12. Rule("SelectProject") \in Note
  BY DEF Note, Rule
<1>13. moved \in {pushed, moved} /\ \A node \in {pushed, moved} : Sound(node, nodes)
  BY <1>9, <1>10
<1> QED BY <1>1, <1>2, <1>11, <1>12, <1>13, DeliveredByRule

\* PushSelectLeft keeps the invariant.
LEMMA PushLeftStep == ASSUME IInv, PushSelectLeft PROVE IInv'
<1> DEFINE condition == Top.expr.condition
           join == Top.done[1]
           pushed == SelectExpr(condition, join.left)
           moved == JoinExpr(pushed, join.right, join.leftColumn, join.rightColumn)
<1>1. /\ Ready("Select")
      /\ PushesInto("Left", condition, join)
      /\ Deliver(moved, {pushed, moved}, <<Rule("SelectJoinLeft")>>)
  BY DEF PushSelectLeft
<1>2. /\ status = "optimizing" /\ condition \in Condition
      /\ join \in heap /\ Sound(join, heap)
      /\ SameMeaning(SelectExpr(condition, join), Top.expr)
  BY <1>1, SelectStart
<1>3. /\ join.kind = "Join"
      /\ ConditionSide(condition, join.left.schema, join.right.schema) = "Left"
  BY <1>1 DEF PushesInto
<1> DEFINE nodes == heap \cup {pushed, moved}
<1> HIDE DEF pushed, moved, join, condition
<1>4. /\ join.left \in heap /\ Sound(join.left, heap) /\ join.left.schema \in Seq(Column)
      /\ join.right \in heap /\ Sound(join.right, heap) /\ join.right.schema \in Seq(Column)
      /\ join.leftColumn \in Column /\ join.rightColumn \in Column
  BY <1>2, <1>3, SidesOf
<1>5. /\ ~condition.raw
      /\ LocateColumn(condition.leftColumn, join.left.schema, join.right.schema) = "Left"
      /\ condition.rightKind = "Column" =>
           LocateColumn(condition.rightColumn, join.left.schema, join.right.schema) = "Left"
  BY <1>3, <1>4, SideOfCondition
<1>6. /\ SequenceContains(join.left.schema, condition.leftColumn)
      /\ condition.rightKind = "Column"
           => SequenceContains(join.left.schema, condition.rightColumn)
  BY <1>4, <1>5, LocatedColumn
<1>7. SameMeaning(moved, SelectExpr(condition, join))
  BY <1>2, <1>3, <1>4, <1>5, <1>6, SelectIntoLeft DEF moved, pushed
<1>8. Sound(join.left, nodes) /\ Sound(join.right, nodes) /\ join.left \in nodes /\ join.right \in nodes
  BY <1>4, SoundAmongMore
<1>9. Sound(pushed, nodes) /\ pushed \in nodes
  BY <1>2, <1>8, SelectSound DEF pushed
<1>10. Sound(moved, nodes)
  BY <1>4, <1>8, <1>9, JoinSound DEF moved
<1>11. SameMeaning(moved, Top.expr)
  BY <1>2, <1>7, SameMeaningTransitive
<1>12. Rule("SelectJoinLeft") \in Note
  BY DEF Note, Rule
<1>13. moved \in {pushed, moved} /\ \A node \in {pushed, moved} : Sound(node, nodes)
  BY <1>9, <1>10
<1> QED BY <1>1, <1>2, <1>11, <1>12, <1>13, DeliveredByRule

\* PushSelectRight keeps the invariant.
LEMMA PushRightStep == ASSUME IInv, PushSelectRight PROVE IInv'
<1> DEFINE condition == Top.expr.condition
           join == Top.done[1]
           pushed == SelectExpr(condition, join.right)
           moved == JoinExpr(join.left, pushed, join.leftColumn, join.rightColumn)
<1>1. /\ Ready("Select")
      /\ PushesInto("Right", condition, join)
      /\ Deliver(moved, {pushed, moved}, <<Rule("SelectJoinRight")>>)
  BY DEF PushSelectRight
<1>2. /\ status = "optimizing" /\ condition \in Condition
      /\ join \in heap /\ Sound(join, heap)
      /\ SameMeaning(SelectExpr(condition, join), Top.expr)
  BY <1>1, SelectStart
<1>3. /\ join.kind = "Join"
      /\ ConditionSide(condition, join.left.schema, join.right.schema) = "Right"
  BY <1>1 DEF PushesInto
<1> DEFINE nodes == heap \cup {pushed, moved}
<1> HIDE DEF pushed, moved, join, condition
<1>4. /\ join.left \in heap /\ Sound(join.left, heap) /\ join.left.schema \in Seq(Column)
      /\ join.right \in heap /\ Sound(join.right, heap) /\ join.right.schema \in Seq(Column)
      /\ join.leftColumn \in Column /\ join.rightColumn \in Column
  BY <1>2, <1>3, SidesOf
<1>5. /\ ~condition.raw
      /\ LocateColumn(condition.leftColumn, join.left.schema, join.right.schema) = "Right"
      /\ condition.rightKind = "Column" =>
           LocateColumn(condition.rightColumn, join.left.schema, join.right.schema) = "Right"
  BY <1>3, <1>4, SideOfCondition
<1>6. /\ ~SequenceContains(join.left.schema, condition.leftColumn)
      /\ SequenceContains(join.right.schema, condition.leftColumn)
      /\ condition.rightKind = "Column"
           => /\ ~SequenceContains(join.left.schema, condition.rightColumn)
              /\ SequenceContains(join.right.schema, condition.rightColumn)
  BY <1>4, <1>5, LocatedColumn
<1>7. SameMeaning(moved, SelectExpr(condition, join))
  BY <1>2, <1>3, <1>4, <1>5, <1>6, SelectIntoRight DEF moved, pushed
<1>8. Sound(join.left, nodes) /\ Sound(join.right, nodes) /\ join.left \in nodes /\ join.right \in nodes
  BY <1>4, SoundAmongMore
<1>9. Sound(pushed, nodes) /\ pushed \in nodes
  BY <1>2, <1>8, SelectSound DEF pushed
<1>10. Sound(moved, nodes)
  BY <1>4, <1>8, <1>9, JoinSound DEF moved
<1>11. SameMeaning(moved, Top.expr)
  BY <1>2, <1>7, SameMeaningTransitive
<1>12. Rule("SelectJoinRight") \in Note
  BY DEF Note, Rule
<1>13. moved \in {pushed, moved} /\ \A node \in {pushed, moved} : Sound(node, nodes)
  BY <1>9, <1>10
<1> QED BY <1>1, <1>2, <1>11, <1>12, <1>13, DeliveredByRule

\* What optimizeProject starts from.  Copying the projection onto the optimized
\* child is allowed: the child's schema is the old one.
LEMMA ProjectStart ==
  ASSUME IInv, Ready("Project")
  PROVE  /\ status = "optimizing" /\ Top.expr.columns \in Seq(Column)
         /\ 1 \in DOMAIN Top.done
         /\ Top.done[1] \in heap /\ Sound(Top.done[1], heap)
         /\ AllColumnsIncluded(Top.expr.columns, Top.done[1].schema)
         /\ SameMeaning(KeptProject, Top.expr)
         /\ NoRuleNoted => KeptProject = Top.expr
         /\ Sound(KeptProject, heap \cup {KeptProject})
<1>1. status = "optimizing" /\ Top.expr.kind = "Project" /\ Sound(Top.expr, heap)
  BY TopFrame DEF Ready
<1>2. /\ Top.expr.columns \in Seq(Column)
      /\ AllColumnsIncluded(Top.expr.columns, Top.expr.child.schema)
      /\ Top.expr = ProjectExpr(Top.expr.columns, Top.expr.child)
  BY <1>1, ProjectFields DEF Sound
<1>3. /\ 1 \in DOMAIN Top.done
      /\ Top.done[1] \in heap /\ Sound(Top.done[1], heap)
      /\ SameMeaning(Top.done[1], Top.expr.child)
      /\ NoRuleNoted => Top.done[1] = Top.expr.child
  BY OptimizedChild
<1>4. SameMeaning(KeptProject, Top.expr)
  BY <1>2, <1>3, SameProject DEF KeptProject
<1>5. AllColumnsIncluded(Top.expr.columns, Top.done[1].schema)
  BY <1>2, <1>3 DEF SameMeaning
<1>6. Sound(KeptProject, heap \cup {KeptProject})
  BY <1>2, <1>3, <1>5, ProjectSound, SoundAmongMore DEF KeptProject
<1>7. NoRuleNoted => KeptProject = Top.expr
  BY <1>2, <1>3 DEF KeptProject
<1> QED BY <1>1, <1>2, <1>3, <1>4, <1>5, <1>6, <1>7

\* KeepProject keeps the invariant.
LEMMA KeepProjectStep == ASSUME IInv, KeepProject PROVE IInv'
<1>1. Ready("Project") /\ Deliver(KeptProject, {KeptProject}, <<>>)
  BY DEF KeepProject
<1> QED BY <1>1, ProjectStart, DeliveredCopy

\* GiveUpPruning keeps the invariant.
LEMMA GiveUpPruningStep == ASSUME IInv, GiveUpPruning PROVE IInv'
<1>1. Ready("Project")
  BY DEF GiveUpPruning, Splitting
<1>2. PICK reason \in SplitFailure : Deliver(KeptProject, {KeptProject}, <<Warning(reason)>>)
  BY DEF GiveUpPruning
<1>3. reason \in {"ambiguous column", "ambiguous left key", "ambiguous right key"}
  BY <1>2 DEF SplitFailure
<1>4. Warning(reason) \in Note
  BY <1>3 DEF Warning, Note
<1> QED BY <1>1, <1>2, <1>4, ProjectStart, DeliveredWithWarning

\* CollapseProjects keeps the invariant.
LEMMA CollapseStep == ASSUME IInv, CollapseProjects PROVE IInv'
<1> DEFINE columns == Top.expr.columns
           project == Top.done[1]
           collapsed == ProjectExpr(columns, project.child)
<1>1. /\ Ready("Project") /\ project.kind = "Project"
      /\ Deliver(collapsed, {collapsed}, <<Rule("ProjectProject")>>)
  BY DEF CollapseProjects
<1>2. /\ status = "optimizing" /\ columns \in Seq(Column)
      /\ project \in heap /\ Sound(project, heap)
      /\ AllColumnsIncluded(columns, project.schema)
      /\ SameMeaning(ProjectExpr(columns, project), Top.expr)
  BY <1>1, ProjectStart DEF KeptProject
<1>3. project.child \in heap
  BY <1>1, <1>2, ProjectFields DEF Sound
<1>4. Sound(project.child, heap)
  BY <1>3, HeapIsSound DEF NodesSound
<1> HIDE DEF columns, project
<1>5. /\ AllColumnsIncluded(columns, project.child.schema)
      /\ SameMeaning(collapsed, ProjectExpr(columns, project))
  BY <1>1, <1>2, <1>4, ProjectOfProject
<1>6. Sound(collapsed, heap \cup {collapsed})
  BY <1>2, <1>3, <1>4, <1>5, ProjectSound, SoundAmongMore
<1> HIDE DEF collapsed
<1>7. SameMeaning(collapsed, Top.expr)
  BY <1>2, <1>5, SameMeaningTransitive
<1>8. Rule("ProjectProject") \in Note
  BY DEF Note, Rule
<1>9. collapsed \in {collapsed} /\ \A node \in {collapsed} : Sound(node, heap \cup {collapsed})
  BY <1>6
<1> QED BY <1>1, <1>2, <1>7, <1>8, <1>9, DeliveredByRule

\* A recursive call on a child keeps the invariant.
LEMMA DescendStep == ASSUME IInv, Descend PROVE IInv'
<1> DEFINE n == Len(stack)
<1>1. PICK slot \in Slots(Top.expr) \ DOMAIN Top.done :
        stack' = Append(stack, Frame(Children(Top.expr)[slot], slot))
  BY DEF Descend
<1>2. /\ status = "optimizing"
      /\ UNCHANGED <<heap, workspace, status, root, result, notes, lastNotes>>
  BY DEF Descend
<1>3. stack \in Seq(FrameType(heap)) /\ n \in Nat \ {0} /\ DOMAIN stack = 1..n
  BY <1>2 DEF IInv, TypeOK
<1> DEFINE child == Children(Top.expr)[slot]
           frame == Frame(child, slot)
<1>4. child \in heap /\ slot \in 0..2
  <2>1. Sound(Top.expr, heap)
    BY <1>2, TopFrame
  <2>2. slot \in {1, 2}
    BY <2>1, SlotsOfNode DEF Sound
  <2>3. slot \in DOMAIN Children(Top.expr)
    BY DEF Slots
  <2>4. child \in heap
    BY <2>1, <2>3 DEF Sound, NodeOK
  <2> QED BY <2>2, <2>4
<1>5. /\ frame \in FrameType(heap) /\ frame.expr = child /\ frame.slot = slot
      /\ DOMAIN frame.done = {} /\ SplitSound(frame)
  BY <1>4, FreshFrame
<1>6. stack' = Append(stack, frame)
  BY <1>1
<1> HIDE DEF frame, child
<1>7. /\ stack' \in Seq(FrameType(heap)) /\ Len(stack') = n + 1 /\ DOMAIN stack' = 1..(n+1)
      /\ stack'[n+1] = frame
      /\ \A i \in 1..n : stack'[i] = stack[i]
  BY <1>3, <1>5, <1>6
<1>8. \A i \in 1..(n+1) : DOMAIN stack'[i].done \subseteq Slots(stack'[i].expr)
  <2>1. \A i \in 1..n : DOMAIN stack'[i].done \subseteq Slots(stack'[i].expr)
    BY <1>3, <1>7, FramesTyped
  <2>2. DOMAIN stack'[n+1].done \subseteq Slots(stack'[n+1].expr)
    BY <1>5, <1>7
  <2> QED BY <1>3, <2>1, <2>2
<1>9. stack' # <<>> /\ stack # <<>>
  BY <1>3, <1>7
<1>10. TypeOK'
  BY <1>2, <1>7, <1>8, <1>9 DEF IInv, TypeOK, Slots
<1>11. AnswersFit' /\ NeverThrows'
  BY <1>2 DEF IInv, AnswersFit, NeverThrows
<1>12. (\A i \in DOMAIN stack : SplitSound(stack[i]))'
  <2>1. \A i \in 1..n : SplitSound(stack'[i])
    BY <1>3, <1>7 DEF IInv
  <2> QED BY <1>3, <1>5, <1>7, <2>1
<1>13. CallsLinked'
  <2>1. stack'[1].expr = root'[1]
    BY <1>2, <1>3, <1>7, <1>9 DEF IInv, CallsLinked
  <2>2. ASSUME NEW i \in 2..(n+1)
        PROVE  /\ stack'[i].slot \in Slots(stack'[i-1].expr) \ DOMAIN stack'[i-1].done
               /\ stack'[i].expr = Children(stack'[i-1].expr)[stack'[i].slot]
    <3>1. CASE i \in 2..n
      BY <1>3, <1>7, <3>1 DEF IInv, CallsLinked
    <3>2. CASE i = n+1
      <4>1. stack'[i-1] = Top /\ stack'[i] = frame
        BY <1>3, <1>7, <3>2 DEF Top
      <4> QED BY <1>1, <1>5, <4>1 DEF child
    <3> QED BY <1>3, <3>1, <3>2
  <2> QED BY <1>7, <2>1, <2>2 DEF CallsLinked, Slots
<1>14. PartsPreserved'
  <2>1. ASSUME NEW i \in 1..(n+1), NEW s \in DOMAIN stack'[i].done
        PROVE  /\ SameMeaning(stack'[i].done[s], Children(stack'[i].expr)[s])
               /\ NoRuleNoted' => stack'[i].done[s] = Children(stack'[i].expr)[s]
    <3>1. i \in 1..n /\ stack'[i] = stack[i]
      BY <1>3, <1>5, <1>7, <2>1
    <3> QED BY <1>2, <1>3, <3>1 DEF IInv, PartsPreserved, NoRuleNoted
  <2> QED BY <1>2, <1>7, <2>1 DEF PartsPreserved
<1> QED BY <1>10, <1>11, <1>12, <1>13, <1>14 DEF IInv

(* The lists of splitProjectColumnsForJoin.                                *)
Columns(list) == {list[k] : k \in DOMAIN list}

\* The set of a list's columns, by sequenceContains.
LEMMA ColumnsContained ==
  ASSUME NEW list, NEW column
  PROVE  column \in Columns(list) <=> SequenceContains(list, column)
BY ContainsIsPosition DEF Columns

\* appendUnique adds one column to the set of a list's columns.
LEMMA ColumnsAppended ==
  ASSUME NEW list \in Seq(Column), NEW value \in Column
  PROVE  /\ AppendUnique(list, value) \in Seq(Column)
         /\ Columns(AppendUnique(list, value)) = Columns(list) \cup {value}
BY AppendUniqueColumns, ColumnsContained

\* One more column of a side keeps a list on that side.
LEMMA AllOnSideAppended ==
  ASSUME NEW list \in Seq(Column), NEW value \in Column, NEW join, NEW side,
         AllOnSide(list, join, side),
         LocateColumn(value, join.left.schema, join.right.schema) = side
  PROVE  AllOnSide(AppendUnique(list, value), join, side)
<1>1. \A column \in Columns(list) \cup {value} :
        LocateColumn(column, join.left.schema, join.right.schema) = side
  BY DEF AllOnSide, Columns
<1>2. Columns(AppendUnique(list, value)) = Columns(list) \cup {value}
  BY ColumnsAppended
<1> QED BY <1>1, <1>2 DEF AllOnSide, Columns

\* One turn of the loop of splitProjectColumnsForJoin keeps the invariant.
LEMMA SplitColumnStep == ASSUME IInv, SplitColumn PROVE IInv'
<1> DEFINE n == Len(stack)
           column == NextColumn
           join == Top.done[1]
           old == Top.split
           split == [scanned |-> old.scanned + 1,
                     left  |-> IF Located(column) = "Left"
                               THEN AppendUnique(old.left, column) ELSE old.left,
                     right |-> IF Located(column) = "Right"
                               THEN AppendUnique(old.right, column) ELSE old.right]
           frame == [Top EXCEPT !.split = split]
<1>1. /\ Ready("Project") /\ join.kind = "Join"
      /\ ~Scanned /\ Located(column) \in {"Left", "Right"}
      /\ stack' = [stack EXCEPT ![n].split = split]
      /\ UNCHANGED <<heap, workspace, status, root, result, notes, lastNotes>>
  BY DEF SplitColumn, Splitting
<1>2. /\ status = "optimizing" /\ Top.expr.columns \in Seq(Column)
      /\ 1 \in DOMAIN Top.done /\ Top.expr.kind = "Project"
  BY <1>1, ProjectStart DEF Ready
<1>3. /\ n \in DOMAIN stack /\ Top \in FrameType(heap) /\ SplitSound(Top)
  BY <1>2, TopFrame
<1>4. /\ stack \in Seq(FrameType(heap)) /\ n \in Nat \ {0} /\ DOMAIN stack = 1..n
  BY <1>3 DEF IInv, TypeOK
<1>5. /\ old.scanned \in Nat /\ old.left \in Seq(Column) /\ old.right \in Seq(Column)
  BY <1>3, FrameTypeRecord
<1>6. old.scanned + 1 \in 1..Len(Top.expr.columns)
  BY <1>1, <1>2, <1>3, <1>5 DEF Scanned, SplitSound
<1>7. column = Top.expr.columns[old.scanned + 1] /\ column \in Column
  BY <1>2, <1>6 DEF NextColumn
<1>8. AllOnSide(old.left, join, "Left") /\ AllOnSide(old.right, join, "Right")
  BY <1>3, <1>5 DEF SplitSound, NoSplit, AllOnSide
<1> HIDE DEF column, join, old
<1>9. /\ split.scanned = old.scanned + 1
      /\ split.left \in Seq(Column) /\ split.right \in Seq(Column)
      /\ AllOnSide(split.left, join, "Left") /\ AllOnSide(split.right, join, "Right")
      /\ SequenceContains(split.left, column) \/ SequenceContains(split.right, column)
      /\ \A c : SequenceContains(old.left, c) => SequenceContains(split.left, c)
      /\ \A c : SequenceContains(old.right, c) => SequenceContains(split.right, c)
  <2>1. CASE Located(column) = "Left"
    <3>1. /\ split.scanned = old.scanned + 1 /\ split.left = AppendUnique(old.left, column)
          /\ split.right = old.right
      BY <2>1
    <3>2. LocateColumn(column, join.left.schema, join.right.schema) = "Left"
      BY <2>1 DEF Located, join
    <3>3. AllOnSide(AppendUnique(old.left, column), join, "Left")
      BY <1>5, <1>7, <1>8, <3>2, AllOnSideAppended
    <3>4. /\ AppendUnique(old.left, column) \in Seq(Column)
          /\ \A c : SequenceContains(AppendUnique(old.left, column), c)
                   <=> SequenceContains(old.left, c) \/ c = column
      BY <1>5, <1>7, AppendUniqueColumns
    <3> HIDE DEF split
    <3> QED BY <1>5, <1>8, <3>1, <3>3, <3>4
  <2>2. CASE Located(column) = "Right"
    <3>1. /\ split.scanned = old.scanned + 1 /\ split.left = old.left
          /\ split.right = AppendUnique(old.right, column)
      BY <2>2
    <3>2. LocateColumn(column, join.left.schema, join.right.schema) = "Right"
      BY <2>2 DEF Located, join
    <3>3. AllOnSide(AppendUnique(old.right, column), join, "Right")
      BY <1>5, <1>7, <1>8, <3>2, AllOnSideAppended
    <3>4. /\ AppendUnique(old.right, column) \in Seq(Column)
          /\ \A c : SequenceContains(AppendUnique(old.right, column), c)
                   <=> SequenceContains(old.right, c) \/ c = column
      BY <1>5, <1>7, AppendUniqueColumns
    <3> HIDE DEF split
    <3> QED BY <1>5, <1>8, <3>1, <3>3, <3>4
  <2> QED BY <1>1, <2>1, <2>2
<1>10. split \in [scanned : Nat, left : Seq(Column), right : Seq(Column)]
  BY <1>5, <1>9
<1> HIDE DEF split
<1>11. /\ frame \in FrameType(heap) /\ frame.expr = Top.expr /\ frame.slot = Top.slot
       /\ frame.done = Top.done /\ frame.split = split
  BY <1>3, <1>10, FrameTypeRecord
<1>12. stack' = [stack EXCEPT ![n] = frame]
  BY <1>1, <1>3, <1>4 DEF Top
<1> HIDE DEF frame
<1>13. /\ stack' \in Seq(FrameType(heap)) /\ Len(stack') = n /\ DOMAIN stack' = 1..n
       /\ stack'[n] = frame
       /\ \A i \in 1..(n-1) : stack'[i] = stack[i]
  <2> DEFINE F == FrameType(heap)
             s == stack
             t == stack'
  <2>1. s \in Seq(F) /\ s # <<>> /\ n = Len(s) /\ frame \in F
    BY <1>4, <1>11
  <2>2. t = [s EXCEPT ![Len(s)] = frame]
    BY <1>12, <2>1
  <2> HIDE DEF F, s, t
  <2>3. /\ t \in Seq(F) /\ Len(t) = Len(s) /\ DOMAIN t = 1..Len(s) /\ t[Len(s)] = frame
        /\ \A i \in 1..(Len(s) - 1) : t[i] = s[i]
    BY <2>1, <2>2, LastReplaced
  <2> HIDE DEF n
  <2> QED BY <2>1, <2>3 DEF F, s, t
<1>14. \A i \in 1..n : /\ stack'[i].expr = stack[i].expr /\ stack'[i].slot = stack[i].slot
                       /\ stack'[i].done = stack[i].done
  BY <1>4, <1>11, <1>13 DEF Top
<1>15. SplitSound(frame)
  <2>1. frame.expr.kind = "Project" /\ 1 \in DOMAIN frame.done /\ frame.done[1] = join
    BY <1>2, <1>11 DEF join
  <2>2. ASSUME NEW k \in 1..split.scanned
        PROVE  \/ SequenceContains(split.left, frame.expr.columns[k])
               \/ SequenceContains(split.right, frame.expr.columns[k])
    <3>1. CASE k = old.scanned + 1
      BY <1>7, <1>9, <1>11, <3>1
    <3>2. CASE k \in 1..old.scanned
      <4>1. \/ SequenceContains(old.left, Top.expr.columns[k])
            \/ SequenceContains(old.right, Top.expr.columns[k])
        BY <1>3, <1>5, <3>2 DEF SplitSound, old
      <4> QED BY <1>9, <1>11, <4>1
    <3> QED BY <1>5, <1>9, <3>1, <3>2
  <2>3. split.scanned > 0 /\ split.scanned <= Len(frame.expr.columns)
    BY <1>5, <1>6, <1>9, <1>11
  <2> QED BY <1>1, <1>9, <1>11, <2>1, <2>2, <2>3 DEF SplitSound
<1>16. (\A i \in DOMAIN stack : SplitSound(stack[i]))'
  <2>1. \A i \in 1..(n-1) : SplitSound(stack'[i])
    BY <1>4, <1>13 DEF IInv
  <2> QED BY <1>4, <1>13, <1>15, <2>1
<1>17. TypeOK'
  <2>1. \A i \in 1..n : DOMAIN stack'[i].done \subseteq Slots(stack'[i].expr)
    BY <1>4, <1>14, FramesTyped
  <2>2. stack # <<>> /\ stack' # <<>>
    BY <1>4, <1>13
  <2> QED BY <1>1, <1>13, <2>1, <2>2 DEF IInv, TypeOK, Slots
<1>18. AnswersFit' /\ NeverThrows'
  BY <1>1 DEF IInv, AnswersFit, NeverThrows
<1>19. CallsLinked'
  <2>1. stack'[1].expr = root'[1]
    BY <1>1, <1>4, <1>14 DEF IInv, CallsLinked
  <2>2. ASSUME NEW i \in 2..n
        PROVE  /\ stack'[i].slot \in Slots(stack'[i-1].expr) \ DOMAIN stack'[i-1].done
               /\ stack'[i].expr = Children(stack'[i-1].expr)[stack'[i].slot]
    BY <1>4, <1>14 DEF IInv, CallsLinked
  <2> QED BY <1>13, <2>1, <2>2 DEF CallsLinked, Slots
<1>20. PartsPreserved'
  BY <1>1, <1>4, <1>13, <1>14 DEF IInv, PartsPreserved, NoRuleNoted
<1> QED BY <1>16, <1>17, <1>18, <1>19, <1>20 DEF IInv

(* What projectIfNeeded makes of one input of the join.                    *)
LEMMA NarrowedInput ==
  ASSUME NEW expr \in heap, Sound(expr, heap),
         NEW list \in Seq(Column), AllColumnsIncluded(list, expr.schema),
         NEW input, input = ProjectIfNeeded(expr, list),
         NEW nodes, heap \subseteq nodes
  PROVE  /\ Sound(input, nodes)
         /\ input.schema \in Seq(Column)
         /\ AllColumnsIncluded(input.schema, expr.schema)
         /\ Narrowed(input.answer, input.schema, expr.answer, expr.schema, Columns(list))
<1>1. /\ expr.schema \in Seq(Column) /\ Fits(expr.answer, expr.schema)
      /\ Sound(expr, nodes) /\ expr \in nodes
  BY SoundAmongMore DEF Sound, NodeOK
<1>2. \A column \in Columns(list) : SequenceContains(list, column)
  BY ColumnsContained
<1>3. \A column \in Columns(list) : SequenceContains(expr.schema, column)
  BY DEF Columns, AllColumnsIncluded
<1>4. CASE input = expr
  <2>1. AllColumnsIncluded(expr.schema, expr.schema)
    BY ContainsIsPosition DEF AllColumnsIncluded
  <2>2. Narrowed(expr.answer, expr.schema, expr.answer, expr.schema, Columns(list))
    BY <1>1, <1>3, NotNarrowed
  <2> QED BY <1>1, <1>4, <2>1, <2>2
<1>5. CASE input = ProjectExpr(list, expr)
  <2>1. input.schema = list /\ input.answer = ExecuteProject(list, expr.answer)
    BY <1>5 DEF ProjectExpr
  <2>2. Sound(input, nodes)
    BY <1>1, <1>5, ProjectSound
  <2>3. Narrowed(ExecuteProject(list, expr.answer), list, expr.answer, expr.schema, Columns(list))
    BY <1>1, <1>2, NarrowedByProject
  <2> QED BY <2>1, <2>2, <2>3
<1> QED BY <1>4, <1>5 DEF ProjectIfNeeded

\* PruneProject keeps the invariant.
LEMMA PruneProjectStep == ASSUME IInv, PruneProject PROVE IInv'
<1> DEFINE columns == Top.expr.columns
           join == Top.done[1]
           leftList == AppendUnique(Top.split.left, join.leftColumn)
           rightList == AppendUnique(Top.split.right, join.rightColumn)
           left == ProjectIfNeeded(join.left, leftList)
           right == ProjectIfNeeded(join.right, rightList)
           pruned == JoinExpr(left, right, join.leftColumn, join.rightColumn)
           kept == ProjectExpr(columns, pruned)
           built == {left, right, pruned, kept}
           nodes == heap \cup built
<1>1. /\ Ready("Project") /\ join.kind = "Join" /\ Scanned /\ SplitFailure = {}
      /\ Deliver(kept, built, <<Rule("Pruning")>>)
  BY DEF PruneProject, Splitting
<1>2. /\ status = "optimizing" /\ columns \in Seq(Column)
      /\ join \in heap /\ Sound(join, heap)
      /\ SameMeaning(ProjectExpr(columns, join), Top.expr)
  BY <1>1, ProjectStart DEF KeptProject
<1>3. /\ Top \in FrameType(heap) /\ SplitSound(Top)
  BY <1>2, TopFrame
<1>4. /\ Top.split.scanned \in Nat /\ Top.split.left \in Seq(Column)
      /\ Top.split.right \in Seq(Column)
  BY <1>3, FrameTypeRecord
<1>5. /\ LocateColumn(join.leftColumn, join.left.schema, join.right.schema) = "Left"
      /\ LocateColumn(join.rightColumn, join.left.schema, join.right.schema) = "Right"
  BY <1>1 DEF SplitFailure, Located
<1>6. AllOnSide(Top.split.left, join, "Left") /\ AllOnSide(Top.split.right, join, "Right")
  BY <1>3, <1>4 DEF SplitSound, NoSplit, AllOnSide
<1>7. \A k \in DOMAIN columns : \/ SequenceContains(Top.split.left, columns[k])
                                \/ SequenceContains(Top.split.right, columns[k])
  <2>1. Top.split.scanned = Len(columns) /\ DOMAIN columns = 1..Len(columns)
    BY <1>1, <1>2 DEF Scanned
  <2>2. CASE Top.split.scanned = 0
    BY <2>1, <2>2
  <2>3. CASE Top.split.scanned > 0
    BY <1>3, <2>1, <2>3 DEF SplitSound
  <2> QED BY <1>4, <2>2, <2>3
<1>8. /\ join.left \in heap /\ Sound(join.left, heap) /\ join.left.schema \in Seq(Column)
      /\ join.right \in heap /\ Sound(join.right, heap) /\ join.right.schema \in Seq(Column)
      /\ join.leftColumn \in Column /\ join.rightColumn \in Column
  BY <1>1, <1>2, SidesOf
<1> HIDE DEF columns, join
<1>9. /\ leftList \in Seq(Column) /\ rightList \in Seq(Column)
      /\ AllOnSide(leftList, join, "Left") /\ AllOnSide(rightList, join, "Right")
      /\ Columns(leftList) = Columns(Top.split.left) \cup {join.leftColumn}
      /\ Columns(rightList) = Columns(Top.split.right) \cup {join.rightColumn}
  BY <1>4, <1>5, <1>6, <1>8, ColumnsAppended, AllOnSideAppended
<1> HIDE DEF leftList, rightList
<1>10. /\ AllColumnsIncluded(leftList, join.left.schema)
       /\ AllColumnsIncluded(rightList, join.right.schema)
       /\ \A column \in Columns(rightList) : ~SequenceContains(join.left.schema, column)
  <2>1. \A k \in DOMAIN leftList : SequenceContains(join.left.schema, leftList[k])
    BY <1>8, <1>9, LocatedColumn DEF AllOnSide
  <2>2. \A k \in DOMAIN rightList : /\ SequenceContains(join.right.schema, rightList[k])
                                    /\ ~SequenceContains(join.left.schema, rightList[k])
    BY <1>8, <1>9, LocatedColumn DEF AllOnSide
  <2> QED BY <2>1, <2>2 DEF AllColumnsIncluded, Columns
<1>11. heap \subseteq nodes /\ left \in nodes /\ right \in nodes /\ pruned \in nodes
  OBVIOUS
<1> HIDE DEF left, right, nodes
<1>12. /\ Sound(left, nodes) /\ left.schema \in Seq(Column)
       /\ AllColumnsIncluded(left.schema, join.left.schema)
       /\ Narrowed(left.answer, left.schema, join.left.answer, join.left.schema, Columns(leftList))
  BY <1>8, <1>9, <1>10, <1>11, NarrowedInput DEF left
<1>13. /\ Sound(right, nodes) /\ right.schema \in Seq(Column)
       /\ Narrowed(right.answer, right.schema, join.right.answer, join.right.schema,
                   Columns(rightList))
  BY <1>8, <1>9, <1>10, <1>11, NarrowedInput DEF right
<1>14. Absent(Columns(rightList), join.left.schema) /\ Absent(Columns(rightList), left.schema)
  BY <1>8, <1>10, <1>12, IncludedColumns DEF Absent
<1>15. Listed(columns, Columns(leftList) \cup Columns(rightList))
  BY <1>7, <1>9, ColumnsContained DEF Listed
<1>16. join.leftColumn \in Columns(leftList) /\ join.rightColumn \in Columns(rightList)
  BY <1>9
<1>17. /\ AllColumnsIncluded(columns, pruned.schema)
       /\ SameMeaning(kept, ProjectExpr(columns, join))
  BY <1>1, <1>2, <1>8, <1>12, <1>13, <1>14, <1>15, <1>16, ProjectOfPruned
<1>18. Sound(pruned, nodes)
  BY <1>8, <1>11, <1>12, <1>13, JoinSound
<1> HIDE DEF pruned
<1>19. Sound(kept, nodes)
  BY <1>2, <1>11, <1>17, <1>18, ProjectSound
<1> HIDE DEF kept
<1>20. SameMeaning(kept, Top.expr)
  BY <1>2, <1>17, SameMeaningTransitive
<1>21. Rule("Pruning") \in Note
  BY DEF Note, Rule
<1>22. kept \in built /\ \A node \in built : Sound(node, heap \cup built)
  BY <1>12, <1>13, <1>18, <1>19 DEF nodes
<1> HIDE DEF built
<1> QED BY <1>1, <1>2, <1>20, <1>21, <1>22, DeliveredByRule

-----------------------------------------------------------------------------
(* The client.                                                             *)

\* The client builds one more node.
LEMMA BuildStep ==
  ASSUME IInv, NEW expr, Sound(expr, heap), NEW consumed \in Nat, Build(expr, consumed)
  PROVE  IInv'
<1>1. /\ status = "idle" /\ heap' = heap \cup {expr}
      /\ Len(workspace) >= consumed
      /\ workspace' = Append(SubSeq(workspace, 1, Len(workspace) - consumed), expr)
      /\ UNCHANGED <<status, root, result, stack, notes, lastNotes>>
  BY DEF Build
<1>2. Sound(expr, heap \cup {expr})
  BY SoundAmongMore
<1>3. (\A e \in heap : NodeOK(e, heap))' /\ AnswersFit'
  BY <1>1, <1>2, HeapIsSound, NodesStaySound
<1>4. heap \subseteq heap' /\ expr \in heap'
  BY <1>1
<1>5. workspace' \in Seq(heap')
  <2>1. workspace \in Seq(heap')
    BY <1>4 DEF IInv, TypeOK
  <2>2. SubSeq(workspace, 1, Len(workspace) - consumed) \in Seq(heap')
    BY <1>1, <2>1
  <2> QED BY <1>1, <1>4, <2>2
<1>6. stack = <<>> /\ stack' = <<>>
  BY <1>1 DEF IInv, TypeOK
<1>7. TypeOK'
  <2>1. /\ root' \in {<<>>} \cup {<<e>> : e \in heap'}
        /\ result' \in {<<>>} \cup {<<e>> : e \in heap'}
    BY <1>1, <1>4 DEF IInv, TypeOK
  <2>2. stack' \in Seq(FrameType(heap'))
    BY <1>6
  <2>3. /\ notes' \in Seq(Note) /\ lastNotes' \in Seq(Note)
        /\ status' # "optimizing" /\ status' # "returned" /\ status' = "idle" /\ result' = <<>>
    BY <1>1 DEF IInv, TypeOK
  <2> QED BY <1>3, <1>5, <1>6, <2>1, <2>2, <2>3 DEF TypeOK
<1>8. NeverThrows' /\ CallsLinked' /\ PartsPreserved' /\ (\A i \in DOMAIN stack : SplitSound(stack[i]))'
  BY <1>1, <1>6 DEF NeverThrows, CallsLinked, PartsPreserved
<1> QED BY <1>3, <1>7, <1>8 DEF IInv

\* The client calls optimize.
LEMMA OptimizeStep ==
  ASSUME IInv, NEW expr \in heap, Optimize(expr)
  PROVE  IInv'
<1>1. /\ status' = "optimizing" /\ root' = <<expr>> /\ result' = <<>>
      /\ stack' = <<Frame(expr, 0)>> /\ notes' = <<>>
      /\ UNCHANGED <<heap, workspace, lastNotes>>
  BY DEF Optimize
<1> DEFINE frame == Frame(expr, 0)
<1>2. /\ frame \in FrameType(heap) /\ frame.expr = expr
      /\ DOMAIN frame.done = {} /\ SplitSound(frame)
  BY FreshFrame
<1>3. stack' = <<frame>>
  BY <1>1
<1> HIDE DEF frame
<1>4. /\ stack' \in Seq(FrameType(heap)) /\ stack' # <<>>
      /\ DOMAIN stack' = {1} /\ Len(stack') = 1 /\ stack'[1] = frame
  BY <1>2, <1>3
<1>5. \A i \in DOMAIN stack' : DOMAIN stack'[i].done \subseteq Slots(stack'[i].expr)
  BY <1>2, <1>4
<1>6. TypeOK'
  <2>1. /\ (\A e \in heap : NodeOK(e, heap)) /\ workspace \in Seq(heap)
        /\ lastNotes \in Seq(Note)
    BY DEF IInv, TypeOK
  <2>2. root' \in {<<e>> : e \in heap} /\ root' # <<>> /\ notes' \in Seq(Note)
    BY <1>1
  <2> QED BY <1>1, <1>4, <1>5, <2>1, <2>2 DEF TypeOK, Slots
<1>7. AnswersFit' /\ NeverThrows'
  BY <1>1 DEF IInv, AnswersFit, NeverThrows
<1>8. CallsLinked' /\ (\A i \in DOMAIN stack : SplitSound(stack[i]))'
  BY <1>1, <1>2, <1>4 DEF CallsLinked
<1>9. PartsPreserved'
  BY <1>1, <1>2, <1>4 DEF PartsPreserved
<1> QED BY <1>6, <1>7, <1>8, <1>9 DEF IInv

\* Every step of the client keeps the invariant.
LEMMA ClientStep == ASSUME IInv, Client PROVE IInv'
<1>1. workspace \in Seq(heap) /\ NodesSound
  BY HeapIsSound DEF IInv, TypeOK
<1>2. workspace # <<>> => Last \in heap
  BY <1>1 DEF Last
<1>3. CASE Table
  <2>1. PICK t \in Tables : Build(TableExpr(t[1], t[2]), 0)
    BY <1>3 DEF Table
  <2>2. t[1] \in TableName /\ t[2] \in Seq(Column)
    BY QueryOptimizerAssumption
  <2> QED BY <2>1, <2>2, TableSound, BuildStep
<1>4. CASE Sigma
  <2>1. PICK c \in Conditions : Build(SelectExpr(c, Last), 1)
    BY <1>4 DEF Sigma
  <2>2. c \in Condition /\ Last \in heap /\ Sound(Last, heap)
    BY <1>1, <1>2, <1>4, QueryOptimizerAssumption DEF Sigma, NodesSound
  <2> QED BY <2>1, <2>2, SelectSound, BuildStep
<1>5. CASE Pi
  <2>1. PICK columns \in ColumnLists : /\ Constructible(ProjectExpr(columns, Last))
                                       /\ Build(ProjectExpr(columns, Last), 1)
    BY <1>5 DEF Pi
  <2>2. columns \in Seq(Column) /\ Last \in heap /\ Sound(Last, heap)
    BY <1>1, <1>2, <1>5, QueryOptimizerAssumption DEF Pi, NodesSound
  <2>3. AllColumnsIncluded(columns, Last.schema)
    BY <2>1 DEF Constructible, ProjectExpr
  <2> QED BY <2>1, <2>2, <2>3, ProjectSound, BuildStep
<1>6. CASE Rho
  <2>1. PICK alias \in Alias : Build(RenameExpr(alias, Last), 1)
    BY <1>6 DEF Rho
  <2>2. Last \in heap /\ Sound(Last, heap)
    BY <1>1, <1>2, <1>6 DEF Rho, NodesSound
  <2> QED BY <2>1, <2>2, RenameSound, BuildStep
<1>7. CASE Join
  <2> DEFINE first == workspace[Len(workspace) - 1]
  <2>1. PICK keys \in JoinKeys : Build(JoinExpr(first, Last, keys[1], keys[2]), 2)
    BY <1>7 DEF Join
  <2>2. keys[1] \in Column /\ keys[2] \in Column
    BY QueryOptimizerAssumption
  <2>3. first \in heap /\ Last \in heap
    BY <1>1, <1>7 DEF Join, Last
  <2>4. Sound(first, heap) /\ Sound(Last, heap)
    BY <1>1, <2>3 DEF NodesSound
  <2> QED BY <2>1, <2>2, <2>3, <2>4, JoinSound, BuildStep
<1>8. CASE OptimizeQuery
  <2>1. Last \in heap
    BY <1>1, <1>8 DEF OptimizeQuery, Last
  <2> QED BY <1>8, <2>1, OptimizeStep DEF OptimizeQuery
<1>9. CASE OptimizeAgain
  <2>1. result[1] \in heap
    BY <1>9 DEF OptimizeAgain, IInv, TypeOK
  <2> QED BY <1>9, <2>1, OptimizeStep DEF OptimizeAgain
<1> QED BY <1>3, <1>4, <1>5, <1>6, <1>7, <1>8, <1>9 DEF Client

\* A step that changes nothing keeps the invariant.
LEMMA StutteringStep == ASSUME IInv, UNCHANGED vars PROVE IInv'
<1> USE DEF vars
<1>1. TypeOK'
  BY DEF IInv, TypeOK, Slots
<1>2. AnswersFit' /\ NeverThrows' /\ CallsLinked' /\ PartsPreserved'
  BY DEF IInv, AnswersFit, NeverThrows, CallsLinked, PartsPreserved, NoRuleNoted, Slots
<1>3. (\A i \in DOMAIN stack : SplitSound(stack[i]))'
  BY DEF IInv
<1> QED BY <1>1, <1>2, <1>3 DEF IInv

\* Every step of the specification keeps the invariant.
LEMMA InvariantStep == ASSUME IInv, [Next]_vars PROVE IInv'
<1>1. CASE Step
  BY <1>1, DescendStep, TableStep, RenameStep, JoinStep, PushBelowProjectStep, PushLeftStep,
     PushRightStep, KeepSelectStep, CollapseStep, SplitColumnStep, PruneProjectStep,
     GiveUpPruningStep, KeepProjectStep DEF Step
<1> QED BY <1>1, ClientStep, StutteringStep DEF Next

(* The inductive invariant holds in every state a run of the client and    *)
(* the optimizer can reach, whatever tables, files and queries there are.  *)
THEOREM SpecInvariant == Spec => []IInv
<1>1. Init => IInv
  BY InitialInvariant
<1>2. IInv /\ [Next]_vars => IInv'
  BY InvariantStep
<1> QED BY <1>1, <1>2, PTL DEF Spec

-----------------------------------------------------------------------------
(* What a caller of the optimizer may rely on.                             *)

(* Every node the client and the optimizer ever build is what its          *)
(* constructor makes of its parts, and the machine's variables are typed.  *)
THEOREM TypeCorrect == Spec => []TypeOK
<1>1. IInv => TypeOK
  BY DEF IInv
<1> QED BY <1>1, SpecInvariant, PTL

(* Executing any expression on the CSV backend either fails for a reason   *)
(* of the data or the query, or answers with the announced schema and rows *)
(* that fit it: QueryResult::append never throws.                          *)
THEOREM ExecutionFits == Spec => []AnswersFit
<1>1. IInv => AnswersFit
  BY DEF IInv
<1> QED BY <1>1, SpecInvariant, PTL

(* optimize never throws: no rule hands a ProjectExpr columns its child    *)
(* does not have, pruning included.                                        *)
THEOREM OptimizeNeverThrows == Spec => []NeverThrows
<1>1. IInv => NeverThrows
  BY DEF IInv
<1> QED BY <1>1, SpecInvariant, PTL

(* The optimizer is correct: every call of optimizeExpr returns a node     *)
(* with the schema and the answer of its argument.                         *)
THEOREM OptimizePreservesAnswers == Spec => []AnswerPreserved
<1>1. IInv => AnswerPreserved
  BY DEF IInv, PartsPreserved, AnswerPreserved
<1> QED BY <1>1, SpecInvariant, PTL

(* When the report names no rule the query was copied, node by node.       *)
THEOREM ReportIsComplete == Spec => []NoRuleNoChange
<1>1. IInv => NoRuleNoChange
  BY DEF IInv, PartsPreserved, NoRuleNoted, NoRuleNoChange
<1> QED BY <1>1, SpecInvariant, PTL

-----------------------------------------------------------------------------
(* The steps of the optimizer are steps of AbstractOptimizer: a call of    *)
(* optimize asks, the outermost return replies with the same meaning, and  *)
(* everything else stutters.  (That a reply comes is left to TLC.)         *)

\* The abstract optimizer's initial state.
LEMMA InitialStateMaps == ASSUME Init PROVE Abstract!Init
BY DEF Init, Abstract!Init, Phase, Meanings

\* Calling optimize is asking the abstract optimizer.
LEMMA AskMaps ==
  ASSUME IInv, NEW expr \in heap, Optimize(expr)
  PROVE  Abstract!Ask
<1>1. /\ status \in {"idle", "returned"} /\ status' = "optimizing"
      /\ root' = <<expr>> /\ result' = <<>>
  BY DEF Optimize
<1>2. Phase # "busy" /\ Phase' = "busy"
  BY <1>1 DEF Phase
<1>3. Len(Meanings(root')) = 1 /\ Meanings(result') = <<>>
  BY <1>1 DEF Meanings
<1> QED BY <1>2, <1>3 DEF Abstract!Ask, Meanings

\* A step that changes no status and no result is a stutter of the abstract one.
LEMMA StutterMaps ==
  ASSUME status' = status, root' = root, result' = result
  PROVE  UNCHANGED <<Phase, Meanings(root), Meanings(result)>>
BY DEF Phase, Meanings

\* A call that returns replies, when it is the outermost, or stutters.
LEMMA DeliverMaps ==
  ASSUME IInv, IInv', status = "optimizing",
         NEW expr, NEW built, NEW written, Deliver(expr, built, written)
  PROVE  Abstract!Reply \/ UNCHANGED <<Phase, Meanings(root), Meanings(result)>>
<1>1. status' # "thrown"
  BY DEF IInv, NeverThrows
<1>2. Return(expr, notes \o written) /\ root' = root
  BY <1>1 DEF Deliver, Throw
<1>3. CASE Callers # <<>>
  BY <1>2, <1>3, StutterMaps DEF Return
<1>4. CASE Callers = <<>>
  <2>1. status' = "returned" /\ result' = <<expr>>
    BY <1>2, <1>4 DEF Return
  <2>2. SameMeaning(result'[1], root'[1])
    BY <2>1 DEF IInv, PartsPreserved, SameMeaning
  <2>3. PICK e : root = <<e>>
    BY DEF IInv, TypeOK
  <2>4. expr.schema = e.schema /\ expr.answer = e.answer
    BY <1>2, <2>1, <2>2, <2>3 DEF SameMeaning
  <2>5. Meanings(result') = Meanings(root)
    BY <2>1, <2>3, <2>4 DEF Meanings
  <2>6. Phase = "busy" /\ Phase' = "done"
    BY <2>1 DEF Phase
  <2>7. Meanings(root') = Meanings(root)
    BY <1>2
  <2> QED BY <2>5, <2>6, <2>7 DEF Abstract!Reply, Meanings
<1> QED BY <1>3, <1>4

\* Every step of the optimizer replies or stutters.
LEMMA StepMaps ==
  ASSUME IInv, IInv', Step
  PROVE  Abstract!Reply \/ UNCHANGED <<Phase, Meanings(root), Meanings(result)>>
<1>1. CASE Descend \/ SplitColumn
  BY <1>1, StutterMaps DEF Descend, SplitColumn
<1>2. CASE ~(Descend \/ SplitColumn)
  <2>1. status = "optimizing"
    BY <1>2 DEF Step, FinishTable, FinishRename, FinishJoin, PushSelectBelowProject,
       PushSelectLeft, PushSelectRight, KeepSelect, CollapseProjects, PruneProject,
       GiveUpPruning, KeepProject, Splitting, Ready
  <2>2. \E expr, built, written : Deliver(expr, built, written)
    BY <1>2, Zenon DEF Step, FinishTable, FinishRename, FinishJoin, PushSelectBelowProject,
       PushSelectLeft, PushSelectRight, KeepSelect, CollapseProjects, PruneProject,
       GiveUpPruning, KeepProject
  <2> QED BY <2>1, <2>2, DeliverMaps
<1> QED BY <1>1, <1>2

\* Every step of the client asks or stutters.
LEMMA ClientMaps ==
  ASSUME IInv, Client
  PROVE  Abstract!Ask \/ UNCHANGED <<Phase, Meanings(root), Meanings(result)>>
<1>1. CASE OptimizeQuery
  <2>1. Last \in heap
    BY <1>1 DEF OptimizeQuery, Last, IInv, TypeOK
  <2> QED BY <1>1, <2>1, AskMaps DEF OptimizeQuery
<1>2. CASE OptimizeAgain
  <2>1. result[1] \in heap
    BY <1>2 DEF OptimizeAgain, IInv, TypeOK
  <2> QED BY <1>2, <2>1, AskMaps DEF OptimizeAgain
<1>3. CASE Table \/ Sigma \/ Pi \/ Rho \/ Join
  <2>1. \E expr, consumed : Build(expr, consumed)
    BY <1>3, Zenon DEF Table, Sigma, Pi, Rho, Join
  <2>2. status' = status /\ root' = root /\ result' = result
    BY <2>1 DEF Build
  <2> QED BY <2>2, StutterMaps
<1> QED BY <1>1, <1>2, <1>3 DEF Client

(* The optimizer does what AbstractOptimizer promises: whatever queries    *)
(* are passed to it, and however often, each reply has the schema and the  *)
(* answer of the query asked about, and nothing is replied unasked.        *)
THEOREM ImplementsSafety == Spec => Abstract!Spec
<1>1. Init => Abstract!Init
  BY InitialStateMaps
<1>2. IInv /\ IInv' /\ [Next]_vars
        => [Abstract!Ask \/ Abstract!Reply]_<<Phase, Meanings(root), Meanings(result)>>
  <2> SUFFICES ASSUME IInv, IInv', [Next]_vars
               PROVE  \/ Abstract!Ask \/ Abstract!Reply
                      \/ UNCHANGED <<Phase, Meanings(root), Meanings(result)>>
    OBVIOUS
  <2>1. CASE Step
    BY <2>1, StepMaps
  <2>2. CASE Client
    BY <2>2, ClientMaps
  <2>3. CASE UNCHANGED vars
    BY <2>3, StutterMaps DEF vars
  <2> QED BY <2>1, <2>2, <2>3 DEF Next
<1> QED BY <1>1, <1>2, SpecInvariant, PTL DEF Spec, Abstract!Spec

-----------------------------------------------------------------------------
(* The work of the joins: a rule makes the inputs of a join no larger.     *)

\* A node whose rows and row pairs can be counted.
Counted(expr) ==
  /\ expr.work \in Nat
  /\ expr.answer.error = "none" => IsFiniteSet(DOMAIN expr.answer.rows)

\* An expression that works no more, and hands on no more rows, than another.
NoLarger(less, expr) ==
  /\ less.work <= expr.work
  /\ less.answer.error = "none" =>
       /\ expr.answer.error = "none"
       /\ DOMAIN less.answer.rows \subseteq DOMAIN expr.answer.rows

(* What a call has finished works no more than what it replaces: the       *)
(* strengthening of JoinWorkNotIncreased that every step preserves.        *)
WorkInv ==
  /\ \A expr \in heap : Counted(expr)
  /\ \A i \in DOMAIN stack : \A slot \in DOMAIN stack[i].done :
       stack[i].done[slot].work <= Children(stack[i].expr)[slot].work
  /\ status = "returned" => result[1].work <= root[1].work

\* The file of a table has finitely many lines.
LEMMA TableCounted ==
  ASSUME NEW name \in TableName, NEW schema
  PROVE  Counted(TableExpr(name, schema))
<1> DEFINE file == Files[name]
           lines == {<<line>> : line \in DOMAIN file.rows}
<1>1. IsFiniteSet(lines)
  <2>1. file.rows \in Seq(Seq(Text))
    BY FilesAssumption DEF File
  <2>2. IsFiniteSet(DOMAIN file.rows)
    <3>1. DOMAIN file.rows = 1..Len(file.rows) /\ Len(file.rows) \in Int /\ 1 \in Int
      BY <2>1
    <3> QED BY <3>1, FS_Interval
  <2> DEFINE place == [line \in DOMAIN file.rows |-> <<line>>]
  <2>3. place \in Surjection(DOMAIN file.rows, lines)
    BY DEF Surjection
  <2> HIDE DEF place, lines
  <2> QED BY <2>2, <2>3, FS_Surjection
<1>2. DOMAIN ReadRows(file, schema) = lines
  BY DEF ReadRows
<1> HIDE DEF lines
<1>3. ExecuteTable(name, schema).error = "none" =>
        ExecuteTable(name, schema).rows = ReadRows(file, schema)
  BY DEF ExecuteTable, Collected, Answer, Failed
<1>4. TableExpr(name, schema).work = 0
      /\ TableExpr(name, schema).answer = ExecuteTable(name, schema)
  BY DEF TableExpr
<1> QED BY <1>1, <1>2, <1>3, <1>4 DEF Counted

\* A filter keeps some of the rows, or fails, and works no more.
LEMMA SelectCounted ==
  ASSUME NEW child, Counted(child), NEW condition
  PROVE  /\ Counted(SelectExpr(condition, child))
         /\ NoLarger(SelectExpr(condition, child), child)
<1> DEFINE select == SelectExpr(condition, child)
<1>1. select.work = child.work
      /\ select.answer = ExecuteSelect(condition, child.schema, child.answer)
  BY DEF SelectExpr
<1>2. ASSUME select.answer.error = "none"
      PROVE  /\ child.answer.error = "none"
             /\ DOMAIN select.answer.rows \subseteq DOMAIN child.answer.rows
  <2>1. child.answer.error = "none"
    BY <1>1, <1>2, FailedSelect
  <2>2. select.answer.rows = SelectedRows(condition, child.answer)
    BY <1>1, <1>2, <2>1 DEF ExecuteSelect, Collected, Answer, Failed
  <2> QED BY <2>1, <2>2 DEF SelectedRows
<1>3. select.answer.error = "none" => IsFiniteSet(DOMAIN select.answer.rows)
  BY <1>2, FS_Subset DEF Counted
<1>4. child.work \in Nat
  BY DEF Counted
<1> QED BY <1>1, <1>2, <1>3, <1>4 DEF Counted, NoLarger

\* A projection keeps the rows, or fails, and works no more.
LEMMA ProjectCounted ==
  ASSUME NEW child, Counted(child), NEW columns
  PROVE  /\ Counted(ProjectExpr(columns, child))
         /\ NoLarger(ProjectExpr(columns, child), child)
<1> DEFINE project == ProjectExpr(columns, child)
<1>1. project.work = child.work /\ project.answer = ExecuteProject(columns, child.answer)
  BY DEF ProjectExpr
<1>2. ASSUME project.answer.error = "none"
      PROVE  /\ child.answer.error = "none"
             /\ DOMAIN project.answer.rows = DOMAIN child.answer.rows
  <2>1. child.answer.error = "none"
    BY <1>1, <1>2, FailedProject
  <2>2. project.answer.rows = ProjectedRows(columns, child.answer)
    BY <1>1, <1>2, <2>1 DEF ExecuteProject, Collected, Answer, Failed
  <2> QED BY <2>1, <2>2 DEF ProjectedRows
<1>3. child.work \in Nat
  BY DEF Counted
<1> QED BY <1>1, <1>2, <1>3 DEF Counted, NoLarger

\* A renamed expression is executed as it is.
LEMMA RenameCounted ==
  ASSUME NEW child, Counted(child), NEW alias
  PROVE  Counted(RenameExpr(alias, child)) /\ RenameExpr(alias, child).work = child.work
BY DEF Counted, RenameExpr

\* What executeJoin does when it runs its loops, and when it does not.
LEMMA JoinWorkIs ==
  ASSUME NEW left, Counted(left), NEW right, Counted(right),
         NEW leftColumn, NEW rightColumn
  PROVE  LET work == JoinWork(left, right, leftColumn, rightColumn)
             pairs == Cardinality(DOMAIN left.answer.rows)
                      * Cardinality(DOMAIN right.answer.rows)
             keyed == /\ SequenceContains(left.schema, leftColumn)
                      /\ SequenceContains(right.schema, rightColumn)
         IN
         /\ left.answer.error # "none" => work = 0
         /\ left.answer.error = "none" /\ right.answer.error # "none" => work = right.work
         /\ left.answer.error = "none" /\ right.answer.error = "none" =>
              pairs \in Nat /\ work = right.work + IF keyed THEN pairs ELSE 0
<1> DEFINE pairs == Cardinality(DOMAIN left.answer.rows)
                    * Cardinality(DOMAIN right.answer.rows)
<1>1. left.answer.error = "none" /\ right.answer.error = "none" => pairs \in Nat
  <2> SUFFICES ASSUME left.answer.error = "none", right.answer.error = "none"
               PROVE  pairs \in Nat
    OBVIOUS
  <2>1. /\ Cardinality(DOMAIN left.answer.rows) \in Nat
        /\ Cardinality(DOMAIN right.answer.rows) \in Nat
    BY FS_CardinalityType DEF Counted
  <2> QED BY <2>1
<1> QED BY <1>1 DEF JoinWork

\* A join of counted inputs is counted.
LEMMA JoinCounted ==
  ASSUME NEW left, Counted(left), NEW right, Counted(right),
         NEW leftColumn, NEW rightColumn
  PROVE  Counted(JoinExpr(left, right, leftColumn, rightColumn))
<1> DEFINE schema == left.schema \o right.schema
           join == JoinExpr(left, right, leftColumn, rightColumn)
           work == JoinWork(left, right, leftColumn, rightColumn)
           pairs == Cardinality(DOMAIN left.answer.rows)
                    * Cardinality(DOMAIN right.answer.rows)
           keyed == /\ SequenceContains(left.schema, leftColumn)
                    /\ SequenceContains(right.schema, rightColumn)
<1>1. /\ join.work = left.work + work
      /\ join.answer = ExecuteJoin(schema, left.answer, right.answer, leftColumn, rightColumn)
  BY DEF JoinExpr
<1>2. work \in Nat
  <2>1. /\ left.answer.error # "none" => work = 0
        /\ left.answer.error = "none" /\ right.answer.error # "none" => work = right.work
        /\ left.answer.error = "none" /\ right.answer.error = "none" =>
             pairs \in Nat /\ work = right.work + IF keyed THEN pairs ELSE 0
    BY JoinWorkIs
  <2>2. right.work \in Nat
    BY DEF Counted
  <2> HIDE DEF work, pairs, keyed
  <2> QED BY <2>1, <2>2
<1>3. ASSUME join.answer.error = "none" PROVE IsFiniteSet(DOMAIN join.answer.rows)
  <2>1. left.answer.error = "none" /\ right.answer.error = "none"
    BY <1>1, <1>3, FailedJoin
  <2>2. join.answer.rows = JoinedRows(left.answer, right.answer, leftColumn, rightColumn)
    <3> DEFINE rows == JoinedRows(left.answer, right.answer, leftColumn, rightColumn)
    <3>1. join.answer \in {Failed("column"), Collected(schema, rows)}
      BY <1>1, <2>1 DEF ExecuteJoin
    <3>2. Failed("column").error # "none" /\ Failed("size").error # "none"
      BY DEF Failed
    <3> HIDE DEF join, rows, schema
    <3>3. join.answer = Answer(schema, rows)
      BY <1>3, <3>1, <3>2 DEF Collected
    <3> QED BY <3>3 DEF Answer, rows
  <2>3. DOMAIN join.answer.rows \subseteq
          (DOMAIN left.answer.rows) \X (DOMAIN right.answer.rows)
    BY <2>2 DEF JoinedRows, MatchingRows
  <2>4. IsFiniteSet((DOMAIN left.answer.rows) \X (DOMAIN right.answer.rows))
    BY <2>1, FS_Product DEF Counted
  <2> QED BY <2>3, <2>4, FS_Subset
<1>4. left.work \in Nat
  BY DEF Counted
<1> HIDE DEF join, work
<1>5. Counted(join)
  BY <1>1, <1>2, <1>3, <1>4 DEF Counted
<1> QED BY <1>5 DEF join

\* Smaller inputs that have their keys only where the larger ones do: the
\* nested loops of the join compare no more pairs.
LEMMA JoinNoLarger ==
  ASSUME NEW left, Counted(left), NEW right, Counted(right),
         NEW less, Counted(less), NoLarger(less, left),
         NEW fewer, Counted(fewer), NoLarger(fewer, right),
         NEW leftColumn, NEW rightColumn,
         SequenceContains(less.schema, leftColumn) => SequenceContains(left.schema, leftColumn),
         SequenceContains(fewer.schema, rightColumn) => SequenceContains(right.schema, rightColumn)
  PROVE  JoinExpr(less, fewer, leftColumn, rightColumn).work
           <= JoinExpr(left, right, leftColumn, rightColumn).work
<1> DEFINE pairs == Cardinality(DOMAIN left.answer.rows)
                    * Cardinality(DOMAIN right.answer.rows)
           keyed == /\ SequenceContains(left.schema, leftColumn)
                    /\ SequenceContains(right.schema, rightColumn)
           work == JoinWork(left, right, leftColumn, rightColumn)
           lessPairs == Cardinality(DOMAIN less.answer.rows)
                        * Cardinality(DOMAIN fewer.answer.rows)
           lessKeyed == /\ SequenceContains(less.schema, leftColumn)
                        /\ SequenceContains(fewer.schema, rightColumn)
           lessWork == JoinWork(less, fewer, leftColumn, rightColumn)
<1>1. /\ left.answer.error # "none" => work = 0
      /\ left.answer.error = "none" /\ right.answer.error # "none" => work = right.work
      /\ left.answer.error = "none" /\ right.answer.error = "none" =>
           pairs \in Nat /\ work = right.work + IF keyed THEN pairs ELSE 0
  BY JoinWorkIs
<1>2. /\ less.answer.error # "none" => lessWork = 0
      /\ less.answer.error = "none" /\ fewer.answer.error # "none" => lessWork = fewer.work
      /\ less.answer.error = "none" /\ fewer.answer.error = "none" =>
           lessPairs \in Nat /\ lessWork = fewer.work + IF lessKeyed THEN lessPairs ELSE 0
  BY JoinWorkIs
<1>3. less.answer.error = "none" /\ fewer.answer.error = "none" => lessPairs <= pairs
  <2> SUFFICES ASSUME less.answer.error = "none", fewer.answer.error = "none"
               PROVE  lessPairs <= pairs
    OBVIOUS
  <2> DEFINE a == Cardinality(DOMAIN less.answer.rows)
             b == Cardinality(DOMAIN fewer.answer.rows)
             c == Cardinality(DOMAIN left.answer.rows)
             d == Cardinality(DOMAIN right.answer.rows)
  <2>1. /\ IsFiniteSet(DOMAIN left.answer.rows) /\ IsFiniteSet(DOMAIN right.answer.rows)
        /\ DOMAIN less.answer.rows \subseteq DOMAIN left.answer.rows
        /\ DOMAIN fewer.answer.rows \subseteq DOMAIN right.answer.rows
    BY DEF Counted, NoLarger
  <2>2. a <= c /\ a \in Nat /\ c \in Nat
    BY <2>1, FS_Subset, FS_CardinalityType
  <2>3. b <= d /\ b \in Nat /\ d \in Nat
    BY <2>1, FS_Subset, FS_CardinalityType
  <2> HIDE DEF a, b, c, d
  <2>4. a * b <= c * d
    BY <2>2, <2>3
  <2> QED BY <2>4 DEF a, b, c, d
<1>4. /\ left.work \in Nat /\ right.work \in Nat /\ less.work \in Nat /\ fewer.work \in Nat
      /\ less.work <= left.work /\ fewer.work <= right.work
      /\ less.answer.error = "none" => left.answer.error = "none"
      /\ fewer.answer.error = "none" => right.answer.error = "none"
  BY DEF Counted, NoLarger
<1>5. lessKeyed => keyed
  OBVIOUS
<1>6. /\ JoinExpr(less, fewer, leftColumn, rightColumn).work = less.work + lessWork
      /\ JoinExpr(left, right, leftColumn, rightColumn).work = left.work + work
  BY DEF JoinExpr
<1> HIDE DEF pairs, keyed, work, lessPairs, lessKeyed, lessWork
<1>7. lessWork \in Nat /\ work \in Nat /\ lessWork <= work
  <2>1. CASE less.answer.error # "none"
    BY <1>1, <1>2, <1>4, <2>1
  <2>2. CASE less.answer.error = "none" /\ fewer.answer.error # "none"
    BY <1>1, <1>2, <1>4, <2>2
  <2>3. CASE less.answer.error = "none" /\ fewer.answer.error = "none"
    BY <1>1, <1>2, <1>3, <1>4, <1>5, <2>3
  <2> QED BY <2>1, <2>2, <2>3
<1> QED BY <1>4, <1>6, <1>7

\* Expressions that mean the same hand on the same rows.
LEMMA SameMeaningNoLarger ==
  ASSUME NEW less, NEW expr, SameMeaning(less, expr), less.work <= expr.work
  PROVE  NoLarger(less, expr)
BY DEF SameMeaning, NoLarger

\* Every input of a join is as large as itself.
LEMMA NoLargerItself ==
  ASSUME NEW expr, Counted(expr)
  PROVE  NoLarger(expr, expr)
BY DEF Counted, NoLarger

-----------------------------------------------------------------------------
(* Every step keeps the work of what is finished within that of what it    *)
(* replaces.                                                               *)

\* A call hands back an expression that works no more than its argument.
LEMMA DeliveredNoLarger ==
  ASSUME IInv, WorkInv, status = "optimizing",
         NEW expr, NEW built, NEW written,
         \A node \in built : Counted(node),
         expr.work <= Top.expr.work,
         Deliver(expr, built, written)
  PROVE  WorkInv'
<1> USE DEF Callers, Top
<1> DEFINE n == Len(stack)
<1>1. root' = root
  BY DEF Deliver
<1>2. CASE Throw
  BY <1>2 DEF Throw, WorkInv
<1>3. ASSUME heap' = heap \cup built, Return(expr, notes \o written) PROVE WorkInv'
  <2>1. \A e \in heap' : Counted(e)
    BY <1>3 DEF WorkInv
  <2>2. stack \in Seq(FrameType(heap)) /\ stack # <<>> /\ n \in Nat \ {0} /\ DOMAIN stack = 1..n
    <3>1. stack \in Seq(FrameType(heap)) /\ stack # <<>>
      BY DEF IInv, TypeOK
    <3> QED BY <3>1
  <2>3. CASE Callers = <<>>
    <3>1. status' = "returned" /\ result' = <<expr>> /\ stack' = <<>>
      BY <1>3, <2>3 DEF Return
    <3>2. n = 1
      BY <2>2, <2>3, StackWithoutTop
    <3>3. Top.expr = root[1]
      BY <2>2, <3>2 DEF IInv, CallsLinked
    <3> QED BY <1>1, <2>1, <3>1, <3>3 DEF WorkInv
  <2>4. CASE Callers # <<>>
    <3> DEFINE caller == stack[n - 1]
               resumed == Resumed(caller, Top.slot, expr)
    <3>1. /\ status' = status
          /\ stack' = [Callers EXCEPT ![Len(Callers)] = Resumed(@, Top.slot, expr)]
      BY <1>3, <2>4 DEF Return
    <3>2. /\ n >= 2
          /\ Callers \in Seq(FrameType(heap)) /\ Len(Callers) = n - 1
          /\ \A i \in 1..(n-1) : Callers[i] = stack[i]
      BY <2>2, <2>4, StackWithoutTop
    <3>3. /\ Top.slot \notin DOMAIN caller.done
          /\ Top.expr = Children(caller.expr)[Top.slot]
      <4>1. n \in 2..Len(stack)
        BY <2>2, <3>2
      <4> QED BY <4>1 DEF IInv, CallsLinked
    <3>4. caller \in FrameType(heap)
      BY <2>2, <3>2
    <3>5. /\ resumed.expr = caller.expr
          /\ DOMAIN resumed.done = DOMAIN caller.done \cup {Top.slot}
          /\ resumed.done[Top.slot] = expr
          /\ \A s \in DOMAIN caller.done : resumed.done[s] = caller.done[s]
      <4> HIDE DEF caller
      <4>1. caller = [expr |-> caller.expr, slot |-> caller.slot, done |-> caller.done,
                      split |-> caller.split]
        BY <3>4, FrameTypeRecord
      <4> QED BY <3>3, <4>1 DEF Resumed
    <3>6. /\ DOMAIN stack' = 1..(n-1)
          /\ stack'[n-1] = resumed
          /\ \A i \in 1..(n-2) : stack'[i] = stack[i]
      <4> DEFINE front == Callers
                 place == n-1
      <4>1. stack' = [front EXCEPT ![place] = resumed]
        BY <3>1, <3>2
      <4>2. /\ DOMAIN front = 1..place /\ place \in 1..place
            /\ \A i \in 1..(n-2) : i \in 1..place /\ i # place /\ front[i] = stack[i]
        <5> HIDE DEF resumed, caller
        <5>1. n \in Nat /\ n >= 2
          BY <2>2, <3>2
        <5>2. front \in Seq(FrameType(heap)) /\ Len(front) = n-1
          BY <3>2
        <5>3. DOMAIN front = 1..place
          <6> HIDE DEF n, front
          <6> QED BY <5>1, <5>2
        <5>4. place \in 1..place /\ \A i \in 1..(n-2) : i \in 1..place /\ i # place
          <6> HIDE DEF n
          <6> QED BY <5>1
        <5> QED BY <3>2, <5>3, <5>4
      <4> HIDE DEF front, place, resumed
      <4>3. /\ DOMAIN stack' = 1..place
            /\ stack'[place] = resumed
            /\ \A i \in 1..place : i # place => stack'[i] = front[i]
        BY <4>1, <4>2
      <4>4. \A i \in 1..(n-2) : stack'[i] = stack[i]
        BY <4>2, <4>3
      <4> QED BY <4>3, <4>4 DEF place
    <3>7. ASSUME NEW i \in DOMAIN stack', NEW slot \in DOMAIN stack'[i].done
          PROVE  stack'[i].done[slot].work <= Children(stack'[i].expr)[slot].work
      <4>1. \A j \in DOMAIN stack : \A s \in DOMAIN stack[j].done :
              stack[j].done[s].work <= Children(stack[j].expr)[s].work
        BY DEF WorkInv
      <4>2. i \in 1..(n-2) \/ i = n-1
        BY <2>2, <3>6
      <4>3. CASE i \in 1..(n-2)
        <5>1. i \in DOMAIN stack /\ stack'[i] = stack[i]
          BY <2>2, <3>6, <4>3
        <5> QED BY <4>1, <5>1
      <4>4. CASE i = n-1
        <5>1. n-1 \in DOMAIN stack /\ stack'[i] = resumed
          BY <2>2, <3>2, <3>6, <4>4
        <5>2. CASE slot = Top.slot
          <6>1. stack'[i].done[slot] = expr /\ Children(stack'[i].expr)[slot] = Top.expr
            BY <3>3, <3>5, <5>1, <5>2
          <6> QED BY <6>1
        <5>3. CASE slot \in DOMAIN caller.done
          <6>1. caller.done[slot].work <= Children(caller.expr)[slot].work
            BY <4>1, <5>1, <5>3
          <6> HIDE DEF caller, resumed
          <6> QED BY <3>5, <5>1, <5>3, <6>1
        <5> HIDE DEF caller, resumed
        <5> QED BY <3>5, <5>1, <5>2, <5>3
      <4> QED BY <4>2, <4>3, <4>4
    <3>8. status' # "returned"
      BY <3>1
    <3> QED BY <2>1, <3>7, <3>8 DEF WorkInv, Children
  <2> QED BY <2>3, <2>4
<1> QED BY <1>2, <1>3 DEF Deliver

\* The parts of a join in the heap are in the heap, and counted.
LEMMA JoinParts ==
  ASSUME IInv, WorkInv, NEW join \in heap, join.kind = "Join"
  PROVE  /\ Counted(join) /\ Counted(join.left) /\ Counted(join.right)
         /\ join.left.schema \in Seq(Column) /\ join.right.schema \in Seq(Column)
         /\ join.leftColumn \in Column /\ join.rightColumn \in Column
         /\ join = JoinExpr(join.left, join.right, join.leftColumn, join.rightColumn)
<1>1. /\ Sound(join, heap) /\ join.left \in heap /\ join.right \in heap
      /\ join.left.schema \in Seq(Column) /\ join.right.schema \in Seq(Column)
      /\ join.leftColumn \in Column /\ join.rightColumn \in Column
  BY SidesOf
<1>2. join = JoinExpr(join.left, join.right, join.leftColumn, join.rightColumn)
  BY <1>1, JoinFields DEF Sound
<1> QED BY <1>1, <1>2 DEF WorkInv

\* What a handler of a node with one child finds: a child that works no more.
LEMMA ChildNoLarger ==
  ASSUME IInv, WorkInv, NEW kind \in {"Select", "Project", "Rename"}, Ready(kind)
  PROVE  /\ status = "optimizing" /\ Top.done[1] \in heap /\ Counted(Top.done[1])
         /\ Top.expr.work \in Nat /\ Top.done[1].work <= Top.expr.work
<1>1. /\ status = "optimizing" /\ Top.expr.kind = kind /\ 1 \in DOMAIN Top.done
      /\ Top.done[1] \in heap
  BY OptimizedChild
<1>2. Len(stack) \in DOMAIN stack /\ Top.expr \in heap /\ Sound(Top.expr, heap)
  BY <1>1, TopFrame
<1>3. /\ Children(Top.expr) = <<Top.expr.child>>
      /\ Top.expr.work = Top.expr.child.work
  <2>1. CASE kind = "Select"
    <3>1. /\ Children(Top.expr) = <<Top.expr.child>>
          /\ Top.expr = SelectExpr(Top.expr.condition, Top.expr.child)
      BY <1>1, <1>2, <2>1, SelectFields DEF Sound
    <3> QED BY <3>1 DEF SelectExpr
  <2>2. CASE kind = "Project"
    <3>1. /\ Children(Top.expr) = <<Top.expr.child>>
          /\ Top.expr = ProjectExpr(Top.expr.columns, Top.expr.child)
      BY <1>1, <1>2, <2>2, ProjectFields DEF Sound
    <3> QED BY <3>1 DEF ProjectExpr
  <2>3. CASE kind = "Rename"
    <3>1. /\ Children(Top.expr) = <<Top.expr.child>>
          /\ Top.expr = RenameExpr(Top.expr.alias, Top.expr.child)
      BY <1>1, <1>2, <2>3, RenameFields DEF Sound
    <3> QED BY <3>1 DEF RenameExpr
  <2> QED BY <2>1, <2>2, <2>3
<1>4. Top.done[1].work <= Children(Top.expr)[1].work
  BY <1>1, <1>2 DEF WorkInv, Top
<1>5. Counted(Top.done[1]) /\ Counted(Top.expr)
  BY <1>1, <1>2 DEF WorkInv
<1> QED BY <1>1, <1>3, <1>4, <1>5 DEF Counted

\* FinishTable: the copy of a table works as little as the table.
LEMMA TableWorks == ASSUME IInv, WorkInv, FinishTable PROVE WorkInv'
<1> DEFINE table == TableExpr(Top.expr.name, Top.expr.schema)
<1>1. status = "optimizing" /\ Top.expr.kind = "Table" /\ Deliver(table, {table}, <<>>)
  BY DEF FinishTable, Ready
<1>2. Top.expr \in heap /\ Sound(Top.expr, heap)
  BY <1>1, TopFrame
<1>3. Top.expr = table
  BY <1>1, <1>2, TableFields DEF Sound
<1>4. Counted(table) /\ table.work <= Top.expr.work
  BY <1>2, <1>3 DEF WorkInv, Counted
<1> HIDE DEF table
<1> QED BY <1>1, <1>4, DeliveredNoLarger

\* FinishRename: the renamed child works as the optimized child does.
LEMMA RenameWorks == ASSUME IInv, WorkInv, FinishRename PROVE WorkInv'
<1> DEFINE rename == RenameExpr(Top.expr.alias, Top.done[1])
<1>1. Ready("Rename") /\ Deliver(rename, {rename}, <<>>)
  BY DEF FinishRename
<1>2. /\ status = "optimizing" /\ Counted(Top.done[1])
      /\ Top.done[1].work <= Top.expr.work
  BY <1>1, ChildNoLarger
<1>3. Counted(rename) /\ rename.work <= Top.expr.work
  BY <1>2, RenameCounted
<1> HIDE DEF rename
<1> QED BY <1>1, <1>2, <1>3, DeliveredNoLarger

\* FinishJoin: its optimized sides have the rows they had, and work no more.
LEMMA JoinWorks == ASSUME IInv, WorkInv, FinishJoin PROVE WorkInv'
<1> DEFINE less == Top.done[1]
           fewer == Top.done[2]
           left == Top.expr.left
           right == Top.expr.right
           leftColumn == Top.expr.leftColumn
           rightColumn == Top.expr.rightColumn
           join == JoinExpr(less, fewer, leftColumn, rightColumn)
<1>1. Ready("Join") /\ Deliver(join, {join}, <<>>)
  BY DEF FinishJoin
<1>2. /\ status = "optimizing" /\ Top.expr.kind = "Join" /\ DOMAIN Top.done = {1, 2}
      /\ less \in heap /\ fewer \in heap
      /\ SameMeaning(less, left) /\ SameMeaning(fewer, right)
  BY <1>1, OptimizedSides
<1>3. Len(stack) \in DOMAIN stack /\ Top.expr \in heap /\ Sound(Top.expr, heap)
  BY <1>2, TopFrame
<1>4. /\ Counted(left) /\ Counted(right)
      /\ Top.expr = JoinExpr(left, right, leftColumn, rightColumn)
  BY <1>2, <1>3, JoinParts
<1>5. /\ less.work <= left.work /\ fewer.work <= right.work
  <2>1. Children(Top.expr)[1] = left /\ Children(Top.expr)[2] = right
    BY <1>2 DEF Children
  <2>2. /\ Top.done[1].work <= Children(Top.expr)[1].work
        /\ Top.done[2].work <= Children(Top.expr)[2].work
    BY <1>2, <1>3 DEF WorkInv, Top
  <2> QED BY <2>1, <2>2
<1>6. Counted(less) /\ Counted(fewer)
  BY <1>2 DEF WorkInv
<1> HIDE DEF less, fewer, left, right, leftColumn, rightColumn
<1>7. NoLarger(less, left) /\ NoLarger(fewer, right)
  BY <1>2, <1>5, SameMeaningNoLarger
<1>8. less.schema = left.schema /\ fewer.schema = right.schema
  BY <1>2 DEF SameMeaning
<1>9. join.work <= JoinExpr(left, right, leftColumn, rightColumn).work
  BY <1>4, <1>6, <1>7, <1>8, JoinNoLarger
<1>10. Counted(join)
  BY <1>6, JoinCounted
<1> HIDE DEF join
<1>11. join.work <= Top.expr.work
  BY <1>4, <1>9
<1> QED BY <1>1, <1>2, <1>10, <1>11, DeliveredNoLarger

\* KeepSelect: a filter works as its child does.
LEMMA KeepSelectWorks == ASSUME IInv, WorkInv, KeepSelect PROVE WorkInv'
<1> DEFINE kept == SelectExpr(Top.expr.condition, Top.done[1])
<1>1. Ready("Select") /\ \E written : Deliver(kept, {kept}, written)
  BY DEF KeepSelect
<1>2. /\ status = "optimizing" /\ Counted(Top.done[1])
      /\ Top.done[1].work <= Top.expr.work
  BY <1>1, ChildNoLarger
<1>3. Counted(kept) /\ kept.work <= Top.expr.work
  BY <1>2, SelectCounted DEF SelectExpr
<1> HIDE DEF kept
<1> QED BY <1>1, <1>2, <1>3, DeliveredNoLarger

\* PushSelectBelowProject: neither the filter nor the projection joins.
LEMMA PushBelowProjectWorks == ASSUME IInv, WorkInv, PushSelectBelowProject PROVE WorkInv'
<1> DEFINE condition == Top.expr.condition
           project == Top.done[1]
           pushed == SelectExpr(condition, project.child)
           moved == ProjectExpr(project.columns, pushed)
<1>1. /\ Ready("Select") /\ project.kind = "Project"
      /\ Deliver(moved, {pushed, moved}, <<Rule("SelectProject")>>)
  BY DEF PushSelectBelowProject, PushesBelowProject
<1>2. /\ status = "optimizing" /\ project \in heap /\ project.work <= Top.expr.work
  BY <1>1, ChildNoLarger
<1> HIDE DEF project, condition
<1>3. project.child \in heap /\ project.work = project.child.work
  <2>1. Sound(project, heap)
    BY <1>2, HeapIsSound DEF NodesSound
  <2>2. project.child \in heap /\ project = ProjectExpr(project.columns, project.child)
    BY <1>1, <2>1, ProjectFields DEF Sound
  <2> QED BY <2>2 DEF ProjectExpr
<1>4. Counted(project.child)
  BY <1>3 DEF WorkInv
<1>5. Counted(pushed) /\ pushed.work = project.child.work
  BY <1>4, SelectCounted DEF SelectExpr
<1> HIDE DEF pushed
<1>6. Counted(moved) /\ moved.work = pushed.work
  BY <1>5, ProjectCounted DEF ProjectExpr
<1> HIDE DEF moved
<1>7. moved.work <= Top.expr.work /\ \A node \in {pushed, moved} : Counted(node)
  BY <1>2, <1>3, <1>5, <1>6
<1> QED BY <1>1, <1>2, <1>7, DeliveredNoLarger

\* PushSelectLeft: the join has fewer rows on its left, or fails sooner.
LEMMA PushLeftWorks == ASSUME IInv, WorkInv, PushSelectLeft PROVE WorkInv'
<1> DEFINE condition == Top.expr.condition
           join == Top.done[1]
           pushed == SelectExpr(condition, join.left)
           moved == JoinExpr(pushed, join.right, join.leftColumn, join.rightColumn)
<1>1. /\ Ready("Select") /\ join.kind = "Join"
      /\ Deliver(moved, {pushed, moved}, <<Rule("SelectJoinLeft")>>)
  BY DEF PushSelectLeft, PushesInto
<1>2. /\ status = "optimizing" /\ join \in heap /\ join.work <= Top.expr.work
      /\ join.work \in Nat /\ Top.expr.work \in Nat
  BY <1>1, ChildNoLarger DEF Counted
<1> HIDE DEF join, condition
<1>3. /\ Counted(join.left) /\ Counted(join.right)
      /\ join = JoinExpr(join.left, join.right, join.leftColumn, join.rightColumn)
  BY <1>1, <1>2, JoinParts
<1>4. Counted(pushed) /\ NoLarger(pushed, join.left) /\ pushed.schema = join.left.schema
  BY <1>3, SelectCounted DEF SelectExpr
<1>5. NoLarger(join.right, join.right)
  BY <1>3, NoLargerItself
<1> HIDE DEF pushed
<1>6. moved.work <= JoinExpr(join.left, join.right, join.leftColumn, join.rightColumn).work
  BY <1>3, <1>4, <1>5, JoinNoLarger
<1>7. Counted(moved)
  BY <1>3, <1>4, JoinCounted
<1> HIDE DEF moved
<1>8. moved.work <= Top.expr.work /\ \A node \in {pushed, moved} : Counted(node)
  <2>1. moved.work <= join.work
    BY <1>3, <1>6
  <2> QED BY <1>2, <1>4, <1>7, <2>1 DEF Counted
<1> QED BY <1>1, <1>2, <1>8, DeliveredNoLarger

\* PushSelectRight: the join has fewer rows on its right.
LEMMA PushRightWorks == ASSUME IInv, WorkInv, PushSelectRight PROVE WorkInv'
<1> DEFINE condition == Top.expr.condition
           join == Top.done[1]
           pushed == SelectExpr(condition, join.right)
           moved == JoinExpr(join.left, pushed, join.leftColumn, join.rightColumn)
<1>1. /\ Ready("Select") /\ join.kind = "Join"
      /\ Deliver(moved, {pushed, moved}, <<Rule("SelectJoinRight")>>)
  BY DEF PushSelectRight, PushesInto
<1>2. /\ status = "optimizing" /\ join \in heap /\ join.work <= Top.expr.work
      /\ join.work \in Nat /\ Top.expr.work \in Nat
  BY <1>1, ChildNoLarger DEF Counted
<1> HIDE DEF join, condition
<1>3. /\ Counted(join.left) /\ Counted(join.right)
      /\ join = JoinExpr(join.left, join.right, join.leftColumn, join.rightColumn)
  BY <1>1, <1>2, JoinParts
<1>4. Counted(pushed) /\ NoLarger(pushed, join.right) /\ pushed.schema = join.right.schema
  BY <1>3, SelectCounted DEF SelectExpr
<1>5. NoLarger(join.left, join.left)
  BY <1>3, NoLargerItself
<1> HIDE DEF pushed
<1>6. moved.work <= JoinExpr(join.left, join.right, join.leftColumn, join.rightColumn).work
  BY <1>3, <1>4, <1>5, JoinNoLarger
<1>7. Counted(moved)
  BY <1>3, <1>4, JoinCounted
<1> HIDE DEF moved
<1>8. moved.work <= Top.expr.work /\ \A node \in {pushed, moved} : Counted(node)
  <2>1. moved.work <= join.work
    BY <1>3, <1>6
  <2> QED BY <1>2, <1>4, <1>7, <2>1 DEF Counted
<1> QED BY <1>1, <1>2, <1>8, DeliveredNoLarger

\* KeepProject and GiveUpPruning: a projection works as its child does.
LEMMA KeptProjectWorks ==
  ASSUME IInv, WorkInv, Ready("Project"), NEW written,
         Deliver(KeptProject, {KeptProject}, written)
  PROVE  WorkInv'
<1>1. /\ status = "optimizing" /\ Counted(Top.done[1])
      /\ Top.done[1].work <= Top.expr.work
  BY ChildNoLarger
<1>2. Counted(KeptProject) /\ KeptProject.work <= Top.expr.work
  BY <1>1, ProjectCounted DEF KeptProject, ProjectExpr
<1> QED BY <1>1, <1>2, DeliveredNoLarger

\* CollapseProjects: one projection instead of two joins nothing.
LEMMA CollapseWorks == ASSUME IInv, WorkInv, CollapseProjects PROVE WorkInv'
<1> DEFINE project == Top.done[1]
           collapsed == ProjectExpr(Top.expr.columns, project.child)
<1>1. /\ Ready("Project") /\ project.kind = "Project"
      /\ Deliver(collapsed, {collapsed}, <<Rule("ProjectProject")>>)
  BY DEF CollapseProjects
<1>2. /\ status = "optimizing" /\ project \in heap /\ project.work <= Top.expr.work
  BY <1>1, ChildNoLarger
<1> HIDE DEF project
<1>3. project.child \in heap /\ project.work = project.child.work
  <2>1. Sound(project, heap)
    BY <1>2, HeapIsSound DEF NodesSound
  <2>2. project.child \in heap /\ project = ProjectExpr(project.columns, project.child)
    BY <1>1, <2>1, ProjectFields DEF Sound
  <2> QED BY <2>2 DEF ProjectExpr
<1>4. Counted(collapsed) /\ collapsed.work <= Top.expr.work
  <2>1. Counted(project.child)
    BY <1>3 DEF WorkInv
  <2> QED BY <1>2, <1>3, <2>1, ProjectCounted DEF ProjectExpr
<1> HIDE DEF collapsed
<1> QED BY <1>1, <1>2, <1>4, DeliveredNoLarger

\* What projectIfNeeded makes of an input of the join hands on the same rows.
LEMMA NarrowedNoLarger ==
  ASSUME NEW expr, Counted(expr), NEW columns
  PROVE  /\ Counted(ProjectIfNeeded(expr, columns))
         /\ NoLarger(ProjectIfNeeded(expr, columns), expr)
BY ProjectCounted, NoLargerItself DEF ProjectIfNeeded

\* PruneProject: the inputs of the join lose columns, not rows; its keys were
\* found on their sides.
LEMMA PruneProjectWorks == ASSUME IInv, WorkInv, PruneProject PROVE WorkInv'
<1> DEFINE columns == Top.expr.columns
           join == Top.done[1]
           left == ProjectIfNeeded(join.left, AppendUnique(Top.split.left, join.leftColumn))
           right == ProjectIfNeeded(join.right, AppendUnique(Top.split.right, join.rightColumn))
           pruned == JoinExpr(left, right, join.leftColumn, join.rightColumn)
           kept == ProjectExpr(columns, pruned)
           built == {left, right, pruned, kept}
<1>1. /\ Ready("Project") /\ join.kind = "Join" /\ Scanned /\ SplitFailure = {}
      /\ Deliver(kept, built, <<Rule("Pruning")>>)
  BY DEF PruneProject, Splitting
<1>2. /\ status = "optimizing" /\ join \in heap /\ join.work <= Top.expr.work
      /\ join.work \in Nat /\ Top.expr.work \in Nat
  BY <1>1, ChildNoLarger DEF Counted
<1>3. /\ LocateColumn(join.leftColumn, join.left.schema, join.right.schema) = "Left"
      /\ LocateColumn(join.rightColumn, join.left.schema, join.right.schema) = "Right"
  BY <1>1 DEF SplitFailure, Located
<1> HIDE DEF join, columns
<1>4. /\ Counted(join.left) /\ Counted(join.right)
      /\ join.left.schema \in Seq(Column) /\ join.right.schema \in Seq(Column)
      /\ join.leftColumn \in Column /\ join.rightColumn \in Column
      /\ join = JoinExpr(join.left, join.right, join.leftColumn, join.rightColumn)
  BY <1>1, <1>2, JoinParts
<1>5. /\ SequenceContains(join.left.schema, join.leftColumn)
      /\ SequenceContains(join.right.schema, join.rightColumn)
  BY <1>3, <1>4, LocatedColumn
<1>6. /\ Counted(left) /\ NoLarger(left, join.left)
      /\ Counted(right) /\ NoLarger(right, join.right)
  BY <1>4, NarrowedNoLarger
<1> HIDE DEF left, right
<1>7. pruned.work <= JoinExpr(join.left, join.right, join.leftColumn, join.rightColumn).work
  BY <1>4, <1>5, <1>6, JoinNoLarger
<1>8. Counted(pruned)
  BY <1>6, JoinCounted
<1> HIDE DEF pruned
<1>9. Counted(kept) /\ kept.work = pruned.work
  BY <1>8, ProjectCounted DEF ProjectExpr
<1> HIDE DEF kept
<1>10. kept.work <= Top.expr.work /\ \A node \in built : Counted(node)
  <2>1. pruned.work <= join.work
    BY <1>4, <1>7
  <2> QED BY <1>2, <1>6, <1>8, <1>9, <2>1 DEF Counted
<1> HIDE DEF built
<1> QED BY <1>1, <1>2, <1>10, DeliveredNoLarger

\* A call on a child has finished nothing yet.
LEMMA DescendWorks == ASSUME IInv, WorkInv, Descend PROVE WorkInv'
<1>1. PICK slot \in Slots(Top.expr) \ DOMAIN Top.done :
        stack' = Append(stack, Frame(Children(Top.expr)[slot], slot))
  BY DEF Descend
<1>2. UNCHANGED <<heap, status, root, result>>
  BY DEF Descend
<1>3. stack \in Seq(FrameType(heap))
  BY DEF IInv, TypeOK
<1> DEFINE frame == Frame(Children(Top.expr)[slot], slot)
<1>4. DOMAIN frame.done = {}
  BY DEF Frame
<1> HIDE DEF frame
<1>5. /\ DOMAIN stack' = DOMAIN stack \cup {Len(stack) + 1}
      /\ stack'[Len(stack) + 1] = frame
      /\ \A i \in DOMAIN stack : stack'[i] = stack[i]
  <2>1. stack' = Append(stack, frame)
    BY <1>1 DEF frame
  <2> QED BY <1>3, <2>1
<1>6. \A i \in DOMAIN stack' : \A s \in DOMAIN stack'[i].done :
        stack'[i].done[s].work <= Children(stack'[i].expr)[s].work
  BY <1>4, <1>5 DEF WorkInv
<1> QED BY <1>2, <1>6 DEF WorkInv, Children

\* The loop of splitProjectColumnsForJoin builds nothing.
LEMMA SplitColumnWorks == ASSUME IInv, WorkInv, SplitColumn PROVE WorkInv'
<1>1. UNCHANGED <<heap, status, root, result>>
  BY DEF SplitColumn
<1>2. PICK split : stack' = [stack EXCEPT ![Len(stack)].split = split]
  BY DEF SplitColumn
<1>3. stack \in Seq(FrameType(heap)) /\ status = "optimizing"
  BY DEF SplitColumn, Splitting, Ready, IInv, TypeOK
<1>4. /\ DOMAIN stack' = DOMAIN stack
      /\ \A i \in DOMAIN stack : /\ stack'[i].done = stack[i].done
                                 /\ stack'[i].expr = stack[i].expr
  <2>1. \A i \in DOMAIN stack :
          stack[i] = [expr |-> stack[i].expr, slot |-> stack[i].slot,
                      done |-> stack[i].done, split |-> stack[i].split]
    <3> SUFFICES ASSUME NEW frame \in FrameType(heap)
                 PROVE  frame = [expr |-> frame.expr, slot |-> frame.slot,
                                 done |-> frame.done, split |-> frame.split]
      BY <1>3
    <3> QED BY FrameTypeRecord
  <2> QED BY <1>2, <1>3, <2>1
<1> QED BY <1>1, <1>4 DEF WorkInv, Children

\* The client builds nodes of counted nodes, and asks about a node it has.
LEMMA ClientWorks == ASSUME IInv, WorkInv, Client PROVE WorkInv'
<1>1. workspace \in Seq(heap)
  BY DEF IInv, TypeOK
<1>2. workspace # <<>> => Last \in heap /\ Counted(Last)
  <2>1. workspace # <<>> => Last \in heap
    BY <1>1 DEF Last
  <2> QED BY <2>1 DEF WorkInv
<1>3. ASSUME NEW expr, Counted(expr), NEW consumed, Build(expr, consumed)
      PROVE  WorkInv'
  BY <1>3 DEF Build, WorkInv
<1>4. ASSUME NEW expr, Optimize(expr) PROVE WorkInv'
  <2>1. /\ status' = "optimizing" /\ heap' = heap /\ stack' = <<Frame(expr, 0)>>
    BY <1>4 DEF Optimize
  <2>2. DOMAIN Frame(expr, 0).done = {}
    BY DEF Frame
  <2>3. \A i \in DOMAIN stack' : DOMAIN stack'[i].done = {}
    BY <2>1, <2>2
  <2> QED BY <2>1, <2>3 DEF WorkInv
<1>5. CASE Table
  <2>1. PICK t \in Tables : Build(TableExpr(t[1], t[2]), 0)
    BY <1>5 DEF Table
  <2>2. t[1] \in TableName
    BY QueryOptimizerAssumption
  <2> QED BY <1>3, <2>1, <2>2, TableCounted
<1>6. CASE Sigma
  BY <1>2, <1>3, <1>6, SelectCounted DEF Sigma
<1>7. CASE Pi
  BY <1>2, <1>3, <1>7, ProjectCounted DEF Pi
<1>8. CASE Rho
  BY <1>2, <1>3, <1>8, RenameCounted DEF Rho
<1>9. CASE Join
  <2> DEFINE first == workspace[Len(workspace) - 1]
  <2>1. PICK keys \in JoinKeys : Build(JoinExpr(first, Last, keys[1], keys[2]), 2)
    BY <1>9 DEF Join
  <2>2. first \in heap /\ Last \in heap
    BY <1>1, <1>9 DEF Join, Last
  <2>3. Counted(first) /\ Counted(Last)
    BY <2>2 DEF WorkInv
  <2> QED BY <1>3, <2>1, <2>3, JoinCounted
<1>10. CASE OptimizeQuery \/ OptimizeAgain
  BY <1>4, <1>10 DEF OptimizeQuery, OptimizeAgain
<1> QED BY <1>5, <1>6, <1>7, <1>8, <1>9, <1>10 DEF Client

\* Every step of the specification keeps the work within bounds.
LEMMA WorkStep == ASSUME IInv, WorkInv, [Next]_vars PROVE WorkInv'
<1>1. CASE Step
  <2>1. CASE KeepProject
    BY <2>1, KeptProjectWorks DEF KeepProject
  <2>2. CASE GiveUpPruning
    BY <2>2, KeptProjectWorks DEF GiveUpPruning, Splitting
  <2> QED BY <1>1, <2>1, <2>2, DescendWorks, TableWorks, RenameWorks, JoinWorks,
             PushBelowProjectWorks, PushLeftWorks, PushRightWorks, KeepSelectWorks,
             CollapseWorks, SplitColumnWorks, PruneProjectWorks DEF Step
<1>2. CASE UNCHANGED vars
  BY <1>2 DEF vars, WorkInv, Children
<1> QED BY <1>1, <1>2, ClientWorks DEF Next

(* The rules never make a query dearer: what optimize returns compares at  *)
(* most as many pairs of rows in its joins as the query it was given, on   *)
(* files of any size, and also where one of the two fails half-way.        *)
THEOREM OptimizeNeverDearer == Spec => []JoinWorkNotIncreased
<1>1. Init => WorkInv
  BY DEF Init, WorkInv
<1>2. IInv /\ WorkInv /\ [Next]_vars => WorkInv'
  BY WorkStep
<1>3. WorkInv => JoinWorkNotIncreased
  BY DEF WorkInv, JoinWorkNotIncreased
<1> QED BY <1>1, <1>2, <1>3, SpecInvariant, PTL DEF Spec

-----------------------------------------------------------------------------
(* What SQLite has for an expression, of what it has for the parts.        *)

\* The columns a SELECT takes, by name, from some of the rows.
Chosen(columns, relation, ids) == Selected(SelectColumns(columns, "q"), relation, ids)

Asks(condition, relation) ==
  /\ ~condition.raw
  /\ SequenceContains(relation.names, condition.leftColumn)
  /\ condition.rightKind = "Column" =>
       SequenceContains(relation.names, condition.rightColumn)

RightSide(condition, relation, id) ==
  IF condition.rightKind = "Literal"
  THEN [value |-> BoundValue(SqlParameter(condition)), affinity |-> "none"]
  ELSE At(relation, id, condition.rightColumn)

Accepts(condition, relation, id) ==
  SqlCompare(condition.compareOp, At(relation, id, condition.leftColumn),
             RightSide(condition, relation, id))

Accepted(condition, relation) == {id \in DOMAIN relation.rows : Accepts(condition, relation, id)}

FilterOf(condition, schema, relation) ==
  IF relation.error = "none" /\ Asks(condition, relation)
  THEN Chosen(schema, relation, Accepted(condition, relation))
  ELSE Unprepared

ColumnsOf(columns, relation) == Chosen(columns, relation, DOMAIN relation.rows)

JoinText(left, right, leftColumn, rightColumn) ==
  [select |-> SelectColumns(left, "l") \o SelectColumns(right, "r"),
   left |-> leftColumn, right |-> rightColumn]

JoinOf(left, right, leftColumn, rightColumn, l, r) ==
  Joined(JoinText(left, right, leftColumn, rightColumn), l, r)

TableOf(name, schema) ==
  LET source == FindIn(Bindings, name, "SQLite") IN
  IF source = <<>> \/ source[1].physicalName \notin DOMAIN Database
  THEN Unprepared
  ELSE TableAnswer(Database[source[1].physicalName], PhysicalColumns(schema))

\* m has the relation of each of the nodes.
Means(m, nodes) ==
  \A e \in nodes :
    /\ e.kind = "Table" => m[e] = TableOf(e.name, e.schema)
    /\ e.kind = "Select" => m[e] = FilterOf(e.condition, e.schema, m[e.child])
    /\ e.kind = "Project" => m[e] = ColumnsOf(e.columns, m[e.child])
    /\ e.kind = "Rename" => m[e] = ColumnsOf(e.schema, m[e.child])
    /\ e.kind = "Join" => m[e] = JoinOf(e.left.schema, e.right.schema, e.leftColumn,
                                        e.rightColumn, m[e.left], m[e.right])

\* A relation of an expression with the schema.
Announced(relation, schema) ==
  \/ relation = Unprepared
  \/ relation.error = "none" /\ relation.names = schema /\ schema # <<>>

\* Two relations that show the same under each of the names.
Sees(a, b, columns, ids) ==
  \A k \in DOMAIN columns :
    /\ SequenceContains(a.names, columns[k]) /\ SequenceContains(b.names, columns[k])
    /\ AffinityOf(a, columns[k]) = AffinityOf(b, columns[k])
    /\ \A id \in ids : At(a, id, columns[k]) = At(b, id, columns[k])

\* Two relations a SELECT from them cannot tell apart.
Alike(a, b) ==
  \/ a = b
  \/ /\ a.error = "none" /\ b.error = "none"
     /\ a.names = b.names /\ DOMAIN a.rows = DOMAIN b.rows
     /\ Sees(a, b, a.names, DOMAIN a.rows)

\* The fields of a relation that was prepared.
LEMMA FieldsOfRelation ==
  ASSUME NEW names, NEW affinities, NEW rows
  PROVE  LET relation == Relation(names, affinities, rows) IN
         /\ relation.error = "none" /\ relation.names = names
         /\ relation.affinities = affinities /\ relation.rows = rows
BY DEF Relation

\* The error of sqlite3_prepare.
LEMMA ErrorOfUnprepared == Unprepared.error = "prepare"
BY DEF Unprepared

\* A sequence has no item exactly if it is empty.
LEMMA EmptyColumns ==
  ASSUME NEW columns \in Seq(Column), NEW side
  PROVE  SelectColumns(columns, side) = <<>> <=> columns = <<>>
<1> DEFINE none == <<>>
           selected == SelectColumns(columns, side)
<1>1. none = [k \in {} |-> none[k]] /\ DOMAIN none = {}
  OBVIOUS
<1>2. columns = [k \in DOMAIN columns |-> columns[k]]
  OBVIOUS
<1>3. selected = [k \in DOMAIN columns |-> selected[k]] /\ DOMAIN selected = DOMAIN columns
  BY DEF SelectColumns
<1> HIDE DEF none, selected
<1>4. ASSUME DOMAIN columns = {} PROVE selected = none /\ columns = none
  BY <1>1, <1>2, <1>3, <1>4
<1>5. selected = none => DOMAIN columns = {}
  BY <1>1, <1>3
<1>6. columns = none => DOMAIN columns = {}
  BY <1>1
<1> QED BY <1>4, <1>5, <1>6 DEF none, selected

\* What a SELECT gives, if it can be prepared.
CanChoose(columns, relation) ==
  /\ relation.error = "none" /\ columns # <<>>
  /\ \A k \in DOMAIN columns : SequenceContains(relation.names, columns[k])

\* The names, affinities and cells of a SELECT.
LEMMA ChosenIs ==
  ASSUME NEW columns \in Seq(Column), NEW relation, NEW ids
  PROVE  LET r == Chosen(columns, relation, ids) IN
         /\ ~CanChoose(columns, relation) => r = Unprepared
         /\ CanChoose(columns, relation) =>
              r = Relation(columns, [k \in DOMAIN columns |-> AffinityOf(relation, columns[k])],
                           [id \in ids |->
                              [k \in DOMAIN columns |-> At(relation, id, columns[k]).value]])
<1> DEFINE items == SelectColumns(columns, "q")
           bad == \/ relation.error # "none" \/ items = <<>>
                  \/ \E k \in DOMAIN items : ~Names(relation, items[k].source)
           names == [k \in DOMAIN items |-> items[k].as]
           affinities == [k \in DOMAIN items |-> AffinityOf(relation, items[k].source)]
           rows == [id \in ids |->
                      [k \in DOMAIN items |-> At(relation, id, items[k].source).value]]
<1>1. Chosen(columns, relation, ids)
        = IF bad THEN Unprepared ELSE Relation(names, affinities, rows)
  BY DEF Chosen, Selected
<1>2. DOMAIN items = DOMAIN columns
      /\ \A k \in DOMAIN columns : items[k].as = columns[k] /\ items[k].source = columns[k]
  BY DEF SelectColumns
<1>3. items = <<>> <=> columns = <<>>
  BY EmptyColumns
<1>4. columns = [k \in DOMAIN columns |-> columns[k]]
  OBVIOUS
<1> HIDE DEF items
<1>5. bad <=> ~CanChoose(columns, relation)
  BY <1>2, <1>3 DEF CanChoose, Names
<1>6. names = columns
  <2>1. names = [k \in DOMAIN columns |-> columns[k]]
    BY <1>2
  <2> QED BY <1>4, <2>1
<1>7. /\ affinities = [k \in DOMAIN columns |-> AffinityOf(relation, columns[k])]
      /\ rows = [id \in ids |-> [k \in DOMAIN columns |-> At(relation, id, columns[k]).value]]
  BY <1>2
<1> HIDE DEF bad, names, affinities, rows
<1> QED BY <1>1, <1>5, <1>6, <1>7

\* A SELECT shows under each name what the relation has there.
LEMMA ChosenShows ==
  ASSUME NEW columns \in Seq(Column), NEW relation, NEW ids, CanChoose(columns, relation)
  PROVE  LET r == Chosen(columns, relation, ids) IN
         /\ r.error = "none" /\ r.names = columns /\ DOMAIN r.rows = ids
         /\ Sees(r, relation, columns, ids)
<1> DEFINE r == Chosen(columns, relation, ids)
           affinities == [k \in DOMAIN columns |-> AffinityOf(relation, columns[k])]
           rows == [id \in ids |-> [k \in DOMAIN columns |-> At(relation, id, columns[k]).value]]
<1>1. r = Relation(columns, affinities, rows)
  BY ChosenIs
<1>2. /\ r.error = "none" /\ r.names = columns
      /\ r.affinities = affinities /\ r.rows = rows
  BY <1>1, FieldsOfRelation
<1>3. ASSUME NEW k \in DOMAIN columns
      PROVE  /\ SequenceContains(r.names, columns[k])
             /\ AffinityOf(r, columns[k]) = AffinityOf(relation, columns[k])
             /\ \A id \in ids : At(r, id, columns[k]) = At(relation, id, columns[k])
  <2> DEFINE j == ColumnIndex(columns, columns[k])
  <2>1. SequenceContains(columns, columns[k])
    BY ContainsIsPosition
  <2>2. j \in DOMAIN columns /\ columns[j] = columns[k]
    BY <2>1, ColumnIndexFound
  <2> HIDE DEF j, r
  <2>3. r.affinities[j] = AffinityOf(relation, columns[k])
    BY <1>2, <2>2
  <2>4. \A id \in ids : r.rows[id][j] = At(relation, id, columns[k]).value
    BY <1>2, <2>2
  <2>5. AffinityOf(r, columns[k]) = r.affinities[j]
    BY <1>2 DEF AffinityOf, j
  <2>6. \A id \in ids : At(r, id, columns[k]) = [value |-> r.rows[id][j], affinity |-> r.affinities[j]]
    BY <1>2 DEF At, j
  <2>7. \A id \in ids : At(relation, id, columns[k])
          = [value |-> At(relation, id, columns[k]).value, affinity |-> AffinityOf(relation, columns[k])]
    BY DEF At, AffinityOf
  <2> QED BY <1>2, <2>1, <2>3, <2>4, <2>5, <2>6, <2>7
<1>4. DOMAIN rows = ids
  OBVIOUS
<1> HIDE DEF r, rows, affinities
<1>5. r.error = "none" /\ r.names = columns /\ DOMAIN r.rows = ids
  BY <1>2, <1>4
<1>6. \A k \in DOMAIN columns : SequenceContains(relation.names, columns[k])
  BY DEF CanChoose
<1>7. Sees(r, relation, columns, ids)
  BY <1>3, <1>6 DEF Sees
<1> QED BY <1>5, <1>7 DEF r

\* The same SELECT from relations that show the same.
LEMMA ChosenSame ==
  ASSUME NEW columns \in Seq(Column), NEW a, NEW b, a.error = "none", b.error = "none", NEW ids,
         Sees(a, b, columns, ids)
  PROVE  Chosen(columns, a, ids) = Chosen(columns, b, ids)
<1> DEFINE affinities(r) == [k \in DOMAIN columns |-> AffinityOf(r, columns[k])]
           rows(r) == [id \in ids |-> [k \in DOMAIN columns |-> At(r, id, columns[k]).value]]
<1>1. affinities(a) = affinities(b) /\ rows(a) = rows(b)
  BY DEF Sees
<1>2. CanChoose(columns, a) <=> CanChoose(columns, b)
  BY DEF Sees, CanChoose
<1>3. /\ ~CanChoose(columns, a) => Chosen(columns, a, ids) = Unprepared
      /\ CanChoose(columns, a) => Chosen(columns, a, ids) = Relation(columns, affinities(a), rows(a))
  BY ChosenIs
<1>4. /\ ~CanChoose(columns, b) => Chosen(columns, b, ids) = Unprepared
      /\ CanChoose(columns, b) => Chosen(columns, b, ids) = Relation(columns, affinities(b), rows(b))
  BY ChosenIs
<1> HIDE DEF affinities, rows
<1> QED BY <1>1, <1>2, <1>3, <1>4

\* What one relation shows of another, of fewer columns and rows.
LEMMA SeesLess ==
  ASSUME NEW a, NEW b, NEW columns, NEW ids, Sees(a, b, columns, ids),
         NEW fewer, AllColumnsIncluded(fewer, columns), NEW some, some \subseteq ids
  PROVE  Sees(a, b, fewer, some)
<1> SUFFICES ASSUME NEW k \in DOMAIN fewer
             PROVE  /\ SequenceContains(a.names, fewer[k]) /\ SequenceContains(b.names, fewer[k])
                    /\ AffinityOf(a, fewer[k]) = AffinityOf(b, fewer[k])
                    /\ \A id \in some : At(a, id, fewer[k]) = At(b, id, fewer[k])
  BY DEF Sees
<1>1. PICK j \in DOMAIN columns : columns[j] = fewer[k]
  BY ContainsIsPosition DEF AllColumnsIncluded
<1> QED BY <1>1 DEF Sees

\* The same, of one column.
LEMMA SeesColumn ==
  ASSUME NEW a, NEW b, NEW columns, NEW ids, Sees(a, b, columns, ids),
         NEW column, SequenceContains(columns, column)
  PROVE  /\ SequenceContains(a.names, column) /\ SequenceContains(b.names, column)
         /\ AffinityOf(a, column) = AffinityOf(b, column)
         /\ \A id \in ids : At(a, id, column) = At(b, id, column)
<1>1. PICK j \in DOMAIN columns : columns[j] = column
  BY ContainsIsPosition
<1> QED BY <1>1 DEF Sees

\* Showing the same is transitive.
LEMMA SeesThrough ==
  ASSUME NEW a, NEW b, NEW c, NEW columns, NEW ids,
         Sees(a, b, columns, ids), Sees(b, c, columns, ids)
  PROVE  Sees(a, c, columns, ids)
BY DEF Sees

\* Showing the same is symmetric.
LEMMA SeesBack ==
  ASSUME NEW a, NEW b, NEW columns, NEW ids, Sees(a, b, columns, ids)
  PROVE  Sees(b, a, columns, ids)
BY DEF Sees

\* The columns of a condition.
Mentions(columns, condition) ==
  /\ SequenceContains(columns, condition.leftColumn)
  /\ condition.rightKind = "Column" => SequenceContains(columns, condition.rightColumn)

\* A condition holds of the rows it held of if its columns show the same.
LEMMA AcceptsSame ==
  ASSUME NEW condition, NEW a, NEW b, NEW columns, NEW ids, Sees(a, b, columns, ids),
         Mentions(columns, condition), condition.rightKind \in {"Column", "Literal"}
  PROVE  /\ Mentions(a.names, condition) /\ Mentions(b.names, condition)
         /\ \A id \in ids : Accepts(condition, a, id) <=> Accepts(condition, b, id)
<1>1. /\ SequenceContains(a.names, condition.leftColumn)
      /\ SequenceContains(b.names, condition.leftColumn)
      /\ \A id \in ids : At(a, id, condition.leftColumn) = At(b, id, condition.leftColumn)
  BY SeesColumn DEF Mentions
<1>2. condition.rightKind = "Column" =>
        /\ SequenceContains(a.names, condition.rightColumn)
        /\ SequenceContains(b.names, condition.rightColumn)
        /\ \A id \in ids : At(a, id, condition.rightColumn) = At(b, id, condition.rightColumn)
  BY SeesColumn DEF Mentions
<1>3. CASE condition.rightKind = "Column"
  BY <1>1, <1>2, <1>3 DEF Mentions, Accepts, RightSide
<1>4. CASE condition.rightKind = "Literal"
  BY <1>1, <1>4 DEF Mentions, Accepts, RightSide
<1> QED BY <1>3, <1>4

\* A filter of what shows the same gives the same.
LEMMA FilterSame ==
  ASSUME NEW condition, condition.rightKind \in {"Column", "Literal"},
         NEW schema \in Seq(Column), NEW a, NEW b, a.error = "none", b.error = "none",
         a.names = b.names, DOMAIN a.rows = DOMAIN b.rows,
         Sees(a, b, a.names, DOMAIN a.rows), AllColumnsIncluded(schema, a.names)
  PROVE  FilterOf(condition, schema, a) = FilterOf(condition, schema, b)
<1>1. Asks(condition, a) <=> Asks(condition, b)
  BY DEF Asks
<1>2. ASSUME Asks(condition, a)
      PROVE  Chosen(schema, a, Accepted(condition, a)) = Chosen(schema, b, Accepted(condition, b))
  <2>1. Mentions(a.names, condition)
    BY <1>2 DEF Asks, Mentions
  <2>2. \A id \in DOMAIN a.rows : Accepts(condition, a, id) <=> Accepts(condition, b, id)
    BY <2>1, AcceptsSame
  <2>3. Accepted(condition, a) = Accepted(condition, b) /\ Accepted(condition, a) \subseteq DOMAIN a.rows
    BY <2>2 DEF Accepted
  <2>4. Sees(a, b, schema, Accepted(condition, a))
    BY <2>3, SeesLess
  <2> QED BY <2>3, <2>4, ChosenSame
<1> QED BY <1>1, <1>2 DEF FilterOf

\* A column list has its own columns.
LEMMA IncludedItself ==
  ASSUME NEW columns
  PROVE  AllColumnsIncluded(columns, columns)
BY ContainsIsPosition DEF AllColumnsIncluded

\* A filter gives the same for relations no SELECT can tell apart.
LEMMA FilterAlike ==
  ASSUME NEW condition, condition.rightKind \in {"Column", "Literal"},
         NEW schema \in Seq(Column), NEW a, NEW b, Alike(a, b), Announced(a, schema)
  PROVE  FilterOf(condition, schema, a) = FilterOf(condition, schema, b)
<1>1. CASE a = b
  BY <1>1
<1>2. CASE a # b
  <2>1. /\ a.error = "none" /\ b.error = "none"
        /\ a.names = b.names /\ DOMAIN a.rows = DOMAIN b.rows
        /\ Sees(a, b, a.names, DOMAIN a.rows)
    BY <1>2 DEF Alike
  <2>2. a.names = schema
    BY <2>1, ErrorOfUnprepared DEF Announced
  <2>3. AllColumnsIncluded(schema, a.names)
    BY <2>2, IncludedItself
  <2> QED BY <2>1, <2>3, FilterSame
<1> QED BY <1>1, <1>2

\* So does a SELECT of columns that were announced.
LEMMA ColumnsAlike ==
  ASSUME NEW columns \in Seq(Column), NEW schema, AllColumnsIncluded(columns, schema),
         NEW a, NEW b, Alike(a, b), Announced(a, schema)
  PROVE  ColumnsOf(columns, a) = ColumnsOf(columns, b)
<1>1. CASE a = b
  BY <1>1
<1>2. CASE a # b
  <2>1. /\ a.error = "none" /\ b.error = "none"
        /\ a.names = b.names /\ DOMAIN a.rows = DOMAIN b.rows
        /\ Sees(a, b, a.names, DOMAIN a.rows)
    BY <1>2 DEF Alike
  <2>2. a.names = schema
    BY <2>1, ErrorOfUnprepared DEF Announced
  <2>3. Sees(a, b, columns, DOMAIN a.rows)
    BY <2>1, <2>2, SeesLess
  <2> QED BY <2>1, <2>3, ChosenSame DEF ColumnsOf
<1> QED BY <1>1, <1>2

-----------------------------------------------------------------------------
\* What a join gives, if it can be prepared.
CanJoin(left, right, leftColumn, rightColumn, l, r) ==
  /\ l.error = "none" /\ r.error = "none"
  /\ SequenceContains(l.names, leftColumn) /\ SequenceContains(r.names, rightColumn)
  /\ AllColumnsIncluded(left, l.names) /\ AllColumnsIncluded(right, r.names)

Matched(leftColumn, rightColumn, l, r) ==
  {pair \in (DOMAIN l.rows) \X (DOMAIN r.rows) :
     SqlCompare("Equal", At(l, pair[1], leftColumn), At(r, pair[2], rightColumn))}

\* The items of the SELECT of a join.
LEMMA JoinItems ==
  ASSUME NEW left \in Seq(Column), NEW right \in Seq(Column)
  PROVE  LET items == SelectColumns(left, "l") \o SelectColumns(right, "r")
             both == left \o right
         IN  /\ DOMAIN items = DOMAIN both
             /\ \A k \in DOMAIN both : items[k].as = both[k] /\ items[k].source = both[k]
             /\ \A k \in DOMAIN left : k \in DOMAIN both /\ both[k] = left[k] /\ items[k].side = "l"
             /\ \A k \in DOMAIN right : /\ Len(left) + k \in DOMAIN both
                                        /\ both[Len(left) + k] = right[k]
                                        /\ items[Len(left) + k].side = "r"
             /\ \A k \in DOMAIN both : k \in DOMAIN left \/ \E j \in DOMAIN right : k = Len(left) + j
<1> DEFINE ls == SelectColumns(left, "l")
           rs == SelectColumns(right, "r")
           Item == [side : {"l", "r"}, source : Column, as : Column]
<1>1. /\ DOMAIN ls = DOMAIN left
      /\ \A k \in DOMAIN left : ls[k] \in Item /\ ls[k].as = left[k] /\ ls[k].source = left[k] /\ ls[k].side = "l"
  BY DEF SelectColumns
<1>2. /\ DOMAIN rs = DOMAIN right
      /\ \A k \in DOMAIN right : rs[k] \in Item /\ rs[k].as = right[k] /\ rs[k].source = right[k] /\ rs[k].side = "r"
  BY DEF SelectColumns
<1>3. ls \in Seq(Item) /\ Len(ls) = Len(left)
  <2>1. ls \in [1..Len(left) -> Item]
    BY <1>1 DEF SelectColumns
  <2> HIDE DEF ls, Item
  <2> QED BY <2>1, SeqDef, LenProperties
<1>4. rs \in Seq(Item) /\ Len(rs) = Len(right)
  <2>1. rs \in [1..Len(right) -> Item]
    BY <1>2 DEF SelectColumns
  <2> HIDE DEF rs, Item
  <2> QED BY <2>1, SeqDef, LenProperties
<1> HIDE DEF ls, rs, Item
<1>5. /\ DOMAIN (ls \o rs) = 1..(Len(left) + Len(right))
      /\ \A k \in 1..Len(left) : (ls \o rs)[k] = ls[k]
      /\ \A k \in 1..Len(right) : (ls \o rs)[Len(left) + k] = rs[k]
  BY <1>3, <1>4
<1>6. /\ DOMAIN (left \o right) = 1..(Len(left) + Len(right))
      /\ \A k \in 1..Len(left) : (left \o right)[k] = left[k]
      /\ \A k \in 1..Len(right) : (left \o right)[Len(left) + k] = right[k]
  OBVIOUS
<1>7. /\ DOMAIN left = 1..Len(left) /\ DOMAIN right = 1..Len(right)
      /\ Len(left) \in Nat /\ Len(right) \in Nat
  OBVIOUS
<1>8. ASSUME NEW k \in 1..(Len(left) + Len(right))
      PROVE  k \in 1..Len(left) \/ \E j \in 1..Len(right) : k = Len(left) + j
  <2>1. CASE k > Len(left)
    <3>1. k - Len(left) \in 1..Len(right) /\ k = Len(left) + (k - Len(left))
      BY <1>7, <2>1
    <3> QED BY <3>1
  <2> QED BY <1>7, <2>1
<1>9. ASSUME NEW k \in DOMAIN (left \o right)
      PROVE  (ls \o rs)[k].as = (left \o right)[k] /\ (ls \o rs)[k].source = (left \o right)[k]
  <2>1. k \in 1..Len(left) \/ \E j \in 1..Len(right) : k = Len(left) + j
    BY <1>6, <1>8
  <2> QED BY <1>1, <1>2, <1>5, <1>6, <1>7, <2>1
<1>10. \A k \in 1..Len(right) : Len(left) + k \in 1..(Len(left) + Len(right))
  BY <1>7
<1>11. \A k \in 1..Len(left) : k \in 1..(Len(left) + Len(right))
  BY <1>7
<1>12. \A k \in DOMAIN left : /\ k \in DOMAIN (left \o right) /\ (left \o right)[k] = left[k]
                              /\ (ls \o rs)[k].side = "l"
  BY <1>1, <1>5, <1>6, <1>7, <1>11
<1>13. \A k \in DOMAIN right : /\ Len(left) + k \in DOMAIN (left \o right)
                               /\ (left \o right)[Len(left) + k] = right[k]
                               /\ (ls \o rs)[Len(left) + k].side = "r"
  BY <1>2, <1>5, <1>6, <1>7, <1>10
<1>14. \A k \in DOMAIN (left \o right) : k \in DOMAIN left \/ \E j \in DOMAIN right : k = Len(left) + j
  BY <1>6, <1>7, <1>8
<1>15. DOMAIN (ls \o rs) = DOMAIN (left \o right)
  BY <1>5, <1>6
<1> QED BY <1>9, <1>12, <1>13, <1>14, <1>15 DEF ls, rs

\* The input a column of a join comes from, and its row there.
SideOf(left, k, l, r) == IF k \in DOMAIN left THEN l ELSE r
RowOf(left, k, pair) == IF k \in DOMAIN left THEN pair[1] ELSE pair[2]

JoinRelation(left, right, leftColumn, rightColumn, l, r) ==
  Relation(left \o right,
           [k \in DOMAIN (left \o right) |-> AffinityOf(SideOf(left, k, l, r), (left \o right)[k])],
           [pair \in Matched(leftColumn, rightColumn, l, r) |->
              [k \in DOMAIN (left \o right) |->
                 At(SideOf(left, k, l, r), RowOf(left, k, pair), (left \o right)[k]).value]])

\* The names, affinities, rows and cells of a join.
LEMMA JoinedIs ==
  ASSUME NEW left \in Seq(Column), NEW right \in Seq(Column),
         NEW leftColumn, NEW rightColumn, NEW l, NEW r,
         {l.error, r.error} \subseteq {"none", "prepare"}
  PROVE  LET join == JoinOf(left, right, leftColumn, rightColumn, l, r) IN
         /\ ~CanJoin(left, right, leftColumn, rightColumn, l, r) => join = Unprepared
         /\ CanJoin(left, right, leftColumn, rightColumn, l, r)
              => join = JoinRelation(left, right, leftColumn, rightColumn, l, r)
<1> DEFINE items == SelectColumns(left, "l") \o SelectColumns(right, "r")
           both == left \o right
           text == JoinText(left, right, leftColumn, rightColumn)
           side(k) == IF items[k].side = "l" THEN l ELSE r
           row(pair, k) == IF items[k].side = "l" THEN pair[1] ELSE pair[2]
           bad == \/ "prepare" \in {l.error, r.error} \/ ~Names(l, leftColumn) \/ ~Names(r, rightColumn)
                  \/ \E k \in DOMAIN items : ~Names(side(k), items[k].source)
           names == [k \in DOMAIN items |-> items[k].as]
           affinities == [k \in DOMAIN items |-> AffinityOf(side(k), items[k].source)]
           pairs == Matched(leftColumn, rightColumn, l, r)
           rows == [pair \in pairs |->
                      [k \in DOMAIN items |-> At(side(k), row(pair, k), items[k].source).value]]
<1>1. text.select = items /\ text.left = leftColumn /\ text.right = rightColumn
  BY DEF JoinText
<1>2. Matches(text, l, r) = pairs
  BY <1>1 DEF Matches, Matched
<1> HIDE DEF text, pairs
<1>3. JoinOf(left, right, leftColumn, rightColumn, l, r)
        = IF bad THEN Unprepared ELSE Relation(names, affinities, rows)
  <2> HIDE DEF items
  <2>1. JoinOf(left, right, leftColumn, rightColumn, l, r) = Joined(text, l, r)
    BY DEF JoinOf, text
  <2> QED BY <1>1, <1>2, <2>1 DEF Joined
<1>4. /\ DOMAIN items = DOMAIN both
      /\ \A k \in DOMAIN both : items[k].as = both[k] /\ items[k].source = both[k]
      /\ \A k \in DOMAIN left : k \in DOMAIN both /\ both[k] = left[k] /\ items[k].side = "l"
      /\ \A k \in DOMAIN right : /\ Len(left) + k \in DOMAIN both
                                 /\ both[Len(left) + k] = right[k]
                                 /\ items[Len(left) + k].side = "r"
      /\ \A k \in DOMAIN both : k \in DOMAIN left \/ \E j \in DOMAIN right : k = Len(left) + j
  BY ONLY left \in Seq(Column), right \in Seq(Column), JoinItems, SMTT(60)
<1>5. \A j \in DOMAIN right : Len(left) + j \notin DOMAIN left
  OBVIOUS
<1>6. \A k \in DOMAIN both : side(k) = SideOf(left, k, l, r)
                             /\ \A pair : row(pair, k) = RowOf(left, k, pair)
  <2> SUFFICES ASSUME NEW k \in DOMAIN both
               PROVE  items[k].side = "l" <=> k \in DOMAIN left
    BY DEF SideOf, RowOf
  <2> HIDE DEF items, both
  <2>1. CASE k \in DOMAIN left
    BY <1>4, <2>1
  <2>2. CASE k \notin DOMAIN left
    <3>1. PICK j \in DOMAIN right : k = Len(left) + j
      BY <1>4, <2>2
    <3> QED BY <1>4, <2>2, <3>1
  <2> QED BY <2>1, <2>2
<1> HIDE DEF items, side, row
<1>7. (\E k \in DOMAIN items : ~Names(side(k), items[k].source))
        <=> ~(AllColumnsIncluded(left, l.names) /\ AllColumnsIncluded(right, r.names))
  <2> HIDE DEF both
  <2>1. ASSUME NEW k \in DOMAIN items, ~Names(side(k), items[k].source)
        PROVE  ~(AllColumnsIncluded(left, l.names) /\ AllColumnsIncluded(right, r.names))
    <3>1. CASE k \in DOMAIN left
      BY <1>4, <1>6, <2>1, <3>1 DEF SideOf, Names, AllColumnsIncluded
    <3>2. CASE k \notin DOMAIN left
      <4>1. PICK j \in DOMAIN right : k = Len(left) + j
        BY <1>4, <2>1, <3>2
      <4> QED BY <1>4, <1>6, <2>1, <3>2, <4>1 DEF SideOf, Names, AllColumnsIncluded
    <3> QED BY <3>1, <3>2
  <2>2. ASSUME ~AllColumnsIncluded(left, l.names)
        PROVE  \E k \in DOMAIN items : ~Names(side(k), items[k].source)
    BY <1>4, <1>6, <2>2 DEF SideOf, Names, AllColumnsIncluded
  <2>3. ASSUME ~AllColumnsIncluded(right, r.names)
        PROVE  \E k \in DOMAIN items : ~Names(side(k), items[k].source)
    <3>1. PICK j \in DOMAIN right : ~SequenceContains(r.names, right[j])
      BY <2>3 DEF AllColumnsIncluded
    <3>2. Len(left) + j \in DOMAIN both /\ both[Len(left) + j] = right[j] /\ Len(left) + j \notin DOMAIN left
      BY <1>4, <1>5
    <3> QED BY <1>4, <1>6, <3>1, <3>2 DEF SideOf, Names
  <2> QED BY <2>1, <2>2, <2>3
<1>8. bad <=> ~CanJoin(left, right, leftColumn, rightColumn, l, r)
  <2>1. "prepare" \in {l.error, r.error} <=> ~(l.error = "none" /\ r.error = "none")
    OBVIOUS
  <2> QED BY <1>7, <2>1 DEF CanJoin, Names
<1>9. names = both
  <2>1. names = [k \in DOMAIN both |-> both[k]]
    BY <1>4
  <2>2. both \in Seq(Column)
    OBVIOUS
  <2> HIDE DEF both
  <2> QED BY <2>1, <2>2
<1>10. /\ affinities = [k \in DOMAIN both |-> AffinityOf(SideOf(left, k, l, r), both[k])]
       /\ rows = [pair \in pairs |-> [k \in DOMAIN both |->
                    At(SideOf(left, k, l, r), RowOf(left, k, pair), both[k]).value]]
  <2> HIDE DEF both
  <2> QED BY <1>4, <1>6
<1>11. JoinRelation(left, right, leftColumn, rightColumn, l, r) = Relation(names, affinities, rows)
  <2> HIDE DEF names, affinities, rows
  <2> QED BY <1>9, <1>10 DEF JoinRelation, pairs
<1> HIDE DEF bad, names, affinities, rows
<1> QED BY <1>3, <1>8, <1>11

\* Every column of one side is found there, unless the left side has the name too.
LEMMA JoinShows ==
  ASSUME NEW left \in Seq(Column), NEW right \in Seq(Column),
         NEW leftColumn, NEW rightColumn, NEW l, NEW r,
         CanJoin(left, right, leftColumn, rightColumn, l, r)
  PROVE  LET join == JoinOf(left, right, leftColumn, rightColumn, l, r) IN
         /\ join.error = "none" /\ join.names = left \o right
         /\ DOMAIN join.rows = Matched(leftColumn, rightColumn, l, r)
         /\ \A column : SequenceContains(left, column) =>
              /\ AffinityOf(join, column) = AffinityOf(l, column)
              /\ \A pair \in DOMAIN join.rows : At(join, pair, column) = At(l, pair[1], column)
         /\ \A column : ~SequenceContains(left, column) /\ SequenceContains(right, column) =>
              /\ AffinityOf(join, column) = AffinityOf(r, column)
              /\ \A pair \in DOMAIN join.rows : At(join, pair, column) = At(r, pair[2], column)
<1> DEFINE join == JoinOf(left, right, leftColumn, rightColumn, l, r)
           both == left \o right
           pairs == Matched(leftColumn, rightColumn, l, r)
           affinities == [k \in DOMAIN both |-> AffinityOf(SideOf(left, k, l, r), both[k])]
           rows == [pair \in pairs |-> [k \in DOMAIN both |->
                      At(SideOf(left, k, l, r), RowOf(left, k, pair), both[k]).value]]
<1>1. join = Relation(both, affinities, rows)
  BY JoinedIs DEF CanJoin, JoinRelation
<1>2. join.error = "none" /\ join.names = both /\ join.affinities = affinities /\ join.rows = rows
  <2> HIDE DEF join, both, affinities, rows
  <2> QED BY <1>1, FieldsOfRelation
<1>3. DOMAIN rows = pairs
  OBVIOUS
<1> HIDE DEF join, pairs
<1>4. ASSUME NEW column, NEW j, j = ColumnIndex(both, column), j \in DOMAIN both, both[j] = column
      PROVE  /\ AffinityOf(join, column) = AffinityOf(SideOf(left, j, l, r), column)
             /\ \A pair \in pairs : At(join, pair, column)
                  = At(SideOf(left, j, l, r), RowOf(left, j, pair), column)
  <2>1. AffinityOf(join, column) = affinities[j]
    BY <1>2, <1>4 DEF AffinityOf
  <2>2. affinities[j] = AffinityOf(SideOf(left, j, l, r), column)
    BY <1>4
  <2>3. \A pair \in pairs : rows[pair][j] = At(SideOf(left, j, l, r), RowOf(left, j, pair), column).value
    BY <1>4
  <2>4. \A pair : At(join, pair, column) = [value |-> rows[pair][j], affinity |-> affinities[j]]
    <3> HIDE DEF both, affinities, rows
    <3> QED BY <1>2, <1>4 DEF At
  <2>5. \A s, id : At(s, id, column)
          = [value |-> At(s, id, column).value, affinity |-> AffinityOf(s, column)]
    BY DEF At, AffinityOf
  <2> HIDE DEF rows, affinities, both
  <2> QED BY <2>1, <2>2, <2>3, <2>4, <2>5
<1>5. ASSUME NEW column, SequenceContains(left, column)
      PROVE  /\ AffinityOf(join, column) = AffinityOf(l, column)
             /\ \A pair \in pairs : At(join, pair, column) = At(l, pair[1], column)
  <2> DEFINE j == ColumnIndex(both, column)
  <2>1. j = ColumnIndex(left, column)
    BY <1>5, ConcatColumns
  <2>2. j \in DOMAIN left /\ left[j] = column
    BY <1>5, <2>1, ColumnIndexFound
  <2>3. j \in DOMAIN both /\ both[j] = column
    BY <2>2
  <2> HIDE DEF j
  <2>4. /\ AffinityOf(join, column) = AffinityOf(SideOf(left, j, l, r), column)
        /\ \A pair \in pairs : At(join, pair, column)
             = At(SideOf(left, j, l, r), RowOf(left, j, pair), column)
    BY <1>4, <2>3 DEF j
  <2>5. SideOf(left, j, l, r) = l /\ \A pair : RowOf(left, j, pair) = pair[1]
    BY <2>2 DEF SideOf, RowOf
  <2> QED BY <2>4, <2>5
<1>6. ASSUME NEW column, ~SequenceContains(left, column), SequenceContains(right, column)
      PROVE  /\ AffinityOf(join, column) = AffinityOf(r, column)
             /\ \A pair \in pairs : At(join, pair, column) = At(r, pair[2], column)
  <2> DEFINE j == ColumnIndex(both, column)
             i == ColumnIndex(right, column)
  <2>1. j = Len(left) + i
    BY <1>6, ConcatColumns
  <2>2. i \in DOMAIN right /\ right[i] = column
    BY <1>6, ColumnIndexFound
  <2> HIDE DEF j, i
  <2>3. j \in DOMAIN both /\ both[j] = column /\ j \notin DOMAIN left
    BY <2>1, <2>2
  <2>4. /\ AffinityOf(join, column) = AffinityOf(SideOf(left, j, l, r), column)
        /\ \A pair \in pairs : At(join, pair, column)
             = At(SideOf(left, j, l, r), RowOf(left, j, pair), column)
    BY <1>4, <2>3 DEF j
  <2>5. SideOf(left, j, l, r) = r /\ \A pair : RowOf(left, j, pair) = pair[2]
    BY <2>3 DEF SideOf, RowOf
  <2> QED BY <2>4, <2>5
<1> HIDE DEF rows, affinities
<1>7. DOMAIN join.rows = pairs
  BY <1>2, <1>3
<1> QED BY <1>2, <1>5, <1>6, <1>7 DEF join, pairs

\* What is known of a relation announced with a schema.
LEMMA AnnouncedIs ==
  ASSUME NEW relation, NEW schema, Announced(relation, schema)
  PROVE  /\ relation.error \in {"none", "prepare"}
         /\ relation.error = "prepare" => relation = Unprepared
         /\ relation.error = "none" => relation.names = schema /\ schema # <<>>
BY ErrorOfUnprepared DEF Announced

\* Two relations of one expression that no SELECT tells apart.
LEMMA AlikeSees ==
  ASSUME NEW a, NEW b, NEW schema, Alike(a, b), Announced(a, schema), a.error = "none"
  PROVE  /\ b.error = "none" /\ a.names = schema /\ b.names = schema
         /\ DOMAIN a.rows = DOMAIN b.rows /\ Sees(a, b, schema, DOMAIN a.rows)
<1>1. a.names = schema
  BY AnnouncedIs
<1>2. CASE a = b
  <2>1. Sees(a, a, schema, DOMAIN a.rows)
    BY <1>1, ContainsIsPosition DEF Sees
  <2> QED BY <1>1, <1>2, <2>1
<1>3. CASE a # b
  BY <1>1, <1>3 DEF Alike
<1> QED BY <1>2, <1>3

\* A relation that failed is told from every other.
LEMMA AlikeFails ==
  ASSUME NEW a, NEW b, Alike(a, b), a.error # "none"
  PROVE  a = b
BY DEF Alike

\* Joins of what shows the same match the same rows.
LEMMA MatchedSame ==
  ASSUME NEW l, NEW r, NEW l2, NEW r2, NEW leftColumn, NEW rightColumn,
         NEW left, NEW right, SequenceContains(left, leftColumn), SequenceContains(right, rightColumn),
         DOMAIN l.rows = DOMAIN l2.rows, DOMAIN r.rows = DOMAIN r2.rows,
         Sees(l, l2, left, DOMAIN l.rows), Sees(r, r2, right, DOMAIN r.rows)
  PROVE  Matched(leftColumn, rightColumn, l, r) = Matched(leftColumn, rightColumn, l2, r2)
<1>1. \A id \in DOMAIN l.rows : At(l, id, leftColumn) = At(l2, id, leftColumn)
  BY SeesColumn
<1>2. \A id \in DOMAIN r.rows : At(r, id, rightColumn) = At(r2, id, rightColumn)
  BY SeesColumn
<1> QED BY <1>1, <1>2 DEF Matched

\* A join gives the same for inputs no SELECT can tell apart.
LEMMA JoinAlike ==
  ASSUME NEW left \in Seq(Column), NEW right \in Seq(Column), NEW leftColumn, NEW rightColumn,
         NEW l, NEW r, NEW l2, NEW r2, Alike(l, l2), Alike(r, r2),
         Announced(l, left), Announced(r, right)
  PROVE  JoinOf(left, right, leftColumn, rightColumn, l, r)
           = JoinOf(left, right, leftColumn, rightColumn, l2, r2)
<1>1. {l.error, r.error} \subseteq {"none", "prepare"}
  BY AnnouncedIs
<1>2. l2.error = l.error /\ r2.error = r.error
  BY DEF Alike
<1>3. CASE l.error # "none" \/ r.error # "none"
  BY <1>1, <1>2, <1>3, JoinedIs DEF CanJoin
<1>4. CASE l.error = "none" /\ r.error = "none"
  <2>1. /\ l.names = left /\ l2.names = left
        /\ DOMAIN l.rows = DOMAIN l2.rows /\ Sees(l, l2, left, DOMAIN l.rows)
    BY <1>4, AlikeSees
  <2>2. /\ r.names = right /\ r2.names = right
        /\ DOMAIN r.rows = DOMAIN r2.rows /\ Sees(r, r2, right, DOMAIN r.rows)
    BY <1>4, AlikeSees
  <2>3. CASE ~CanJoin(left, right, leftColumn, rightColumn, l, r)
    <3>1. ~CanJoin(left, right, leftColumn, rightColumn, l2, r2)
      BY <1>2, <2>1, <2>2, <2>3 DEF CanJoin
    <3> QED BY <1>1, <1>2, <2>3, <3>1, JoinedIs
  <2>4. CASE CanJoin(left, right, leftColumn, rightColumn, l, r)
    <3> DEFINE both == left \o right
    <3>1. CanJoin(left, right, leftColumn, rightColumn, l2, r2)
      BY <1>2, <2>1, <2>2, <2>4 DEF CanJoin
    <3>2. Matched(leftColumn, rightColumn, l, r) = Matched(leftColumn, rightColumn, l2, r2)
      BY <2>1, <2>2, <2>4, MatchedSame DEF CanJoin
    <3>3. \A k \in DOMAIN both : k \in DOMAIN left \/ \E j \in DOMAIN right : k = Len(left) + j
      BY ONLY left \in Seq(Column), right \in Seq(Column), JoinItems, SMTT(60)
    <3>4. ASSUME NEW k \in DOMAIN both
          PROVE  /\ AffinityOf(SideOf(left, k, l, r), both[k]) = AffinityOf(SideOf(left, k, l2, r2), both[k])
                 /\ \A pair \in Matched(leftColumn, rightColumn, l, r) :
                      At(SideOf(left, k, l, r), RowOf(left, k, pair), both[k])
                        = At(SideOf(left, k, l2, r2), RowOf(left, k, pair), both[k])
      <4>1. \A pair \in Matched(leftColumn, rightColumn, l, r) :
              pair[1] \in DOMAIN l.rows /\ pair[2] \in DOMAIN r.rows
        BY DEF Matched
      <4>2. CASE k \in DOMAIN left
        <5>1. both[k] = left[k]
          BY <4>2
        <5> QED BY <2>1, <4>1, <4>2, <5>1 DEF Sees, SideOf, RowOf
      <4>3. CASE k \notin DOMAIN left
        <5>1. PICK j \in DOMAIN right : k = Len(left) + j
          BY <3>3, <4>3
        <5>2. both[k] = right[j]
          BY <5>1
        <5> QED BY <2>2, <4>1, <4>3, <5>1, <5>2 DEF Sees, SideOf, RowOf
      <4> QED BY <4>2, <4>3
    <3>5. JoinRelation(left, right, leftColumn, rightColumn, l, r)
            = JoinRelation(left, right, leftColumn, rightColumn, l2, r2)
      <4> HIDE DEF both
      <4>1. [k \in DOMAIN both |-> AffinityOf(SideOf(left, k, l, r), both[k])]
              = [k \in DOMAIN both |-> AffinityOf(SideOf(left, k, l2, r2), both[k])]
        BY <3>4
      <4>2. [pair \in Matched(leftColumn, rightColumn, l, r) |-> [k \in DOMAIN both |->
               At(SideOf(left, k, l, r), RowOf(left, k, pair), both[k]).value]]
              = [pair \in Matched(leftColumn, rightColumn, l2, r2) |-> [k \in DOMAIN both |->
                   At(SideOf(left, k, l2, r2), RowOf(left, k, pair), both[k]).value]]
        BY <3>2, <3>4
      <4> QED BY <4>1, <4>2 DEF JoinRelation, both
    <3> QED BY <1>1, <1>2, <2>4, <3>1, <3>5, JoinedIs
  <2> QED BY <2>3, <2>4
<1> QED BY <1>3, <1>4

-----------------------------------------------------------------------------
(* The rules.                                                              *)

\* A filter of a list of columns, and the list of the filter.
LEMMA FilterOfColumns ==
  ASSUME NEW condition, condition.rightKind \in {"Column", "Literal"}, ~condition.raw,
         NEW columns \in Seq(Column), Mentions(columns, condition),
         NEW schema \in Seq(Column), AllColumnsIncluded(columns, schema),
         NEW a, Announced(a, schema)
  PROVE  FilterOf(condition, columns, ColumnsOf(columns, a))
           = ColumnsOf(columns, FilterOf(condition, schema, a))
<1> DEFINE c == ColumnsOf(columns, a)
           f == FilterOf(condition, schema, a)
           kept == Accepted(condition, a)
<1>0. ~CanChoose(columns, Unprepared)
  BY ErrorOfUnprepared DEF CanChoose
<1>1. CASE a.error # "none"
  <2>1. c = Unprepared
    BY <1>1, ChosenIs DEF CanChoose, ColumnsOf
  <2>2. f = Unprepared
    BY <1>1 DEF FilterOf
  <2>3. FilterOf(condition, columns, c) = Unprepared
    BY <2>1, ErrorOfUnprepared DEF FilterOf
  <2>4. ColumnsOf(columns, f) = Unprepared
    BY <1>0, <2>2, ChosenIs DEF ColumnsOf
  <2> QED BY <2>3, <2>4
<1>2. CASE a.error = "none"
  <2>1. a.names = schema
    BY <1>2, AnnouncedIs
  <2>2. columns # <<>> /\ schema # <<>>
    <3>1. \E k \in DOMAIN columns : TRUE
      BY ContainsIsPosition DEF Mentions
    <3>2. \E k \in DOMAIN schema : TRUE
      BY <3>1, ContainsIsPosition DEF AllColumnsIncluded
    <3> QED BY <3>1, <3>2
  <2>3. CanChoose(columns, a)
    BY <1>2, <2>1, <2>2 DEF CanChoose, AllColumnsIncluded
  <2>4. CanChoose(schema, a)
    BY <1>2, <2>1, <2>2, ContainsIsPosition DEF CanChoose
  <2>5. /\ c.error = "none" /\ c.names = columns /\ DOMAIN c.rows = DOMAIN a.rows
        /\ Sees(c, a, columns, DOMAIN a.rows)
    BY <2>3, ChosenShows DEF ColumnsOf
  <2>6. /\ Mentions(a.names, condition)
        /\ \A id \in DOMAIN a.rows : Accepts(condition, c, id) <=> Accepts(condition, a, id)
    BY <2>5, AcceptsSame
  <2>7. Asks(condition, a) /\ Asks(condition, c)
    BY <2>5, <2>6 DEF Mentions, Asks
  <2>8. Accepted(condition, c) = kept /\ kept \subseteq DOMAIN a.rows
    BY <2>5, <2>6 DEF Accepted
  <2>9. FilterOf(condition, columns, c) = Chosen(columns, c, kept)
    BY <2>5, <2>7, <2>8 DEF FilterOf
  <2>10. /\ f.error = "none" /\ f.names = schema /\ DOMAIN f.rows = kept
         /\ Sees(f, a, schema, kept)
    BY <1>2, <2>4, <2>7, ChosenShows DEF FilterOf
  <2>11. ColumnsOf(columns, f) = Chosen(columns, f, kept)
    BY <2>10 DEF ColumnsOf
  <2>12. Sees(c, a, columns, kept) /\ Sees(f, a, columns, kept)
    BY <2>5, <2>8, <2>10, SeesLess, IncludedItself
  <2> HIDE DEF c, f
  <2>13. Chosen(columns, c, kept) = Chosen(columns, a, kept)
    BY <1>2, <2>5, <2>12, ChosenSame
  <2>14. Chosen(columns, f, kept) = Chosen(columns, a, kept)
    BY <1>2, <2>10, <2>12, ChosenSame
  <2> QED BY <2>9, <2>11, <2>13, <2>14 DEF c, f
<1> QED BY <1>1, <1>2

\* A list of columns of a list of columns.
LEMMA ColumnsOfColumns ==
  ASSUME NEW outer \in Seq(Column), NEW inner \in Seq(Column), AllColumnsIncluded(outer, inner),
         NEW schema \in Seq(Column), AllColumnsIncluded(inner, schema),
         NEW a, Announced(a, schema)
  PROVE  ColumnsOf(outer, ColumnsOf(inner, a)) = ColumnsOf(outer, a)
<1> DEFINE c == ColumnsOf(inner, a)
<1>0. ~CanChoose(outer, Unprepared)
  BY ErrorOfUnprepared DEF CanChoose
<1>1. CASE a.error # "none" \/ inner = <<>> \/ outer = <<>>
  <2>1. a.error # "none" \/ outer = <<>>
    <3>1. inner = <<>> => \A k \in DOMAIN outer : FALSE
      BY ContainsIsPosition DEF AllColumnsIncluded
    <3>2. (\A k \in DOMAIN outer : FALSE) => outer = <<>>
      <4>1. Len(outer) \in Nat /\ DOMAIN outer = 1..Len(outer)
        OBVIOUS
      <4>2. Len(outer) # 0 => 1 \in DOMAIN outer
        BY <4>1
      <4>3. Len(outer) = 0 => outer = <<>>
        OBVIOUS
      <4> QED BY <4>2, <4>3
    <3> QED BY <1>1, <3>1, <3>2
  <2>2. ColumnsOf(outer, a) = Unprepared
    BY <2>1, ChosenIs DEF CanChoose, ColumnsOf
  <2>3. a.error # "none" => c = Unprepared
    BY ChosenIs DEF CanChoose, ColumnsOf
  <2>4. ~CanChoose(outer, c)
    BY <1>0, <2>1, <2>3 DEF CanChoose
  <2> QED BY <2>2, <2>4, ChosenIs DEF ColumnsOf
<1>2. CASE a.error = "none" /\ inner # <<>>
  <2>1. CanChoose(inner, a)
    BY <1>2, AnnouncedIs DEF CanChoose, AllColumnsIncluded
  <2>2. /\ c.error = "none" /\ DOMAIN c.rows = DOMAIN a.rows
        /\ Sees(c, a, inner, DOMAIN a.rows)
    BY <2>1, ChosenShows DEF ColumnsOf
  <2> HIDE DEF c
  <2>3. Sees(c, a, outer, DOMAIN a.rows)
    BY <2>2, SeesLess
  <2> QED BY <1>2, <2>2, <2>3, ChosenSame DEF ColumnsOf, c
<1> QED BY <1>1, <1>2

\* The same under the name in every row of the first.
ShowsSame(a, b, column) ==
  /\ AffinityOf(a, column) = AffinityOf(b, column)
  /\ \A id \in DOMAIN a.rows : At(a, id, column) = At(b, id, column)

\* A column two joins take from the same side of inputs that show the same.
SameInJoins(column, left, right, l, r, left2, right2, l2, r2) ==
  \/ /\ SequenceContains(left, column) /\ SequenceContains(left2, column)
     /\ ShowsSame(l2, l, column)
  \/ /\ ~SequenceContains(left, column) /\ ~SequenceContains(left2, column)
     /\ SequenceContains(right, column) /\ SequenceContains(right2, column)
     /\ ShowsSame(r2, r, column)

\* Two joins of inputs that show the same show the same.
LEMMA JoinsShowSame ==
  ASSUME NEW left \in Seq(Column), NEW right \in Seq(Column),
         NEW left2 \in Seq(Column), NEW right2 \in Seq(Column),
         NEW leftColumn, NEW rightColumn, NEW l, NEW r, NEW l2, NEW r2,
         CanJoin(left, right, leftColumn, rightColumn, l, r),
         CanJoin(left2, right2, leftColumn, rightColumn, l2, r2),
         NEW ids, ids \subseteq Matched(leftColumn, rightColumn, l, r),
         ids \subseteq Matched(leftColumn, rightColumn, l2, r2),
         NEW columns,
         \A k \in DOMAIN columns : SameInJoins(columns[k], left, right, l, r, left2, right2, l2, r2)
  PROVE  Sees(JoinOf(left2, right2, leftColumn, rightColumn, l2, r2),
              JoinOf(left, right, leftColumn, rightColumn, l, r), columns, ids)
<1> DEFINE j == JoinOf(left, right, leftColumn, rightColumn, l, r)
           j2 == JoinOf(left2, right2, leftColumn, rightColumn, l2, r2)
<1>1. /\ j.names = left \o right /\ DOMAIN j.rows = Matched(leftColumn, rightColumn, l, r)
      /\ \A column : SequenceContains(left, column) =>
           /\ AffinityOf(j, column) = AffinityOf(l, column)
           /\ \A pair \in DOMAIN j.rows : At(j, pair, column) = At(l, pair[1], column)
      /\ \A column : ~SequenceContains(left, column) /\ SequenceContains(right, column) =>
           /\ AffinityOf(j, column) = AffinityOf(r, column)
           /\ \A pair \in DOMAIN j.rows : At(j, pair, column) = At(r, pair[2], column)
  BY JoinShows
<1>2. /\ j2.names = left2 \o right2 /\ DOMAIN j2.rows = Matched(leftColumn, rightColumn, l2, r2)
      /\ \A column : SequenceContains(left2, column) =>
           /\ AffinityOf(j2, column) = AffinityOf(l2, column)
           /\ \A pair \in DOMAIN j2.rows : At(j2, pair, column) = At(l2, pair[1], column)
      /\ \A column : ~SequenceContains(left2, column) /\ SequenceContains(right2, column) =>
           /\ AffinityOf(j2, column) = AffinityOf(r2, column)
           /\ \A pair \in DOMAIN j2.rows : At(j2, pair, column) = At(r2, pair[2], column)
  BY JoinShows
<1>3. \A pair \in ids : /\ pair[1] \in DOMAIN l2.rows /\ pair[2] \in DOMAIN r2.rows
                        /\ pair \in DOMAIN j.rows /\ pair \in DOMAIN j2.rows
  BY <1>1, <1>2 DEF Matched
<1> HIDE DEF j, j2
<1>4. ASSUME NEW k \in DOMAIN columns
      PROVE  /\ SequenceContains(j2.names, columns[k]) /\ SequenceContains(j.names, columns[k])
             /\ AffinityOf(j2, columns[k]) = AffinityOf(j, columns[k])
             /\ \A id \in ids : At(j2, id, columns[k]) = At(j, id, columns[k])
  <2> DEFINE column == columns[k]
  <2>1. SameInJoins(column, left, right, l, r, left2, right2, l2, r2)
    OBVIOUS
  <2> HIDE DEF column
  <2>2. SequenceContains(j2.names, column) /\ SequenceContains(j.names, column)
    BY <1>1, <1>2, <2>1, ConcatColumns DEF SameInJoins
  <2>3. CASE /\ SequenceContains(left, column) /\ SequenceContains(left2, column)
             /\ ShowsSame(l2, l, column)
    BY <1>1, <1>2, <1>3, <2>2, <2>3 DEF ShowsSame, column
  <2>4. CASE /\ ~SequenceContains(left, column) /\ ~SequenceContains(left2, column)
             /\ SequenceContains(right, column) /\ SequenceContains(right2, column)
             /\ ShowsSame(r2, r, column)
    BY <1>1, <1>2, <1>3, <2>2, <2>4 DEF ShowsSame, column
  <2> QED BY <2>1, <2>3, <2>4 DEF SameInJoins
<1> QED BY <1>4 DEF Sees, j, j2

\* A filter finds its columns, and keeps the rows it accepts.
LEMMA FilterShows ==
  ASSUME NEW condition, ~condition.raw, NEW schema \in Seq(Column), Mentions(schema, condition),
         NEW a, a.error = "none", a.names = schema
  PROVE  LET f == FilterOf(condition, schema, a) IN
         /\ f.error = "none" /\ f.names = schema /\ DOMAIN f.rows = Accepted(condition, a)
         /\ Sees(f, a, schema, Accepted(condition, a))
<1>1. schema # <<>> /\ Asks(condition, a)
  BY ContainsIsPosition DEF Mentions, Asks
<1>2. CanChoose(schema, a)
  BY <1>1, ContainsIsPosition DEF CanChoose
<1> QED BY <1>1, <1>2, ChosenShows DEF FilterOf

\* A filter fails if its input does.
LEMMA FilterFails ==
  ASSUME NEW condition, NEW schema, NEW a, a.error # "none"
  PROVE  FilterOf(condition, schema, a) = Unprepared
BY DEF FilterOf

\* A column of the left input alone: the filter of the join, and the join of the filter.
LEMMA FilterIntoLeft ==
  ASSUME NEW condition, condition.rightKind \in {"Column", "Literal"}, ~condition.raw,
         NEW left \in Seq(Column), NEW right \in Seq(Column), Mentions(left, condition),
         NEW leftColumn, NEW rightColumn,
         NEW l, NEW r, Announced(l, left), Announced(r, right)
  PROVE  Alike(FilterOf(condition, left \o right,
                        JoinOf(left, right, leftColumn, rightColumn, l, r)),
               JoinOf(left, right, leftColumn, rightColumn, FilterOf(condition, left, l), r))
<1> DEFINE both == left \o right
           j == JoinOf(left, right, leftColumn, rightColumn, l, r)
           f == FilterOf(condition, left, l)
           n == JoinOf(left, right, leftColumn, rightColumn, f, r)
           kept == Accepted(condition, j)
<1>0. {l.error, r.error} \subseteq {"none", "prepare"} /\ Unprepared.error = "prepare"
  BY AnnouncedIs, ErrorOfUnprepared
<1>1. CASE ~CanJoin(left, right, leftColumn, rightColumn, l, r)
  <2>1. FilterOf(condition, both, j) = Unprepared
    BY <1>0, <1>1, JoinedIs, FilterFails
  <2>2. CASE l.error # "none"
    <3>1. f = Unprepared
      BY <2>2, FilterFails
    <3> HIDE DEF f
    <3>2. n = Unprepared
      BY <1>0, <3>1, JoinedIs DEF CanJoin
    <3> QED BY <2>1, <3>2 DEF Alike, f
  <2>3. CASE l.error = "none"
    <3>1. f.error = "none" /\ f.names = left /\ l.names = left
      BY <2>3, AnnouncedIs, FilterShows
    <3> HIDE DEF f
    <3>2. ~CanJoin(left, right, leftColumn, rightColumn, f, r)
      BY <1>1, <2>3, <3>1 DEF CanJoin
    <3>3. n = Unprepared
      BY <1>0, <3>1, <3>2, JoinedIs
    <3> QED BY <2>1, <3>3 DEF Alike, f
  <2> QED BY <2>2, <2>3
<1>2. CASE CanJoin(left, right, leftColumn, rightColumn, l, r)
  <2>1. /\ l.error = "none" /\ l.names = left /\ r.error = "none" /\ r.names = right
        /\ SequenceContains(left, leftColumn) /\ SequenceContains(right, rightColumn)
    BY <1>2, AnnouncedIs DEF CanJoin
  <2>2. /\ f.error = "none" /\ f.names = left /\ DOMAIN f.rows = Accepted(condition, l)
        /\ Sees(f, l, left, Accepted(condition, l))
    BY <2>1, FilterShows
  <2>3. /\ j.error = "none" /\ j.names = both /\ DOMAIN j.rows = Matched(leftColumn, rightColumn, l, r)
        /\ \A column : SequenceContains(left, column) =>
             \A pair \in DOMAIN j.rows : At(j, pair, column) = At(l, pair[1], column)
    BY <1>2, JoinShows
  <2>4. both \in Seq(Column) /\ Mentions(both, condition)
    BY ConcatColumns DEF Mentions
  <2> HIDE DEF f, j, both
  <2>5. \A pair \in DOMAIN j.rows : Accepts(condition, j, pair) <=> Accepts(condition, l, pair[1])
    BY <2>3 DEF Mentions, Accepts, RightSide
  <2>6. CanJoin(left, right, leftColumn, rightColumn, f, r)
    BY <1>2, <2>1, <2>2 DEF CanJoin
  <2>7. n.error = "none" /\ n.names = both /\ DOMAIN n.rows = Matched(leftColumn, rightColumn, f, r)
    BY <2>6, JoinShows DEF both
  <2>8. \A id \in DOMAIN f.rows : id \in DOMAIN l.rows /\ At(f, id, leftColumn) = At(l, id, leftColumn)
    BY <2>1, <2>2, SeesColumn DEF Accepted
  <2>9. Matched(leftColumn, rightColumn, f, r) = kept
    <3>1. ASSUME NEW pair \in Matched(leftColumn, rightColumn, f, r) PROVE pair \in kept
      <4>1. /\ pair \in (DOMAIN f.rows) \X (DOMAIN r.rows)
            /\ SqlCompare("Equal", At(f, pair[1], leftColumn), At(r, pair[2], rightColumn))
        BY DEF Matched
      <4>2. pair \in DOMAIN j.rows
        BY <2>3, <2>8, <4>1 DEF Matched
      <4>3. Accepts(condition, l, pair[1])
        BY <2>2, <4>1 DEF Accepted
      <4> QED BY <2>5, <4>2, <4>3 DEF Accepted
    <3>2. ASSUME NEW pair \in kept PROVE pair \in Matched(leftColumn, rightColumn, f, r)
      <4>1. pair \in DOMAIN j.rows /\ Accepts(condition, l, pair[1])
        BY <2>5 DEF Accepted
      <4>2. /\ pair \in (DOMAIN l.rows) \X (DOMAIN r.rows)
            /\ SqlCompare("Equal", At(l, pair[1], leftColumn), At(r, pair[2], rightColumn))
        BY <2>3, <4>1 DEF Matched
      <4>3. pair[1] \in DOMAIN f.rows
        BY <2>2, <4>1, <4>2 DEF Accepted
      <4> QED BY <2>8, <4>2, <4>3 DEF Matched
    <3> QED BY <3>1, <3>2
  <2>10. LET g == FilterOf(condition, both, j) IN
         g.error = "none" /\ g.names = both /\ DOMAIN g.rows = kept /\ Sees(g, j, both, kept)
    BY <2>3, <2>4, FilterShows
  <2>11. Sees(n, j, both, kept)
    <3>1. kept \subseteq Matched(leftColumn, rightColumn, l, r)
      BY <2>3 DEF Accepted
    <3>2. ASSUME NEW k \in DOMAIN both
          PROVE  SameInJoins(both[k], left, right, l, r, left, right, f, r)
      <4>1. SequenceContains(left, both[k]) \/ SequenceContains(right, both[k])
        BY <2>4, ContainsIsPosition, ConcatColumns DEF both
      <4>2. SequenceContains(left, both[k]) => ShowsSame(f, l, both[k])
        BY <2>2, SeesColumn DEF ShowsSame
      <4> QED BY <4>1, <4>2 DEF SameInJoins, ShowsSame
    <3> QED BY <1>2, <2>6, <2>9, <3>1, <3>2, JoinsShowSame DEF j
  <2>12. Sees(FilterOf(condition, both, j), n, both, kept)
    BY <2>10, <2>11, SeesBack, SeesThrough
  <2> QED BY <2>7, <2>9, <2>10, <2>12 DEF Alike, f, j, both
<1> QED BY <1>1, <1>2

\* Columns of the right input that the left one does not have: the filter of the join, and the join of the filter.
LEMMA FilterIntoRight ==
  ASSUME NEW condition, condition.rightKind \in {"Column", "Literal"}, ~condition.raw,
         NEW left \in Seq(Column), NEW right \in Seq(Column), Mentions(right, condition),
         ~SequenceContains(left, condition.leftColumn),
         condition.rightKind = "Column" => ~SequenceContains(left, condition.rightColumn),
         NEW leftColumn, NEW rightColumn,
         NEW l, NEW r, Announced(l, left), Announced(r, right)
  PROVE  Alike(FilterOf(condition, left \o right,
                        JoinOf(left, right, leftColumn, rightColumn, l, r)),
               JoinOf(left, right, leftColumn, rightColumn, l, FilterOf(condition, right, r)))
<1> DEFINE both == left \o right
           j == JoinOf(left, right, leftColumn, rightColumn, l, r)
           f == FilterOf(condition, right, r)
           n == JoinOf(left, right, leftColumn, rightColumn, l, f)
           kept == Accepted(condition, j)
<1>0. {l.error, r.error} \subseteq {"none", "prepare"} /\ Unprepared.error = "prepare"
  BY AnnouncedIs, ErrorOfUnprepared
<1>1. CASE ~CanJoin(left, right, leftColumn, rightColumn, l, r)
  <2>1. FilterOf(condition, both, j) = Unprepared
    BY <1>0, <1>1, JoinedIs, FilterFails
  <2>2. CASE r.error # "none"
    <3>1. f = Unprepared
      BY <2>2, FilterFails
    <3> HIDE DEF f
    <3>2. n = Unprepared
      BY <1>0, <3>1, JoinedIs DEF CanJoin
    <3> QED BY <2>1, <3>2 DEF Alike, f
  <2>3. CASE r.error = "none"
    <3>1. f.error = "none" /\ f.names = right /\ r.names = right
      BY <2>3, AnnouncedIs, FilterShows
    <3> HIDE DEF f
    <3>2. ~CanJoin(left, right, leftColumn, rightColumn, l, f)
      BY <1>1, <2>3, <3>1 DEF CanJoin
    <3>3. n = Unprepared
      BY <1>0, <3>1, <3>2, JoinedIs
    <3> QED BY <2>1, <3>3 DEF Alike, f
  <2> QED BY <2>2, <2>3
<1>2. CASE CanJoin(left, right, leftColumn, rightColumn, l, r)
  <2>1. /\ l.error = "none" /\ l.names = left /\ r.error = "none" /\ r.names = right
        /\ SequenceContains(left, leftColumn) /\ SequenceContains(right, rightColumn)
    BY <1>2, AnnouncedIs DEF CanJoin
  <2>2. /\ f.error = "none" /\ f.names = right /\ DOMAIN f.rows = Accepted(condition, r)
        /\ Sees(f, r, right, Accepted(condition, r))
    BY <2>1, FilterShows
  <2>3. /\ j.error = "none" /\ j.names = both /\ DOMAIN j.rows = Matched(leftColumn, rightColumn, l, r)
        /\ \A column : ~SequenceContains(left, column) /\ SequenceContains(right, column) =>
             \A pair \in DOMAIN j.rows : At(j, pair, column) = At(r, pair[2], column)
    BY <1>2, JoinShows
  <2>4. both \in Seq(Column) /\ Mentions(both, condition)
    BY ConcatColumns DEF Mentions
  <2> HIDE DEF f, j, both
  <2>5. \A pair \in DOMAIN j.rows : Accepts(condition, j, pair) <=> Accepts(condition, r, pair[2])
    BY <2>3 DEF Mentions, Accepts, RightSide
  <2>6. CanJoin(left, right, leftColumn, rightColumn, l, f)
    BY <1>2, <2>1, <2>2 DEF CanJoin
  <2>7. n.error = "none" /\ n.names = both /\ DOMAIN n.rows = Matched(leftColumn, rightColumn, l, f)
    BY <2>6, JoinShows DEF both
  <2>8. \A id \in DOMAIN f.rows : id \in DOMAIN r.rows /\ At(f, id, rightColumn) = At(r, id, rightColumn)
    BY <2>1, <2>2, SeesColumn DEF Accepted
  <2>9. Matched(leftColumn, rightColumn, l, f) = kept
    <3>1. ASSUME NEW pair \in Matched(leftColumn, rightColumn, l, f) PROVE pair \in kept
      <4>1. /\ pair \in (DOMAIN l.rows) \X (DOMAIN f.rows)
            /\ SqlCompare("Equal", At(l, pair[1], leftColumn), At(f, pair[2], rightColumn))
        BY DEF Matched
      <4>2. pair \in DOMAIN j.rows
        BY <2>3, <2>8, <4>1 DEF Matched
      <4>3. Accepts(condition, r, pair[2])
        BY <2>2, <4>1 DEF Accepted
      <4> QED BY <2>5, <4>2, <4>3 DEF Accepted
    <3>2. ASSUME NEW pair \in kept PROVE pair \in Matched(leftColumn, rightColumn, l, f)
      <4>1. pair \in DOMAIN j.rows /\ Accepts(condition, r, pair[2])
        BY <2>5 DEF Accepted
      <4>2. /\ pair \in (DOMAIN l.rows) \X (DOMAIN r.rows)
            /\ SqlCompare("Equal", At(l, pair[1], leftColumn), At(r, pair[2], rightColumn))
        BY <2>3, <4>1 DEF Matched
      <4>3. pair[2] \in DOMAIN f.rows
        BY <2>2, <4>1, <4>2 DEF Accepted
      <4> QED BY <2>8, <4>2, <4>3 DEF Matched
    <3> QED BY <3>1, <3>2
  <2>10. LET g == FilterOf(condition, both, j) IN
         g.error = "none" /\ g.names = both /\ DOMAIN g.rows = kept /\ Sees(g, j, both, kept)
    BY <2>3, <2>4, FilterShows
  <2>11. Sees(n, j, both, kept)
    <3>1. kept \subseteq Matched(leftColumn, rightColumn, l, r)
      BY <2>3 DEF Accepted
    <3>2. ASSUME NEW k \in DOMAIN both
          PROVE  SameInJoins(both[k], left, right, l, r, left, right, l, f)
      <4>1. SequenceContains(left, both[k]) \/ SequenceContains(right, both[k])
        BY <2>4, ContainsIsPosition, ConcatColumns DEF both
      <4>2. SequenceContains(right, both[k]) => ShowsSame(f, r, both[k])
        BY <2>2, SeesColumn DEF ShowsSame
      <4> QED BY <4>1, <4>2 DEF SameInJoins, ShowsSame
    <3> QED BY <1>2, <2>6, <2>9, <3>1, <3>2, JoinsShowSame DEF j
  <2>12. Sees(FilterOf(condition, both, j), n, both, kept)
    BY <2>10, <2>11, SeesBack, SeesThrough
  <2> QED BY <2>7, <2>9, <2>10, <2>12 DEF Alike, f, j, both
<1> QED BY <1>1, <1>2

\* An input of a join as it was, or with fewer of its columns.
Narrower(l2, left2, l, left) ==
  /\ AllColumnsIncluded(left2, left)
  /\ l.error # "none" => l2 = Unprepared
  /\ l.error = "none" => /\ l2.error = "none" /\ l2.names = left2
                         /\ DOMAIN l2.rows = DOMAIN l.rows
                         /\ Sees(l2, l, left2, DOMAIN l.rows)

\* An input that is not narrowed is itself.
LEMMA NarrowerItself ==
  ASSUME NEW l, NEW left, Announced(l, left)
  PROVE  Narrower(l, left, l, left)
BY AnnouncedIs, IncludedItself, ContainsIsPosition DEF Narrower, Sees

\* An input narrowed to some columns shows them.
LEMMA NarrowerByColumns ==
  ASSUME NEW left, NEW l, Announced(l, left),
         NEW list \in Seq(Column), list # <<>>, AllColumnsIncluded(list, left)
  PROVE  Narrower(ColumnsOf(list, l), list, l, left)
<1>1. CASE l.error # "none"
  BY <1>1, ChosenIs DEF CanChoose, ColumnsOf, Narrower
<1>2. CASE l.error = "none"
  <2>1. CanChoose(list, l)
    BY <1>2, AnnouncedIs DEF CanChoose, AllColumnsIncluded
  <2> QED BY <1>2, <2>1, ChosenShows DEF ColumnsOf, Narrower
<1> QED BY <1>1, <1>2

\* A list of columns of a join, and of the join of narrower inputs.
LEMMA ColumnsOfNarrower ==
  ASSUME NEW left \in Seq(Column), NEW right \in Seq(Column),
         NEW left2 \in Seq(Column), NEW right2 \in Seq(Column),
         NEW leftColumn, NEW rightColumn, NEW l, NEW r, NEW l2, NEW r2,
         Announced(l, left), Announced(r, right),
         Narrower(l2, left2, l, left), Narrower(r2, right2, r, right),
         SequenceContains(left2, leftColumn), SequenceContains(right2, rightColumn),
         NEW columns \in Seq(Column),
         \A k \in DOMAIN columns :
           \/ SequenceContains(left2, columns[k])
           \/ SequenceContains(right2, columns[k]) /\ ~SequenceContains(left, columns[k])
  PROVE  ColumnsOf(columns, JoinOf(left2, right2, leftColumn, rightColumn, l2, r2))
           = ColumnsOf(columns, JoinOf(left, right, leftColumn, rightColumn, l, r))
<1> DEFINE j == JoinOf(left, right, leftColumn, rightColumn, l, r)
           j2 == JoinOf(left2, right2, leftColumn, rightColumn, l2, r2)
           pairs == Matched(leftColumn, rightColumn, l, r)
<1>0. /\ {l.error, r.error} \subseteq {"none", "prepare"} /\ Unprepared.error = "prepare"
      /\ {l2.error, r2.error} \subseteq {"none", "prepare"}
  BY AnnouncedIs, ErrorOfUnprepared DEF Narrower
<1>1. CASE l.error # "none" \/ r.error # "none"
  <2>1. l2.error # "none" \/ r2.error # "none"
    BY <1>0, <1>1 DEF Narrower
  <2>2. j = Unprepared /\ j2 = Unprepared
    BY <1>0, <1>1, <2>1, JoinedIs DEF CanJoin
  <2> QED BY <2>2
<1>2. CASE l.error = "none" /\ r.error = "none"
  <2>1. /\ l.names = left /\ r.names = right
        /\ l2.error = "none" /\ l2.names = left2 /\ DOMAIN l2.rows = DOMAIN l.rows
        /\ Sees(l2, l, left2, DOMAIN l.rows)
        /\ r2.error = "none" /\ r2.names = right2 /\ DOMAIN r2.rows = DOMAIN r.rows
        /\ Sees(r2, r, right2, DOMAIN r.rows)
    BY <1>2, AnnouncedIs DEF Narrower
  <2>2. /\ SequenceContains(left, leftColumn) /\ SequenceContains(right, rightColumn)
        /\ \A column : SequenceContains(left2, column) => SequenceContains(left, column)
        /\ \A column : SequenceContains(right2, column) => SequenceContains(right, column)
    BY IncludedColumns DEF Narrower
  <2>3. CanJoin(left, right, leftColumn, rightColumn, l, r)
    BY <1>2, <2>1, <2>2, IncludedItself DEF CanJoin
  <2>4. CanJoin(left2, right2, leftColumn, rightColumn, l2, r2)
    BY <2>1, IncludedItself DEF CanJoin
  <2>5. pairs = Matched(leftColumn, rightColumn, l2, r2)
    <3>1. Matched(leftColumn, rightColumn, l2, r2) = Matched(leftColumn, rightColumn, l, r)
      BY <2>1, MatchedSame
    <3> QED BY <3>1
  <2>6. j.error = "none" /\ DOMAIN j.rows = pairs /\ j2.error = "none" /\ DOMAIN j2.rows = pairs
    BY <2>3, <2>4, <2>5, JoinShows
  <2>7. ASSUME NEW k \in DOMAIN columns
        PROVE  SameInJoins(columns[k], left, right, l, r, left2, right2, l2, r2)
    <3>1. SequenceContains(left2, columns[k]) => ShowsSame(l2, l, columns[k])
      BY <2>1, SeesColumn DEF ShowsSame
    <3>2. SequenceContains(right2, columns[k]) => ShowsSame(r2, r, columns[k])
      BY <2>1, SeesColumn DEF ShowsSame
    <3> QED BY <2>2, <3>1, <3>2 DEF SameInJoins
  <2> HIDE DEF pairs
  <2>8. Sees(j2, j, columns, pairs)
    <3>1. pairs \subseteq Matched(leftColumn, rightColumn, l, r)
      BY DEF pairs
    <3> QED BY <2>3, <2>4, <2>5, <2>7, <3>1, JoinsShowSame
  <2> HIDE DEF j, j2
  <2>9. Chosen(columns, j2, pairs) = Chosen(columns, j, pairs)
    BY <2>6, <2>8, ChosenSame
  <2> QED BY <2>6, <2>9 DEF ColumnsOf, j, j2
<1> QED BY <1>1, <1>2

-----------------------------------------------------------------------------
(* What SQLite has for the nodes.                                          *)

NodesOK(nodes) == \A e \in nodes : NodeOK(e, nodes)

\* A node of each kind: its relation, of those of the children.
LEMMA MeansTable ==
  ASSUME NEW m, NEW nodes, NodesOK(nodes), Means(m, nodes), NEW e \in nodes, e.kind = "Table"
  PROVE  e.schema \in Seq(Column) /\ m[e] = TableOf(e.name, e.schema)
BY DEF NodesOK, NodeOK, Means

\* What Means says of a Select.
LEMMA MeansSelect ==
  ASSUME NEW m, NEW nodes, NodesOK(nodes), Means(m, nodes), NEW e \in nodes, e.kind = "Select"
  PROVE  /\ e.child \in nodes /\ e.schema \in Seq(Column) /\ e.schema = e.child.schema
         /\ e.condition \in Condition
         /\ m[e] = FilterOf(e.condition, e.schema, m[e.child])
<1>1. NodeOK(e, nodes)
  BY DEF NodesOK
<1>2. e.child \in nodes /\ e.condition \in Condition /\ e = SelectExpr(e.condition, e.child)
  BY <1>1, SelectFields
<1>3. e.schema = e.child.schema
  BY <1>2 DEF SelectExpr
<1>4. e.schema \in Seq(Column)
  BY <1>1 DEF NodeOK
<1> QED BY <1>2, <1>3, <1>4 DEF Means

\* What Means says of a Project and of a Rename.
LEMMA MeansColumns ==
  ASSUME NEW m, NEW nodes, NodesOK(nodes), Means(m, nodes), NEW e \in nodes,
         e.kind \in {"Project", "Rename"}
  PROVE  /\ e.child \in nodes /\ e.schema \in Seq(Column)
         /\ AllColumnsIncluded(e.schema, e.child.schema)
         /\ e.kind = "Project" => e.columns = e.schema
         /\ e.kind = "Rename" => e.schema = e.child.schema
         /\ m[e] = ColumnsOf(e.schema, m[e.child])
<1>1. NodeOK(e, nodes)
  BY DEF NodesOK
<1>2. e.schema \in Seq(Column)
  BY <1>1 DEF NodeOK
<1>3. CASE e.kind = "Project"
  <2>1. /\ e.child \in nodes /\ AllColumnsIncluded(e.columns, e.child.schema)
        /\ e = ProjectExpr(e.columns, e.child)
    BY <1>1, <1>3, ProjectFields
  <2>2. e.schema = e.columns
    BY <2>1 DEF ProjectExpr
  <2> QED BY <1>2, <1>3, <2>1, <2>2 DEF Means
<1>4. CASE e.kind = "Rename"
  <2>1. e.child \in nodes /\ e = RenameExpr(e.alias, e.child)
    BY <1>1, <1>4, RenameFields
  <2>2. e.schema = e.child.schema
    BY <2>1 DEF RenameExpr
  <2> QED BY <1>2, <1>4, <2>1, <2>2, IncludedItself DEF Means
<1> QED BY <1>3, <1>4

\* The schema the constructor of a join makes.
LEMMA JoinSchema ==
  ASSUME NEW left, NEW right, NEW leftColumn, NEW rightColumn
  PROVE  JoinExpr(left, right, leftColumn, rightColumn).schema = left.schema \o right.schema
BY DEF JoinExpr

\* What Means says of a Join.
LEMMA MeansJoinOf ==
  ASSUME NEW m, NEW nodes, NodesOK(nodes), Means(m, nodes), NEW e \in nodes, e.kind = "Join"
  PROVE  /\ e.left \in nodes /\ e.right \in nodes
         /\ e.left.schema \in Seq(Column) /\ e.right.schema \in Seq(Column)
         /\ e.schema = e.left.schema \o e.right.schema
         /\ m[e] = JoinOf(e.left.schema, e.right.schema, e.leftColumn, e.rightColumn,
                          m[e.left], m[e.right])
<1>1. NodeOK(e, nodes) /\ \A x \in nodes : x.schema \in Seq(Column)
  BY DEF NodesOK, NodeOK
<1>2. /\ e.left \in nodes /\ e.right \in nodes
      /\ e = JoinExpr(e.left, e.right, e.leftColumn, e.rightColumn)
  BY <1>1, JoinFields
<1>3. e.schema = e.left.schema \o e.right.schema
  <2>1. PICK l, r, a, b : /\ l = e.left /\ r = e.right /\ a = e.leftColumn /\ b = e.rightColumn
    OBVIOUS
  <2> DEFINE join == JoinExpr(l, r, a, b)
  <2>2. join.schema = l.schema \o r.schema
    BY JoinSchema
  <2> HIDE DEF join
  <2>3. e = join
    BY <1>2, <2>1 DEF join
  <2>4. e.schema = join.schema
    BY <2>3
  <2> QED BY <2>1, <2>2, <2>4
<1>4. m[e] = JoinOf(e.left.schema, e.right.schema, e.leftColumn, e.rightColumn,
                    m[e.left], m[e.right])
  BY DEF Means
<1> QED BY <1>1, <1>2, <1>3, <1>4

\* A SELECT announces its columns.
LEMMA ChosenAnnounced ==
  ASSUME NEW columns \in Seq(Column), NEW relation, NEW ids
  PROVE  Announced(Chosen(columns, relation, ids), columns)
<1>1. CASE ~CanChoose(columns, relation)
  BY <1>1, ChosenIs DEF Announced
<1>2. CASE CanChoose(columns, relation)
  BY <1>2, ChosenShows DEF Announced, CanChoose
<1> QED BY <1>1, <1>2

\* A table announces the schema it was given.
LEMMA TableAnnounced ==
  ASSUME NEW name, NEW schema \in Seq(Column)
  PROVE  Announced(TableOf(name, schema), schema)
<1> DEFINE columns == PhysicalColumns(schema)
<1>1. DOMAIN columns = DOMAIN schema /\ \A k \in DOMAIN schema : columns[k].as = schema[k]
  BY DEF PhysicalColumns
<1>2. schema = <<>> => columns = <<>>
  BY <1>1 DEF PhysicalColumns
<1>3. [k \in DOMAIN columns |-> columns[k].as] = schema
  <2>1. [k \in DOMAIN columns |-> columns[k].as] = [k \in DOMAIN schema |-> schema[k]]
    BY <1>1
  <2> QED BY <2>1
<1> HIDE DEF columns
<1>4. ASSUME NEW table PROVE Announced(TableAnswer(table, columns), schema)
  <2> DEFINE answer == TableAnswer(table, columns)
  <2>1. answer = Unprepared \/ (columns # <<>> /\ \E affinities, rows :
                                  answer = Relation([k \in DOMAIN columns |-> columns[k].as], affinities, rows))
    BY DEF TableAnswer
  <2>2. answer = Unprepared \/ (schema # <<>> /\ \E affinities, rows : answer = Relation(schema, affinities, rows))
    <3> HIDE DEF answer
    <3> QED BY <1>2, <1>3, <2>1
  <2> HIDE DEF answer
  <2> QED BY <2>2, FieldsOfRelation DEF Announced, answer
<1>5. Announced(Unprepared, schema)
  BY DEF Announced
<1> QED BY <1>4, <1>5 DEF TableOf, columns

\* Every relation has the names of its expression's schema.
LEMMA NodeAnnounced ==
  ASSUME NEW m, NEW nodes, NodesOK(nodes), Means(m, nodes), NEW e \in nodes
  PROVE  Announced(m[e], e.schema)
<1>1. ASSUME NEW n \in nodes, n.kind # "Join" PROVE Announced(m[n], n.schema)
  <2>1. CASE n.kind = "Table"
    BY <2>1, MeansTable, TableAnnounced
  <2>2. CASE n.kind = "Select"
    <3>1. m[n] = FilterOf(n.condition, n.schema, m[n.child]) /\ n.schema \in Seq(Column)
      BY <2>2, MeansSelect
    <3>2. m[n] = Unprepared
          \/ m[n] = Chosen(n.schema, m[n.child], Accepted(n.condition, m[n.child]))
      BY <3>1 DEF FilterOf
    <3>3. Announced(Chosen(n.schema, m[n.child], Accepted(n.condition, m[n.child])), n.schema)
      BY <3>1, ChosenAnnounced
    <3> QED BY <3>2, <3>3 DEF Announced
  <2>3. CASE n.kind \in {"Project", "Rename"}
    <3>1. m[n] = ColumnsOf(n.schema, m[n.child]) /\ n.schema \in Seq(Column)
      BY <2>3, MeansColumns
    <3> QED BY <3>1, ChosenAnnounced DEF ColumnsOf
  <2>4. n.kind \in ExprKind
    BY DEF NodesOK, NodeOK
  <2> QED BY <1>1, <2>1, <2>2, <2>3, <2>4 DEF ExprKind
<1>2. ASSUME NEW n \in nodes, n.kind = "Join"
      PROVE  m[n] = Unprepared \/ m[n].error = "none"
  <2>1. m[n] = JoinOf(n.left.schema, n.right.schema, n.leftColumn, n.rightColumn,
                      m[n.left], m[n.right])
    BY <1>2, MeansJoinOf
  <2>2. ASSUME NEW text, NEW l, NEW r
        PROVE  \/ Joined(text, l, r) = Unprepared
               \/ \E names, affinities, rows : Joined(text, l, r) = Relation(names, affinities, rows)
    BY Zenon DEF Joined
  <2> QED BY <2>1, <2>2, FieldsOfRelation DEF JoinOf
<1>3. \A n \in nodes : m[n].error \in {"none", "prepare"}
  BY <1>1, <1>2, AnnouncedIs, ErrorOfUnprepared
<1>4. ASSUME NEW n \in nodes, n.kind = "Join"
      PROVE  /\ m[n] = Unprepared
                \/ CanJoin(n.left.schema, n.right.schema, n.leftColumn, n.rightColumn, m[n.left], m[n.right])
             /\ m[n].error = "none" => m[n].names = n.schema
  <2>1. /\ n.left \in nodes /\ n.right \in nodes
        /\ n.left.schema \in Seq(Column) /\ n.right.schema \in Seq(Column)
        /\ n.schema = n.left.schema \o n.right.schema
        /\ m[n] = JoinOf(n.left.schema, n.right.schema, n.leftColumn, n.rightColumn,
                         m[n.left], m[n.right])
    BY <1>4, MeansJoinOf
  <2>2. {m[n.left].error, m[n.right].error} \subseteq {"none", "prepare"}
    BY <1>3, <2>1
  <2> DEFINE can == CanJoin(n.left.schema, n.right.schema, n.leftColumn, n.rightColumn, m[n.left], m[n.right])
  <2>3. ~can => m[n] = Unprepared
    BY <2>1, <2>2, JoinedIs
  <2>4. can => m[n].names = n.schema
    <3>1. PICK left, right, a, b, l, r :
            /\ left = n.left.schema /\ right = n.right.schema
            /\ a = n.leftColumn /\ b = n.rightColumn /\ l = m[n.left] /\ r = m[n.right]
      OBVIOUS
    <3> DEFINE join == JoinOf(left, right, a, b, l, r)
    <3>2. left \in Seq(Column) /\ right \in Seq(Column) /\ m[n] = join
          /\ (can <=> CanJoin(left, right, a, b, l, r)) /\ n.schema = left \o right
      BY <2>1, <3>1
    <3>3. CanJoin(left, right, a, b, l, r) => join.names = left \o right
      BY <3>2, JoinShows
    <3> HIDE DEF join, can
    <3> QED BY <3>2, <3>3
  <2> QED BY <2>3, <2>4, ErrorOfUnprepared
<1>5. ASSUME NEW n \in nodes, m[n].error = "none" PROVE m[n].names = n.schema
  BY <1>1, <1>4, <1>5, AnnouncedIs
<1>6. ASSUME NEW n \in nodes, n.kind = "Join", m[n].error = "none" PROVE n.schema # <<>>
  <2>1. /\ n.left \in nodes
        /\ n.left.schema \in Seq(Column) /\ n.right.schema \in Seq(Column)
        /\ n.schema = n.left.schema \o n.right.schema
    BY <1>6, MeansJoinOf
  <2>2. m[n.left].error = "none" /\ SequenceContains(m[n.left].names, n.leftColumn)
    BY <1>4, <1>6, ErrorOfUnprepared DEF CanJoin
  <2>3. SequenceContains(n.schema, n.leftColumn)
    BY <1>5, <2>1, <2>2, ConcatColumns
  <2> QED BY <2>3, ContainsIsPosition
<1>7. CASE e.kind # "Join"
  BY <1>1, <1>7
<1>8. CASE e.kind = "Join"
  BY <1>2, <1>5, <1>6, <1>8 DEF Announced
<1> QED BY <1>7, <1>8

-----------------------------------------------------------------------------
(* Every handler keeps what SQLite has for its expression.                 *)

\* One relation in place of another: the same, or for a filter, one that no SELECT
\* can tell from it.
Keeps(m, expr, other) ==
  /\ Alike(m[expr], m[other])
  /\ expr.kind # "Select" => m[expr] = m[other]

(* Every finished part, and the whole query, has kept its relation.        *)
SqlKept(m) ==
  /\ \A i \in DOMAIN stack : \A slot \in DOMAIN stack[i].done :
       Keeps(m, Children(stack[i].expr)[slot], stack[i].done[slot])
  /\ status = "returned" => Keeps(m, root[1], result[1])

RelationsKept == \A m : Means(m, heap) => SqlKept(m)

\* What has the relations of more nodes has those of fewer.
LEMMA MeansFewer ==
  ASSUME NEW m, NEW nodes, NEW more, nodes \subseteq more, Means(m, more)
  PROVE  Means(m, nodes)
BY DEF Means

\* After a return, every finished part was finished before or is what was returned.
LEMMA ReturnedParts ==
  ASSUME IInv, status = "optimizing", NEW expr, NEW report, Return(expr, report)
  PROVE  /\ \A i \in DOMAIN stack' : \A slot \in DOMAIN stack'[i].done :
              \/ /\ stack'[i].done[slot] = expr
                 /\ Children(stack'[i].expr)[slot] = Top.expr
              \/ \E j \in DOMAIN stack :
                   /\ slot \in DOMAIN stack[j].done
                   /\ stack'[i].done[slot] = stack[j].done[slot]
                   /\ stack'[i].expr = stack[j].expr
         /\ status' = "returned" => result'[1] = expr /\ root[1] = Top.expr
<1> USE DEF Callers, Top
<1> DEFINE n == Len(stack)
<1>2. stack \in Seq(FrameType(heap)) /\ stack # <<>> /\ n \in Nat \ {0} /\ DOMAIN stack = 1..n
  <2>1. stack \in Seq(FrameType(heap)) /\ stack # <<>>
    BY DEF IInv, TypeOK
  <2> QED BY <2>1
<1>3. CASE Callers = <<>>
  <2>1. status' = "returned" /\ result' = <<expr>> /\ stack' = <<>>
    BY <1>3 DEF Return
  <2>2. n = 1
    BY <1>2, <1>3, StackWithoutTop
  <2>3. Top.expr = root[1]
    BY <1>2, <2>2 DEF IInv, CallsLinked
  <2> QED BY <2>1, <2>3
<1>4. CASE Callers # <<>>
  <2> DEFINE caller == stack[n - 1]
             resumed == Resumed(caller, Top.slot, expr)
  <2>1. /\ status' = status
        /\ stack' = [Callers EXCEPT ![Len(Callers)] = Resumed(@, Top.slot, expr)]
    BY <1>4 DEF Return
  <2>2. /\ n >= 2
        /\ Callers \in Seq(FrameType(heap)) /\ Len(Callers) = n - 1
        /\ \A i \in 1..(n-1) : Callers[i] = stack[i]
    BY <1>2, <1>4, StackWithoutTop
  <2>3. /\ Top.slot \notin DOMAIN caller.done
        /\ Top.expr = Children(caller.expr)[Top.slot]
    <3>1. n \in 2..Len(stack)
      BY <1>2, <2>2
    <3> QED BY <3>1 DEF IInv, CallsLinked
  <2>4. caller \in FrameType(heap)
    BY <1>2, <2>2
  <2>5. /\ resumed.expr = caller.expr
        /\ DOMAIN resumed.done = DOMAIN caller.done \cup {Top.slot}
        /\ resumed.done[Top.slot] = expr
        /\ \A s \in DOMAIN caller.done : resumed.done[s] = caller.done[s]
    <3> HIDE DEF caller
    <3>1. caller = [expr |-> caller.expr, slot |-> caller.slot, done |-> caller.done,
                    split |-> caller.split]
      BY <2>4, FrameTypeRecord
    <3> QED BY <2>3, <3>1 DEF Resumed
  <2>6. /\ DOMAIN stack' = 1..(n-1)
        /\ stack'[n-1] = resumed
        /\ \A i \in 1..(n-2) : stack'[i] = stack[i]
    <3> DEFINE front == Callers
               place == n-1
    <3>1. stack' = [front EXCEPT ![place] = resumed]
      BY <2>1, <2>2
    <3>2. /\ DOMAIN front = 1..place /\ place \in 1..place
          /\ \A i \in 1..(n-2) : i \in 1..place /\ i # place /\ front[i] = stack[i]
      <4> HIDE DEF resumed, caller
      <4>1. n \in Nat /\ n >= 2
        BY <1>2, <2>2
      <4>2. front \in Seq(FrameType(heap)) /\ Len(front) = n-1
        BY <2>2
      <4>3. DOMAIN front = 1..place
        <5> HIDE DEF n, front
        <5> QED BY <4>1, <4>2
      <4>4. place \in 1..place /\ \A i \in 1..(n-2) : i \in 1..place /\ i # place
        <5> HIDE DEF n
        <5> QED BY <4>1
      <4> QED BY <2>2, <4>3, <4>4
    <3> HIDE DEF front, place, resumed
    <3>3. /\ DOMAIN stack' = 1..place
          /\ stack'[place] = resumed
          /\ \A i \in 1..place : i # place => stack'[i] = front[i]
      BY <3>1, <3>2
    <3>4. \A i \in 1..(n-2) : stack'[i] = stack[i]
      BY <3>2, <3>3
    <3> QED BY <3>3, <3>4 DEF place
  <2>7. ASSUME NEW i \in DOMAIN stack', NEW slot \in DOMAIN stack'[i].done
        PROVE  \/ /\ stack'[i].done[slot] = expr
                  /\ Children(stack'[i].expr)[slot] = Top.expr
               \/ \E j \in DOMAIN stack :
                    /\ slot \in DOMAIN stack[j].done
                    /\ stack'[i].done[slot] = stack[j].done[slot]
                    /\ stack'[i].expr = stack[j].expr
    <3>1. i \in 1..(n-2) \/ i = n-1
      BY <1>2, <2>6
    <3>2. CASE i \in 1..(n-2)
      <4>1. i \in DOMAIN stack /\ stack'[i] = stack[i]
        BY <1>2, <2>6, <3>2
      <4> QED BY <4>1
    <3>3. CASE i = n-1
      <4>1. n-1 \in DOMAIN stack /\ stack'[i] = resumed
        BY <1>2, <2>2, <2>6, <3>3
      <4>2. CASE slot = Top.slot
        <5>1. stack'[i].done[slot] = expr /\ Children(stack'[i].expr)[slot] = Top.expr
          BY <2>3, <2>5, <4>1, <4>2
        <5> QED BY <5>1
      <4>3. CASE slot \in DOMAIN caller.done
        <5>1. /\ stack'[i].done[slot] = stack[n-1].done[slot]
              /\ stack'[i].expr = stack[n-1].expr /\ slot \in DOMAIN stack[n-1].done
          <6> HIDE DEF resumed
          <6> QED BY <2>5, <4>1, <4>3
        <5> QED BY <4>1, <5>1
      <4> HIDE DEF caller, resumed
      <4> QED BY <2>5, <4>1, <4>2, <4>3
    <3> QED BY <3>1, <3>2, <3>3
  <2> QED BY <2>1, <2>7
<1> QED BY <1>3, <1>4

\* A call that returns what keeps its relation keeps the relations.
LEMMA DeliveredKeeps ==
  ASSUME IInv, RelationsKept, status = "optimizing",
         NEW expr, NEW built, NEW written, Deliver(expr, built, written),
         heap' = heap \cup built => \A m : Means(m, heap') => Keeps(m, Top.expr, expr)
  PROVE  RelationsKept'
<1>1. root' = root
  BY DEF Deliver
<1>2. CASE Throw
  <2>1. stack' = <<>> /\ status' # "returned"
    BY <1>2 DEF Throw
  <2>2. DOMAIN stack' = {}
    BY <2>1
  <2> QED BY <2>1, <2>2 DEF RelationsKept, SqlKept, Children, Keeps, Alike, Sees, AffinityOf, At
<1>3. ASSUME heap' = heap \cup built, Return(expr, notes \o written) PROVE RelationsKept'
  <2> SUFFICES ASSUME NEW m, Means(m, heap') PROVE SqlKept(m)'
    BY DEF RelationsKept, Means
  <2>1. Means(m, heap)
    BY <1>3, MeansFewer
  <2>2. SqlKept(m)
    BY <2>1 DEF RelationsKept
  <2>3. Keeps(m, Top.expr, expr)
    BY <1>3
  <2>4. ASSUME NEW i \in DOMAIN stack', NEW slot \in DOMAIN stack'[i].done
        PROVE  Keeps(m, Children(stack'[i].expr)[slot], stack'[i].done[slot])
    BY <1>3, <2>2, <2>3, ReturnedParts DEF SqlKept
  <2>5. status' = "returned" => Keeps(m, root'[1], result'[1])
    BY <1>1, <1>3, <2>3, ReturnedParts
  <2> QED BY <2>4, <2>5 DEF SqlKept
<1> QED BY <1>2, <1>3 DEF Deliver

\* What the optimized children of the expression at the top have kept.
LEMMA ChildKept ==
  ASSUME IInv, RelationsKept, NEW kind \in {"Select", "Project", "Rename"}, Ready(kind),
         NEW m, Means(m, heap)
  PROVE  /\ Top.expr \in heap /\ Top.expr.kind = kind
         /\ Top.expr.child \in heap /\ Top.done[1] \in heap
         /\ Top.done[1].schema = Top.expr.child.schema
         /\ Alike(m[Top.expr.child], m[Top.done[1]])
         /\ Announced(m[Top.expr.child], Top.expr.child.schema)
<1>1. /\ status = "optimizing" /\ Top.expr.kind = kind /\ 1 \in DOMAIN Top.done
      /\ Top.done[1] \in heap /\ Top.done[1].schema = Top.expr.child.schema
  BY OptimizedChild DEF SameMeaning
<1>2. Len(stack) \in DOMAIN stack /\ Top.expr \in heap /\ NodeOK(Top.expr, heap)
  BY <1>1, TopFrame DEF Sound
<1>3. Children(Top.expr) = <<Top.expr.child>>
  BY <1>1 DEF Children
<1>4. Top.expr.child \in heap
  BY <1>2, <1>3 DEF NodeOK
<1>5. Keeps(m, Children(Top.expr)[1], Top.done[1])
  BY <1>1, <1>2 DEF RelationsKept, SqlKept, Top
<1>6. Alike(m[Top.expr.child], m[Top.done[1]])
  BY <1>3, <1>5 DEF Keeps
<1>7. NodesOK(heap)
  BY DEF IInv, TypeOK, NodesOK
<1>8. Announced(m[Top.expr.child], Top.expr.child.schema)
  BY <1>4, <1>7, NodeAnnounced
<1> QED BY <1>1, <1>2, <1>4, <1>6, <1>8

\* The right operand of a condition is a column or a literal.
LEMMA RightKinds ==
  ASSUME NEW condition \in Condition
  PROVE  condition.rightKind \in {"Column", "Literal"}
BY DEF Condition

\* SQLite has for a Select what it would have with the optimized child.
LEMMA SelectKept ==
  ASSUME IInv, RelationsKept, Ready("Select"), NEW m, Means(m, heap)
  PROVE  /\ Top.expr.kind = "Select" /\ Top.expr.condition \in Condition
         /\ m[Top.expr] = FilterOf(Top.expr.condition, Top.done[1].schema, m[Top.done[1]])
<1>1. /\ Top.expr \in heap /\ Top.expr.kind = "Select"
      /\ Top.done[1].schema = Top.expr.child.schema
      /\ Alike(m[Top.expr.child], m[Top.done[1]])
      /\ Announced(m[Top.expr.child], Top.expr.child.schema)
  BY ChildKept
<1>2. NodesOK(heap)
  BY DEF IInv, TypeOK, NodesOK
<1>3. /\ Top.expr.schema \in Seq(Column) /\ Top.expr.schema = Top.expr.child.schema
      /\ Top.expr.condition \in Condition
      /\ m[Top.expr] = FilterOf(Top.expr.condition, Top.expr.schema, m[Top.expr.child])
  BY <1>1, <1>2, MeansSelect
<1> DEFINE a == m[Top.expr.child]
           b == m[Top.done[1]]
           schema == Top.expr.schema
           condition == Top.expr.condition
<1>4. /\ schema \in Seq(Column) /\ condition.rightKind \in {"Column", "Literal"}
      /\ Alike(a, b) /\ Announced(a, schema)
  BY <1>1, <1>3, RightKinds
<1> HIDE DEF a, b, schema, condition
<1>5. FilterOf(condition, schema, a) = FilterOf(condition, schema, b)
  BY <1>4, FilterAlike
<1> QED BY <1>1, <1>3, <1>5 DEF a, b, schema, condition

\* SQLite has for a Project or a Rename what it would have with the optimized child.
LEMMA ColumnsKept ==
  ASSUME IInv, RelationsKept, NEW kind \in {"Project", "Rename"}, Ready(kind),
         NEW m, Means(m, heap)
  PROVE  /\ Top.expr.kind = kind /\ Top.expr.schema \in Seq(Column)
         /\ kind = "Project" => Top.expr.columns = Top.expr.schema
         /\ kind = "Rename" => Top.expr.schema = Top.done[1].schema
         /\ AllColumnsIncluded(Top.expr.schema, Top.done[1].schema)
         /\ m[Top.expr] = ColumnsOf(Top.expr.schema, m[Top.done[1]])
<1>1. /\ Top.expr \in heap /\ Top.expr.kind = kind
      /\ Top.done[1].schema = Top.expr.child.schema
      /\ Alike(m[Top.expr.child], m[Top.done[1]])
      /\ Announced(m[Top.expr.child], Top.expr.child.schema)
  BY ChildKept
<1>2. NodesOK(heap)
  BY DEF IInv, TypeOK, NodesOK
<1>3. /\ Top.expr.schema \in Seq(Column)
      /\ AllColumnsIncluded(Top.expr.schema, Top.expr.child.schema)
      /\ Top.expr.kind = "Project" => Top.expr.columns = Top.expr.schema
      /\ Top.expr.kind = "Rename" => Top.expr.schema = Top.expr.child.schema
      /\ m[Top.expr] = ColumnsOf(Top.expr.schema, m[Top.expr.child])
  BY <1>1, <1>2, MeansColumns
<1> DEFINE a == m[Top.expr.child]
           b == m[Top.done[1]]
           columns == Top.expr.schema
           schema == Top.expr.child.schema
<1>4. /\ columns \in Seq(Column) /\ AllColumnsIncluded(columns, schema)
      /\ Alike(a, b) /\ Announced(a, schema)
  BY <1>1, <1>3
<1> HIDE DEF a, b, schema, columns
<1>5. ColumnsOf(columns, a) = ColumnsOf(columns, b)
  BY <1>4, ColumnsAlike
<1> QED BY <1>1, <1>3, <1>5 DEF a, b, schema, columns

\* FinishTable: a table has the relation of its name and its schema.
LEMMA TableKeeps == ASSUME IInv, IInv', RelationsKept, FinishTable PROVE RelationsKept'
<1> DEFINE table == TableExpr(Top.expr.name, Top.expr.schema)
<1>1. Ready("Table") /\ Deliver(table, {table}, <<>>) /\ status = "optimizing"
  BY DEF FinishTable, Ready
<1>2. Top.expr.kind = "Table" /\ Top.expr \in heap /\ NodeOK(Top.expr, heap)
  BY <1>1, TopFrame DEF Ready, Sound
<1>3. Top.expr = table
  BY <1>2 DEF NodeOK, Rebuilt
<1>4. \A m : Keeps(m, Top.expr, table)
  BY <1>3 DEF Keeps, Alike
<1> HIDE DEF table
<1> QED BY <1>1, <1>4, DeliveredKeeps

\* FinishRename: the same columns of the optimized child.
LEMMA RenameKeeps == ASSUME IInv, IInv', RelationsKept, FinishRename PROVE RelationsKept'
<1> DEFINE rename == RenameExpr(Top.expr.alias, Top.done[1])
<1>1. Ready("Rename") /\ Deliver(rename, {rename}, <<>>) /\ status = "optimizing"
  BY DEF FinishRename, Ready
<1>2. /\ rename.kind = "Rename" /\ rename.child = Top.done[1]
      /\ rename.schema = Top.done[1].schema
  BY DEF RenameExpr
<1> HIDE DEF rename
<1>3. ASSUME heap' = heap \cup {rename}, NEW m, Means(m, heap')
      PROVE  Keeps(m, Top.expr, rename)
  <2>1. Means(m, heap) /\ rename \in heap'
    BY <1>3, MeansFewer
  <2>2. /\ Top.expr.schema = Top.done[1].schema
        /\ m[Top.expr] = ColumnsOf(Top.expr.schema, m[Top.done[1]])
    BY <1>1, <2>1, ColumnsKept
  <2>3. m[rename] = ColumnsOf(rename.schema, m[rename.child])
    BY <1>2, <1>3, <2>1 DEF Means
  <2> QED BY <1>2, <2>2, <2>3 DEF Keeps, Alike
<1> QED BY <1>1, <1>3, DeliveredKeeps

\* FinishJoin: the same join of the optimized inputs.
LEMMA JoinKeeps == ASSUME IInv, IInv', RelationsKept, FinishJoin PROVE RelationsKept'
<1> DEFINE less == Top.done[1]
           fewer == Top.done[2]
           left == Top.expr.left
           right == Top.expr.right
           leftColumn == Top.expr.leftColumn
           rightColumn == Top.expr.rightColumn
           join == JoinExpr(less, fewer, leftColumn, rightColumn)
<1>1. Ready("Join") /\ Deliver(join, {join}, <<>>)
  BY DEF FinishJoin
<1>2. status = "optimizing" /\ Top.expr.kind = "Join" /\ Top.expr \in heap
      /\ Len(stack) \in DOMAIN stack
  BY <1>1, TopFrame DEF Ready
<1>3. Children(Top.expr) = <<left, right>> /\ {1, 2} \subseteq DOMAIN Top.done
  BY <1>1, <1>2 DEF Children, Ready, Slots
<1>4. less.schema = left.schema /\ fewer.schema = right.schema
  BY <1>1, OptimizedSides DEF SameMeaning
<1>5. NodesOK(heap)
  BY DEF IInv, TypeOK, NodesOK
<1>6. /\ join.kind = "Join" /\ join.left = less /\ join.right = fewer
      /\ join.leftColumn = leftColumn /\ join.rightColumn = rightColumn
  BY DEF JoinExpr
<1> HIDE DEF join
<1>7. ASSUME heap' = heap \cup {join}, NEW m, Means(m, heap')
      PROVE  Keeps(m, Top.expr, join)
  <2>1. Means(m, heap) /\ join \in heap'
    BY <1>7, MeansFewer
  <2>2. /\ left \in heap /\ right \in heap
        /\ left.schema \in Seq(Column) /\ right.schema \in Seq(Column)
        /\ m[Top.expr] = JoinOf(left.schema, right.schema, leftColumn, rightColumn,
                                m[left], m[right])
    BY <1>2, <1>5, <2>1, MeansJoinOf
  <2>3. Announced(m[left], left.schema) /\ Announced(m[right], right.schema)
    BY <1>5, <2>1, <2>2, NodeAnnounced
  <2>4. \A slot \in {1, 2} : Keeps(m, Children(Top.expr)[slot], Top.done[slot])
    BY <1>2, <1>3, <2>1 DEF RelationsKept, SqlKept, Top
  <2>5. Alike(m[left], m[less]) /\ Alike(m[right], m[fewer])
    BY <1>3, <2>4 DEF Keeps
  <2>6. m[join] = JoinOf(join.left.schema, join.right.schema, join.leftColumn,
                         join.rightColumn, m[join.left], m[join.right])
    BY <1>6, <1>7, <2>1 DEF Means
  <2> DEFINE l == m[left]
             r == m[right]
             l2 == m[less]
             r2 == m[fewer]
             ls == left.schema
             rs == right.schema
  <2>7. /\ ls \in Seq(Column) /\ rs \in Seq(Column) /\ Alike(l, l2) /\ Alike(r, r2)
        /\ Announced(l, ls) /\ Announced(r, rs)
    BY <2>2, <2>3, <2>5
  <2>8. m[join] = JoinOf(ls, rs, leftColumn, rightColumn, l2, r2)
    BY <1>4, <1>6, <2>6
  <2>9. m[Top.expr] = JoinOf(ls, rs, leftColumn, rightColumn, l, r)
    BY <2>2
  <2> HIDE DEF l, r, l2, r2, ls, rs, leftColumn, rightColumn
  <2>10. JoinOf(ls, rs, leftColumn, rightColumn, l, r) = JoinOf(ls, rs, leftColumn, rightColumn, l2, r2)
    BY <2>7, JoinAlike
  <2> QED BY <2>8, <2>9, <2>10 DEF Keeps, Alike
<1> QED BY <1>1, <1>2, <1>7, DeliveredKeeps

\* KeepSelect: the same filter of the optimized child.
LEMMA KeepSelectKeeps == ASSUME IInv, IInv', RelationsKept, KeepSelect PROVE RelationsKept'
<1> DEFINE condition == Top.expr.condition
           child == Top.done[1]
           kept == SelectExpr(condition, child)
<1>1. Ready("Select") /\ status = "optimizing" /\ \E written : Deliver(kept, {kept}, written)
  BY DEF KeepSelect, Ready
<1>2. /\ kept.kind = "Select" /\ kept.condition = condition /\ kept.child = child
      /\ kept.schema = child.schema
  BY DEF SelectExpr
<1> HIDE DEF kept
<1>3. ASSUME heap' = heap \cup {kept}, NEW m, Means(m, heap')
      PROVE  Keeps(m, Top.expr, kept)
  <2>1. Means(m, heap) /\ kept \in heap'
    BY <1>3, MeansFewer
  <2>2. m[Top.expr] = FilterOf(condition, child.schema, m[child])
    BY <1>1, <2>1, SelectKept
  <2>3. m[kept] = FilterOf(kept.condition, kept.schema, m[kept.child])
    BY <1>2, <1>3, <2>1 DEF Means
  <2> QED BY <1>2, <2>2, <2>3 DEF Keeps, Alike
<1> QED BY <1>1, <1>3, DeliveredKeeps

\* PushSelectBelowProject: the columns of the filter are the filter of the columns.
LEMMA PushBelowProjectKeeps ==
  ASSUME IInv, IInv', RelationsKept, PushSelectBelowProject PROVE RelationsKept'
<1> DEFINE condition == Top.expr.condition
           project == Top.done[1]
           pushed == SelectExpr(condition, project.child)
           moved == ProjectExpr(project.columns, pushed)
<1>1. /\ Ready("Select")
      /\ PushesBelowProject(condition, project)
      /\ Deliver(moved, {pushed, moved}, <<Rule("SelectProject")>>)
  BY DEF PushSelectBelowProject
<1>2. status = "optimizing" /\ condition \in Condition /\ project \in heap
  BY <1>1, SelectStart
<1>3. /\ project.kind = "Project" /\ ~condition.raw /\ Mentions(project.columns, condition)
  BY <1>1 DEF PushesBelowProject, ConditionUsesOnlyProjectedColumns, Mentions
<1>4. NodesOK(heap)
  BY DEF IInv, TypeOK, NodesOK
<1>5. /\ pushed.kind = "Select" /\ pushed.condition = condition /\ pushed.child = project.child
      /\ pushed.schema = project.child.schema
  BY DEF SelectExpr
<1>6. moved.kind = "Project" /\ moved.columns = project.columns /\ moved.child = pushed
  BY DEF ProjectExpr
<1> HIDE DEF pushed, moved
<1>7. ASSUME heap' = heap \cup {pushed, moved}, NEW m, Means(m, heap')
      PROVE  Keeps(m, Top.expr, moved)
  <2>1. Means(m, heap) /\ pushed \in heap' /\ moved \in heap'
    BY <1>7, MeansFewer
  <2>2. m[Top.expr] = FilterOf(condition, project.schema, m[project])
    BY <1>1, <2>1, SelectKept
  <2> DEFINE columns == project.columns
             schema == project.child.schema
             a == m[project.child]
  <2> HIDE DEF condition, project
  <2>3. /\ project.child \in heap /\ columns \in Seq(Column) /\ columns = project.schema
        /\ AllColumnsIncluded(columns, schema)
        /\ m[project] = ColumnsOf(columns, a)
    BY <1>2, <1>3, <1>4, <2>1, MeansColumns
  <2>4. schema \in Seq(Column) /\ Announced(a, schema)
    BY <1>4, <2>1, <2>3, NodeAnnounced DEF NodesOK, NodeOK
  <2>5. m[pushed] = FilterOf(condition, schema, a)
    BY <1>5, <1>7, <2>1 DEF Means
  <2>6. m[moved] = ColumnsOf(columns, m[pushed])
    BY <1>6, <1>7, <2>1 DEF Means
  <2>7. condition.rightKind \in {"Column", "Literal"} /\ ~condition.raw /\ Mentions(columns, condition)
    BY <1>2, <1>3, RightKinds
  <2> HIDE DEF columns, schema, a
  <2>8. FilterOf(condition, columns, ColumnsOf(columns, a))
          = ColumnsOf(columns, FilterOf(condition, schema, a))
    BY <2>3, <2>4, <2>7, FilterOfColumns
  <2> QED BY <2>2, <2>3, <2>5, <2>6, <2>8 DEF Keeps, Alike
<1> QED BY <1>1, <1>2, <1>7, DeliveredKeeps

\* PushSelectLeft: the filtered join and the join of the filtered input are alike.
LEMMA PushLeftKeeps == ASSUME IInv, IInv', RelationsKept, PushSelectLeft PROVE RelationsKept'
<1> DEFINE condition == Top.expr.condition
           join == Top.done[1]
           pushed == SelectExpr(condition, join.left)
           moved == JoinExpr(pushed, join.right, join.leftColumn, join.rightColumn)
<1>1. /\ Ready("Select")
      /\ PushesInto("Left", condition, join)
      /\ Deliver(moved, {pushed, moved}, <<Rule("SelectJoinLeft")>>)
  BY DEF PushSelectLeft
<1>2. status = "optimizing" /\ condition \in Condition /\ join \in heap
      /\ Top.expr.kind = "Select"
  BY <1>1, SelectStart DEF Ready
<1>3. /\ join.kind = "Join"
      /\ ConditionSide(condition, join.left.schema, join.right.schema) = "Left"
  BY <1>1 DEF PushesInto
<1>4. NodesOK(heap)
  BY DEF IInv, TypeOK, NodesOK
<1>5. /\ pushed.kind = "Select" /\ pushed.condition = condition /\ pushed.child = join.left
      /\ pushed.schema = join.left.schema
  BY DEF SelectExpr
<1>6. /\ moved.kind = "Join" /\ moved.left = pushed /\ moved.right = join.right
      /\ moved.leftColumn = join.leftColumn /\ moved.rightColumn = join.rightColumn
  BY DEF JoinExpr
<1> HIDE DEF pushed, moved
<1>7. ASSUME heap' = heap \cup {pushed, moved}, NEW m, Means(m, heap')
      PROVE  Keeps(m, Top.expr, moved)
  <2>1. Means(m, heap) /\ pushed \in heap' /\ moved \in heap'
    BY <1>7, MeansFewer
  <2>2. m[Top.expr] = FilterOf(condition, join.schema, m[join])
    BY <1>1, <2>1, SelectKept
  <2> DEFINE left == join.left.schema
             right == join.right.schema
             leftColumn == join.leftColumn
             rightColumn == join.rightColumn
             l == m[join.left]
             r == m[join.right]
  <2> HIDE DEF condition, join
  <2>3. /\ join.left \in heap /\ join.right \in heap
        /\ left \in Seq(Column) /\ right \in Seq(Column) /\ join.schema = left \o right
        /\ m[join] = JoinOf(left, right, leftColumn, rightColumn, l, r)
    <3> HIDE DEF left, right, leftColumn, rightColumn, l, r
    <3>1. join \in heap /\ join.kind = "Join"
      BY <1>2, <1>3
    <3> QED BY <1>4, <2>1, <3>1, MeansJoinOf DEF left, right, leftColumn, rightColumn, l, r
  <2>4. Announced(l, left) /\ Announced(r, right)
    BY <1>4, <2>1, <2>3, NodeAnnounced
  <2>5. m[pushed] = FilterOf(condition, left, l)
    BY <1>5, <1>7, <2>1 DEF Means
  <2>6. m[moved] = JoinOf(left, right, leftColumn, rightColumn, m[pushed], r)
    BY <1>5, <1>6, <1>7, <2>1 DEF Means
  <2>7. ConditionSide(condition, left, right) = "Left"
    BY <1>3
  <2> HIDE DEF left, right, leftColumn, rightColumn, l, r
  <2>8. ~condition.raw /\ Mentions(left, condition)
    BY <2>3, <2>7, SideOfCondition, LocatedColumn DEF Mentions
  <2>9. condition.rightKind \in {"Column", "Literal"}
    BY <1>2, RightKinds
  <2>10. Alike(FilterOf(condition, left \o right,
                        JoinOf(left, right, leftColumn, rightColumn, l, r)),
               JoinOf(left, right, leftColumn, rightColumn, FilterOf(condition, left, l), r))
    BY <2>3, <2>4, <2>8, <2>9, FilterIntoLeft
  <2> QED BY <1>2, <2>2, <2>3, <2>5, <2>6, <2>10 DEF Keeps
<1> QED BY <1>1, <1>2, <1>7, DeliveredKeeps

\* PushSelectRight: as on the left, of columns the left input does not have.
LEMMA PushRightKeeps == ASSUME IInv, IInv', RelationsKept, PushSelectRight PROVE RelationsKept'
<1> DEFINE condition == Top.expr.condition
           join == Top.done[1]
           pushed == SelectExpr(condition, join.right)
           moved == JoinExpr(join.left, pushed, join.leftColumn, join.rightColumn)
<1>1. /\ Ready("Select")
      /\ PushesInto("Right", condition, join)
      /\ Deliver(moved, {pushed, moved}, <<Rule("SelectJoinRight")>>)
  BY DEF PushSelectRight
<1>2. status = "optimizing" /\ condition \in Condition /\ join \in heap
      /\ Top.expr.kind = "Select"
  BY <1>1, SelectStart DEF Ready
<1>3. /\ join.kind = "Join"
      /\ ConditionSide(condition, join.left.schema, join.right.schema) = "Right"
  BY <1>1 DEF PushesInto
<1>4. NodesOK(heap)
  BY DEF IInv, TypeOK, NodesOK
<1>5. /\ pushed.kind = "Select" /\ pushed.condition = condition /\ pushed.child = join.right
      /\ pushed.schema = join.right.schema
  BY DEF SelectExpr
<1>6. /\ moved.kind = "Join" /\ moved.left = join.left /\ moved.right = pushed
      /\ moved.leftColumn = join.leftColumn /\ moved.rightColumn = join.rightColumn
  BY DEF JoinExpr
<1> HIDE DEF pushed, moved
<1>7. ASSUME heap' = heap \cup {pushed, moved}, NEW m, Means(m, heap')
      PROVE  Keeps(m, Top.expr, moved)
  <2>1. Means(m, heap) /\ pushed \in heap' /\ moved \in heap'
    BY <1>7, MeansFewer
  <2>2. m[Top.expr] = FilterOf(condition, join.schema, m[join])
    BY <1>1, <2>1, SelectKept
  <2> DEFINE left == join.left.schema
             right == join.right.schema
             leftColumn == join.leftColumn
             rightColumn == join.rightColumn
             l == m[join.left]
             r == m[join.right]
  <2> HIDE DEF condition, join
  <2>3. /\ join.left \in heap /\ join.right \in heap
        /\ left \in Seq(Column) /\ right \in Seq(Column) /\ join.schema = left \o right
        /\ m[join] = JoinOf(left, right, leftColumn, rightColumn, l, r)
    <3> HIDE DEF left, right, leftColumn, rightColumn, l, r
    <3>1. join \in heap /\ join.kind = "Join"
      BY <1>2, <1>3
    <3> QED BY <1>4, <2>1, <3>1, MeansJoinOf DEF left, right, leftColumn, rightColumn, l, r
  <2>4. Announced(l, left) /\ Announced(r, right)
    BY <1>4, <2>1, <2>3, NodeAnnounced
  <2>5. m[pushed] = FilterOf(condition, right, r)
    BY <1>5, <1>7, <2>1 DEF Means
  <2>6. m[moved] = JoinOf(left, right, leftColumn, rightColumn, l, m[pushed])
    BY <1>5, <1>6, <1>7, <2>1 DEF Means
  <2>7. ConditionSide(condition, left, right) = "Right"
    BY <1>3
  <2> HIDE DEF left, right, leftColumn, rightColumn, l, r
  <2>8. /\ ~condition.raw /\ Mentions(right, condition)
        /\ ~SequenceContains(left, condition.leftColumn)
        /\ condition.rightKind = "Column" => ~SequenceContains(left, condition.rightColumn)
    BY <2>3, <2>7, SideOfCondition, LocatedColumn DEF Mentions
  <2>9. condition.rightKind \in {"Column", "Literal"}
    BY <1>2, RightKinds
  <2>10. Alike(FilterOf(condition, left \o right,
                        JoinOf(left, right, leftColumn, rightColumn, l, r)),
               JoinOf(left, right, leftColumn, rightColumn, l, FilterOf(condition, right, r)))
    BY <2>3, <2>4, <2>8, <2>9, FilterIntoRight
  <2> QED BY <1>2, <2>2, <2>3, <2>5, <2>6, <2>10 DEF Keeps
<1> QED BY <1>1, <1>2, <1>7, DeliveredKeeps

\* KeepProject and GiveUpPruning: the same columns of the optimized child.
LEMMA KeptProjectKeeps ==
  ASSUME IInv, IInv', RelationsKept, Ready("Project"), NEW written,
         Deliver(KeptProject, {KeptProject}, written)
  PROVE  RelationsKept'
<1> DEFINE kept == KeptProject
<1>1. status = "optimizing"
  BY DEF Ready
<1>2. kept.kind = "Project" /\ kept.columns = Top.expr.columns /\ kept.child = Top.done[1]
  BY DEF KeptProject, ProjectExpr
<1> HIDE DEF kept
<1>3. ASSUME heap' = heap \cup {kept}, NEW m, Means(m, heap')
      PROVE  Keeps(m, Top.expr, kept)
  <2>1. Means(m, heap) /\ kept \in heap'
    BY <1>3, MeansFewer
  <2>2. /\ Top.expr.columns = Top.expr.schema
        /\ m[Top.expr] = ColumnsOf(Top.expr.schema, m[Top.done[1]])
    BY <2>1, ColumnsKept
  <2>3. m[kept] = ColumnsOf(kept.columns, m[kept.child])
    BY <1>2, <1>3, <2>1 DEF Means
  <2> QED BY <1>2, <2>2, <2>3 DEF Keeps, Alike
<1> QED BY <1>1, <1>3, DeliveredKeeps DEF kept

\* CollapseProjects: a list of columns of a list of columns.
LEMMA CollapseKeeps == ASSUME IInv, IInv', RelationsKept, CollapseProjects PROVE RelationsKept'
<1> DEFINE columns == Top.expr.columns
           project == Top.done[1]
           collapsed == ProjectExpr(columns, project.child)
<1>1. /\ Ready("Project") /\ project.kind = "Project"
      /\ Deliver(collapsed, {collapsed}, <<Rule("ProjectProject")>>)
  BY DEF CollapseProjects
<1>2. /\ status = "optimizing" /\ columns \in Seq(Column) /\ project \in heap
      /\ AllColumnsIncluded(columns, project.schema)
  BY <1>1, ProjectStart
<1>3. NodesOK(heap)
  BY DEF IInv, TypeOK, NodesOK
<1>4. collapsed.kind = "Project" /\ collapsed.columns = columns /\ collapsed.child = project.child
  BY DEF ProjectExpr
<1> HIDE DEF collapsed
<1>5. ASSUME heap' = heap \cup {collapsed}, NEW m, Means(m, heap')
      PROVE  Keeps(m, Top.expr, collapsed)
  <2>1. Means(m, heap) /\ collapsed \in heap'
    BY <1>5, MeansFewer
  <2>2. m[Top.expr] = ColumnsOf(columns, m[project])
    BY <1>1, <2>1, ColumnsKept
  <2> DEFINE inner == project.schema
             schema == project.child.schema
             a == m[project.child]
  <2> HIDE DEF columns, project
  <2>3. /\ project.child \in heap /\ inner \in Seq(Column)
        /\ AllColumnsIncluded(inner, schema) /\ m[project] = ColumnsOf(inner, a)
    BY <1>1, <1>2, <1>3, <2>1, MeansColumns
  <2>4. schema \in Seq(Column) /\ Announced(a, schema)
    BY <1>3, <2>1, <2>3, NodeAnnounced DEF NodesOK, NodeOK
  <2>5. m[collapsed] = ColumnsOf(columns, a)
    BY <1>4, <1>5, <2>1 DEF Means
  <2>6. AllColumnsIncluded(columns, inner)
    BY <1>2
  <2> HIDE DEF inner, schema, a
  <2>7. ColumnsOf(columns, ColumnsOf(inner, a)) = ColumnsOf(columns, a)
    BY <1>2, <2>3, <2>4, <2>6, ColumnsOfColumns
  <2> QED BY <2>2, <2>3, <2>5, <2>7 DEF Keeps, Alike
<1> QED BY <1>1, <1>2, <1>5, DeliveredKeeps

\* projectIfNeeded: the input of the join itself, or some of its columns.
LEMMA NarrowerInput ==
  ASSUME NEW m, NEW nodes, NodesOK(nodes), Means(m, nodes),
         NEW expr \in nodes, NEW list \in Seq(Column), list # <<>>,
         AllColumnsIncluded(list, expr.schema),
         NEW input \in nodes, input = ProjectIfNeeded(expr, list)
  PROVE  /\ Narrower(m[input], input.schema, m[expr], expr.schema)
         /\ input.schema \in Seq(Column) /\ AllColumnsIncluded(list, input.schema)
<1> DEFINE schema == expr.schema
           a == m[expr]
<1>1. Announced(a, schema) /\ schema \in Seq(Column)
  BY NodeAnnounced DEF NodesOK, NodeOK
<1>2. CASE input = expr
  <2> HIDE DEF schema, a
  <2>1. Narrower(a, schema, a, schema)
    BY <1>1, NarrowerItself
  <2> QED BY <1>1, <1>2, <2>1 DEF schema, a
<1>3. CASE input = ProjectExpr(list, expr)
  <2>1. /\ input.kind = "Project" /\ input.columns = list /\ input.child = expr
        /\ input.schema = list
    BY <1>3 DEF ProjectExpr
  <2>2. m[input] = ColumnsOf(list, a)
    BY <2>1 DEF Means
  <2>3. AllColumnsIncluded(list, schema)
    OBVIOUS
  <2> HIDE DEF schema, a
  <2>4. Narrower(ColumnsOf(list, a), list, a, schema)
    BY <1>1, <2>3, NarrowerByColumns
  <2>5. AllColumnsIncluded(list, list)
    BY IncludedItself
  <2> QED BY <2>1, <2>2, <2>4, <2>5 DEF schema, a
<1> QED BY <1>2, <1>3 DEF ProjectIfNeeded

\* Nothing speaks against pruning: each key is on its side.
LEMMA KeysLocated ==
  ASSUME Scanned, SplitFailure = {}
  PROVE  /\ Located(Top.done[1].leftColumn) = "Left"
         /\ Located(Top.done[1].rightColumn) = "Right"
BY ZenonT(60) DEF SplitFailure

\* PruneProject: the columns of the join of the narrower inputs.
LEMMA PruneKeeps == ASSUME IInv, IInv', RelationsKept, PruneProject PROVE RelationsKept'
<1> DEFINE columns == Top.expr.columns
           join == Top.done[1]
           leftList == AppendUnique(Top.split.left, join.leftColumn)
           rightList == AppendUnique(Top.split.right, join.rightColumn)
           left == ProjectIfNeeded(join.left, leftList)
           right == ProjectIfNeeded(join.right, rightList)
           pruned == JoinExpr(left, right, join.leftColumn, join.rightColumn)
           kept == ProjectExpr(columns, pruned)
           built == {left, right, pruned, kept}
<1>1. /\ Ready("Project") /\ join.kind = "Join" /\ Scanned /\ SplitFailure = {}
      /\ Deliver(kept, built, <<Rule("Pruning")>>)
  BY DEF PruneProject, Splitting
<1>2. /\ status = "optimizing" /\ columns \in Seq(Column) /\ join \in heap
  BY <1>1, ProjectStart
<1>3. /\ Top \in FrameType(heap) /\ SplitSound(Top)
  BY <1>2, TopFrame
<1>4. /\ Top.split.scanned \in Nat /\ Top.split.left \in Seq(Column)
      /\ Top.split.right \in Seq(Column)
  BY <1>3, FrameTypeRecord
<1>5. /\ LocateColumn(join.leftColumn, join.left.schema, join.right.schema) = "Left"
      /\ LocateColumn(join.rightColumn, join.left.schema, join.right.schema) = "Right"
  BY <1>1, KeysLocated DEF Located
<1>6. AllOnSide(Top.split.left, join, "Left") /\ AllOnSide(Top.split.right, join, "Right")
  BY <1>3, <1>4 DEF SplitSound, NoSplit, AllOnSide
<1>7. \A k \in DOMAIN columns : \/ SequenceContains(Top.split.left, columns[k])
                                \/ SequenceContains(Top.split.right, columns[k])
  <2>1. Top.split.scanned = Len(columns) /\ DOMAIN columns = 1..Len(columns)
    BY <1>1, <1>2 DEF Scanned
  <2>2. CASE Top.split.scanned = 0
    BY <2>1, <2>2
  <2>3. CASE Top.split.scanned > 0
    BY <1>3, <2>1, <2>3 DEF SplitSound
  <2> QED BY <1>4, <2>2, <2>3
<1>8. /\ join.left \in heap /\ join.left.schema \in Seq(Column)
      /\ join.right \in heap /\ join.right.schema \in Seq(Column)
      /\ join.leftColumn \in Column /\ join.rightColumn \in Column
  BY <1>1, <1>2, SidesOf
<1>9. ASSUME heap' = heap \cup built, NEW m, Means(m, heap')
      PROVE  Keeps(m, Top.expr, kept)
  <2>1. /\ Means(m, heap) /\ NodesOK(heap')
        /\ left \in heap' /\ right \in heap' /\ pruned \in heap' /\ kept \in heap'
    <3>1. /\ heap \subseteq heap'
          /\ left \in heap' /\ right \in heap' /\ pruned \in heap' /\ kept \in heap'
      <4> HIDE DEF left, right, pruned, kept
      <4> QED BY <1>9
    <3> HIDE DEF left, right, pruned, kept
    <3>2. Means(m, heap)
      BY <1>9, <3>1, MeansFewer
    <3>3. NodesOK(heap')
      BY DEF IInv, TypeOK, NodesOK
    <3> QED BY <3>1, <3>2, <3>3
  <2>2. m[Top.expr] = ColumnsOf(columns, m[join])
    BY <1>1, <2>1, ColumnsKept
  <2>3. m[kept] = ColumnsOf(columns, m[pruned])
    <3>1. kept.kind = "Project" /\ kept.columns = columns /\ kept.child = pruned
      BY DEF ProjectExpr
    <3> HIDE DEF kept, pruned
    <3> QED BY <1>9, <2>1, <3>1 DEF Means
  <2> HIDE DEF columns, join
  <2>4. /\ leftList \in Seq(Column) /\ rightList \in Seq(Column)
        /\ AllOnSide(leftList, join, "Left") /\ AllOnSide(rightList, join, "Right")
        /\ Columns(leftList) = Columns(Top.split.left) \cup {join.leftColumn}
        /\ Columns(rightList) = Columns(Top.split.right) \cup {join.rightColumn}
    BY <1>4, <1>5, <1>6, <1>8, ColumnsAppended, AllOnSideAppended
  <2> HIDE DEF leftList, rightList
  <2>5. /\ AllColumnsIncluded(leftList, join.left.schema)
        /\ AllColumnsIncluded(rightList, join.right.schema)
        /\ \A column \in Columns(rightList) : ~SequenceContains(join.left.schema, column)
    <3>1. \A k \in DOMAIN leftList : SequenceContains(join.left.schema, leftList[k])
      BY <1>8, <2>4, LocatedColumn DEF AllOnSide
    <3>2. \A k \in DOMAIN rightList : /\ SequenceContains(join.right.schema, rightList[k])
                                      /\ ~SequenceContains(join.left.schema, rightList[k])
      BY <1>8, <2>4, LocatedColumn DEF AllOnSide
    <3> QED BY <3>1, <3>2 DEF AllColumnsIncluded, Columns
  <2>6. /\ SequenceContains(leftList, join.leftColumn)
        /\ SequenceContains(rightList, join.rightColumn)
        /\ \A k \in DOMAIN columns : \/ SequenceContains(leftList, columns[k])
                                     \/ /\ SequenceContains(rightList, columns[k])
                                        /\ ~SequenceContains(join.left.schema, columns[k])
    BY <1>7, <2>4, <2>5, ColumnsContained
  <2>7. leftList # <<>> /\ rightList # <<>>
    BY <2>6, ContainsIsPosition
  <2>8. join.left \in heap' /\ join.right \in heap'
    BY <1>8, <1>9
  <2>9. /\ pruned.kind = "Join" /\ pruned.left = left /\ pruned.right = right
        /\ pruned.leftColumn = join.leftColumn /\ pruned.rightColumn = join.rightColumn
    BY DEF JoinExpr
  <2> HIDE DEF left, right, pruned, kept, built
  <2>10. /\ Narrower(m[left], left.schema, m[join.left], join.left.schema)
         /\ left.schema \in Seq(Column) /\ AllColumnsIncluded(leftList, left.schema)
    <3>1. left = ProjectIfNeeded(join.left, leftList)
      BY DEF left
    <3> QED BY <1>9, <2>1, <2>4, <2>5, <2>7, <2>8, <3>1, NarrowerInput
  <2>11. /\ Narrower(m[right], right.schema, m[join.right], join.right.schema)
         /\ right.schema \in Seq(Column) /\ AllColumnsIncluded(rightList, right.schema)
    <3>1. right = ProjectIfNeeded(join.right, rightList)
      BY DEF right
    <3> QED BY <1>9, <2>1, <2>4, <2>5, <2>7, <2>8, <3>1, NarrowerInput
  <2> DEFINE ls == join.left.schema
             rs == join.right.schema
             l == m[join.left]
             r == m[join.right]
             ls2 == left.schema
             rs2 == right.schema
             l2 == m[left]
             r2 == m[right]
             leftColumn == join.leftColumn
             rightColumn == join.rightColumn
  <2>12. m[pruned] = JoinOf(ls2, rs2, leftColumn, rightColumn, l2, r2)
    BY <1>9, <2>1, <2>9 DEF Means
  <2>13. m[join] = JoinOf(ls, rs, leftColumn, rightColumn, l, r)
    BY <1>1, <1>2, <2>1 DEF Means
  <2>14. /\ SequenceContains(ls2, leftColumn) /\ SequenceContains(rs2, rightColumn)
         /\ \A k \in DOMAIN columns : \/ SequenceContains(ls2, columns[k])
                                      \/ /\ SequenceContains(rs2, columns[k])
                                         /\ ~SequenceContains(ls, columns[k])
    <3>1. \A column : SequenceContains(leftList, column) => SequenceContains(ls2, column)
      BY <2>4, <2>10, IncludedColumns
    <3>2. \A column : SequenceContains(rightList, column) => SequenceContains(rs2, column)
      BY <2>4, <2>11, IncludedColumns
    <3> QED BY <2>6, <3>1, <3>2
  <2>15. Announced(l, ls) /\ Announced(r, rs)
    BY <1>9, <2>1, <2>8, NodeAnnounced
  <2>16. /\ ls \in Seq(Column) /\ rs \in Seq(Column) /\ ls2 \in Seq(Column) /\ rs2 \in Seq(Column)
         /\ Narrower(l2, ls2, l, ls) /\ Narrower(r2, rs2, r, rs)
    BY <1>8, <2>10, <2>11
  <2> HIDE DEF ls, rs, l, r, ls2, rs2, l2, r2, leftColumn, rightColumn
  <2>17. ColumnsOf(columns, JoinOf(ls2, rs2, leftColumn, rightColumn, l2, r2))
           = ColumnsOf(columns, JoinOf(ls, rs, leftColumn, rightColumn, l, r))
    BY <1>2, <2>14, <2>15, <2>16, ColumnsOfNarrower
  <2> QED BY <2>2, <2>3, <2>12, <2>13, <2>17 DEF Keeps, Alike
<1> HIDE DEF kept, built
<1> QED BY <1>1, <1>2, <1>9, DeliveredKeeps

\* A call on a child has finished nothing yet.
LEMMA DescendKeeps == ASSUME IInv, RelationsKept, Descend PROVE RelationsKept'
<1>1. PICK slot \in Slots(Top.expr) \ DOMAIN Top.done :
        stack' = Append(stack, Frame(Children(Top.expr)[slot], slot))
  BY DEF Descend
<1>2. UNCHANGED <<heap, status, root, result>>
  BY DEF Descend
<1>3. stack \in Seq(FrameType(heap))
  BY DEF IInv, TypeOK
<1> DEFINE frame == Frame(Children(Top.expr)[slot], slot)
<1>4. DOMAIN frame.done = {}
  BY DEF Frame
<1> HIDE DEF frame
<1>5. /\ DOMAIN stack' = DOMAIN stack \cup {Len(stack) + 1}
      /\ stack'[Len(stack) + 1] = frame
      /\ \A i \in DOMAIN stack : stack'[i] = stack[i]
  <2>1. stack' = Append(stack, frame)
    BY <1>1 DEF frame
  <2> QED BY <1>3, <2>1
<1> SUFFICES ASSUME NEW m, Means(m, heap) PROVE SqlKept(m)'
  BY <1>2 DEF RelationsKept, Means
<1>6. SqlKept(m)
  BY DEF RelationsKept
<1>7. \A i \in DOMAIN stack' : \A s \in DOMAIN stack'[i].done :
        Keeps(m, Children(stack'[i].expr)[s], stack'[i].done[s])
  BY <1>4, <1>5, <1>6 DEF SqlKept
<1>8. status' = "returned" => Keeps(m, root'[1], result'[1])
  BY <1>2, <1>6 DEF SqlKept
<1> QED BY <1>7, <1>8 DEF SqlKept

\* The loop of splitProjectColumnsForJoin builds nothing.
LEMMA SplitColumnKeeps == ASSUME IInv, RelationsKept, SplitColumn PROVE RelationsKept'
<1>1. UNCHANGED <<heap, status, root, result>>
  BY DEF SplitColumn
<1>2. PICK split : stack' = [stack EXCEPT ![Len(stack)].split = split]
  BY DEF SplitColumn
<1>3. stack \in Seq(FrameType(heap)) /\ status = "optimizing"
  BY DEF SplitColumn, Splitting, Ready, IInv, TypeOK
<1>4. /\ DOMAIN stack' = DOMAIN stack
      /\ \A i \in DOMAIN stack : /\ stack'[i].done = stack[i].done
                                 /\ stack'[i].expr = stack[i].expr
  <2>1. \A i \in DOMAIN stack :
          stack[i] = [expr |-> stack[i].expr, slot |-> stack[i].slot,
                      done |-> stack[i].done, split |-> stack[i].split]
    <3> SUFFICES ASSUME NEW frame \in FrameType(heap)
                 PROVE  frame = [expr |-> frame.expr, slot |-> frame.slot,
                                 done |-> frame.done, split |-> frame.split]
      BY <1>3
    <3> QED BY FrameTypeRecord
  <2> QED BY <1>2, <1>3, <2>1
<1> SUFFICES ASSUME NEW m, Means(m, heap) PROVE SqlKept(m)'
  BY <1>1 DEF RelationsKept, Means
<1>5. SqlKept(m)
  BY DEF RelationsKept
<1>6. \A i \in DOMAIN stack' : \A s \in DOMAIN stack'[i].done :
        Keeps(m, Children(stack'[i].expr)[s], stack'[i].done[s])
  BY <1>4, <1>5 DEF SqlKept
<1>7. status' = "returned" => Keeps(m, root'[1], result'[1])
  BY <1>1, <1>3
<1> QED BY <1>6, <1>7 DEF SqlKept

\* The client builds nodes, or calls optimize; it finishes nothing.
LEMMA ClientKeeps == ASSUME IInv, RelationsKept, Client PROVE RelationsKept'
<1>1. ASSUME NEW expr, NEW consumed, Build(expr, consumed)
      PROVE  RelationsKept'
  <2>1. /\ heap \subseteq heap' /\ status' = "idle" /\ stack' = <<>>
    BY <1>1 DEF Build, IInv, TypeOK
  <2>2. DOMAIN stack' = {}
    BY <2>1
  <2> QED BY <2>1, <2>2 DEF RelationsKept, SqlKept
<1>2. ASSUME NEW expr, Optimize(expr) PROVE RelationsKept'
  <2>1. /\ status' = "optimizing" /\ heap' = heap /\ stack' = <<Frame(expr, 0)>>
    BY <1>2 DEF Optimize
  <2>2. DOMAIN Frame(expr, 0).done = {}
    BY DEF Frame
  <2>3. \A i \in DOMAIN stack' : DOMAIN stack'[i].done = {}
    BY <2>1, <2>2
  <2> QED BY <2>1, <2>3 DEF RelationsKept, SqlKept
<1>3. CASE OptimizeQuery \/ OptimizeAgain
  BY <1>2, <1>3 DEF OptimizeQuery, OptimizeAgain
<1>4. CASE Table \/ Sigma \/ Pi \/ Rho \/ Join
  <2>1. \E expr, consumed : Build(expr, consumed)
    BY <1>4, Zenon DEF Table, Sigma, Pi, Rho, Join
  <2> QED BY <1>1, <2>1
<1> QED BY <1>3, <1>4 DEF Client

\* A step that changes nothing.
LEMMA StutteringKeeps == ASSUME RelationsKept, UNCHANGED vars PROVE RelationsKept'
<1>1. UNCHANGED <<heap, status, root, result, stack>>
  BY DEF vars
<1> SUFFICES ASSUME NEW m, Means(m, heap) PROVE SqlKept(m)'
  BY <1>1 DEF RelationsKept, Means
<1>2. SqlKept(m)
  BY DEF RelationsKept
<1> QED BY <1>1, <1>2 DEF SqlKept

\* Every step of the specification keeps the relations.
LEMMA RelationsStep == ASSUME IInv, IInv', RelationsKept, [Next]_vars PROVE RelationsKept'
<1>1. CASE Step
  <2>1. CASE KeepProject
    BY <2>1, KeptProjectKeeps DEF KeepProject
  <2>2. CASE GiveUpPruning
    BY <2>2, KeptProjectKeeps DEF GiveUpPruning, Splitting
  <2> QED BY <1>1, <2>1, <2>2, DescendKeeps, TableKeeps, RenameKeeps, JoinKeeps,
             PushBelowProjectKeeps, PushLeftKeeps, PushRightKeeps, KeepSelectKeeps,
             CollapseKeeps, SplitColumnKeeps, PruneKeeps DEF Step
<1> QED BY <1>1, ClientKeeps, StutteringKeeps DEF Next

-----------------------------------------------------------------------------
(* What recursion computes: Compiled, Relations and ExactOf exist.  Each   *)
(* new node adds one value to each, of values that are there.              *)

Compiles(f, nodes) ==
  f = [expr \in nodes |->
         CompileNode(Bindings, expr, [i \in DOMAIN Children(expr) |-> f[Children(expr)[i]]])]

StatementOf(c) == <<c.text, Bound(c)>>
StatementsOf(f) ==
  {StatementOf(c) : c \in {d \in {f[expr] : expr \in DOMAIN f} : d.error = "none"}}

PartOf(s, i) == <<Subqueries(s[1])[i], BoundIn(s[1], s[2])[i]>>
Ran(s, g) == RelationNode(Database, s[1], s[2], [i \in DOMAIN Subqueries(s[1]) |-> g[PartOf(s, i)]])
Runs(g, statements) == g = [s \in statements |-> CHOOSE relation \in {Ran(s, g)} : TRUE]

Exacts(h, nodes) ==
  h = [expr \in nodes |->
         ExactNode(expr, [i \in DOMAIN Children(expr) |-> h[Children(expr)[i]]])]

\* A node with the label of its kind on nodes that were there before.
OnNodes(expr, nodes) ==
  /\ expr.kind \in ExprKind /\ LabelOK(expr)
  /\ \A i \in DOMAIN Children(expr) : Children(expr)[i] \in nodes

Parameter == [value : Text, kind : LiteralKind]

WellCompiled(c) ==
  c.error = "none" => c.parameters \in Seq(Parameter) /\ c.text.marks = Len(c.parameters)

Computed(nodes) ==
  /\ \A expr \in nodes : OnNodes(expr, nodes)
  /\ \E f : Compiles(f, nodes)
  /\ \A f : Compiles(f, nodes) => /\ \A expr \in nodes : WellCompiled(f[expr])
                                  /\ \E g : Runs(g, StatementsOf(f))
  /\ \E h : Exacts(h, nodes)

\* The values of a compilation.
LEMMA CompilesIs ==
  ASSUME NEW f, NEW nodes, Compiles(f, nodes)
  PROVE  /\ DOMAIN f = nodes
         /\ \A expr \in nodes :
              f[expr] = CompileNode(Bindings, expr,
                                    [i \in DOMAIN Children(expr) |-> f[Children(expr)[i]]])
<1> DEFINE made(expr) == CompileNode(Bindings, expr,
                                     [i \in DOMAIN Children(expr) |-> f[Children(expr)[i]]])
<1>1. f = [expr \in nodes |-> made(expr)]
  BY DEF Compiles
<1> HIDE DEF made
<1>2. DOMAIN f = nodes /\ \A expr \in nodes : f[expr] = made(expr)
  BY <1>1
<1> QED BY <1>2 DEF made

\* The values of a run.
LEMMA RunsIs ==
  ASSUME NEW g, NEW statements, Runs(g, statements)
  PROVE  DOMAIN g = statements /\ \A s \in statements : g[s] = Ran(s, g)
<1> DEFINE chosen(s) == CHOOSE relation \in {Ran(s, g)} : TRUE
<1>1. g = [s \in statements |-> chosen(s)]
  BY DEF Runs
<1>2. ASSUME NEW s PROVE chosen(s) = Ran(s, g)
  <2> DEFINE ran == Ran(s, g)
  <2> HIDE DEF ran
  <2>1. (CHOOSE relation \in {ran} : TRUE) = ran
    OBVIOUS
  <2> QED BY <2>1 DEF ran
<1> HIDE DEF chosen
<1>3. DOMAIN g = statements /\ \A s \in statements : g[s] = chosen(s)
  BY <1>1
<1> QED BY <1>2, <1>3

\* The other way around.
LEMMA RunsFrom ==
  ASSUME NEW g, NEW statements, NEW ran,
         g = [s \in statements |-> ran[s]], \A s \in statements : ran[s] = Ran(s, g)
  PROVE  Runs(g, statements)
<1>1. ASSUME NEW s \in statements PROVE g[s] = CHOOSE relation \in {Ran(s, g)} : TRUE
  <2> DEFINE r == Ran(s, g)
  <2>1. g[s] = r
    OBVIOUS
  <2> HIDE DEF r
  <2>2. (CHOOSE relation \in {r} : TRUE) = r
    OBVIOUS
  <2> QED BY <2>1, <2>2 DEF r
<1> DEFINE chosen(s) == CHOOSE relation \in {Ran(s, g)} : TRUE
<1>2. \A s \in statements : ran[s] = chosen(s)
  BY <1>1
<1> HIDE DEF chosen
<1>3. g = [s \in statements |-> chosen(s)]
  BY <1>2
<1> QED BY <1>3 DEF Runs, chosen

\* A compilation of more nodes, on some of them.
LEMMA CompilesFewer ==
  ASSUME NEW nodes, NEW more, nodes \subseteq more, \A expr \in nodes : OnNodes(expr, nodes),
         NEW f, Compiles(f, more)
  PROVE  Compiles([expr \in nodes |-> f[expr]], nodes)
<1> DEFINE h == [expr \in nodes |-> f[expr]]
           made(expr) == CompileNode(Bindings, expr,
                                     [i \in DOMAIN Children(expr) |-> h[Children(expr)[i]]])
<1>1. ASSUME NEW expr \in nodes PROVE h[expr] = made(expr)
  <2>1. \A i \in DOMAIN Children(expr) : h[Children(expr)[i]] = f[Children(expr)[i]]
    BY DEF OnNodes
  <2> HIDE DEF h
  <2>2. [i \in DOMAIN Children(expr) |-> h[Children(expr)[i]]]
          = [i \in DOMAIN Children(expr) |-> f[Children(expr)[i]]]
    BY <2>1
  <2>3. f[expr] = CompileNode(Bindings, expr,
                              [i \in DOMAIN Children(expr) |-> f[Children(expr)[i]]])
    BY CompilesIs
  <2>4. h[expr] = f[expr]
    BY DEF h
  <2> QED BY <2>2, <2>3, <2>4
<1> HIDE DEF made
<1>2. h = [expr \in nodes |-> made(expr)]
  BY <1>1
<1> HIDE DEF h
<1>3. Compiles(h, nodes)
  BY <1>2 DEF Compiles, made
<1> QED BY <1>3 DEF h

\* One more node can be compiled.
LEMMA CompilesMore ==
  ASSUME NEW nodes, \A expr \in nodes : OnNodes(expr, nodes),
         NEW node, node \notin nodes, OnNodes(node, nodes), NEW f, Compiles(f, nodes)
  PROVE  \E h : Compiles(h, nodes \cup {node})
<1> DEFINE more == nodes \cup {node}
           made(expr, p) == CompileNode(Bindings, expr,
                                        [i \in DOMAIN Children(expr) |-> p[Children(expr)[i]]])
           h == [expr \in more |-> IF expr \in nodes THEN f[expr] ELSE made(node, f)]
<1>1. ASSUME NEW expr \in more PROVE h[expr] = made(expr, h)
  <2>1. OnNodes(expr, nodes)
    OBVIOUS
  <2>2. \A i \in DOMAIN Children(expr) : h[Children(expr)[i]] = f[Children(expr)[i]]
    BY <2>1 DEF OnNodes
  <2>3. h[expr] = IF expr \in nodes THEN f[expr] ELSE made(node, f)
    OBVIOUS
  <2> HIDE DEF h
  <2>4. [i \in DOMAIN Children(expr) |-> h[Children(expr)[i]]]
          = [i \in DOMAIN Children(expr) |-> f[Children(expr)[i]]]
    BY <2>2
  <2>5. made(expr, h) = made(expr, f)
    BY <2>4
  <2>6. expr \in nodes => f[expr] = made(expr, f)
    BY CompilesIs
  <2> HIDE DEF made, more
  <2>7. expr \notin nodes => expr = node
    BY DEF more
  <2> QED BY <2>3, <2>5, <2>6, <2>7
<1> DEFINE both(expr) == made(expr, h)
<1>2. \A expr \in more : h[expr] = both(expr)
  BY <1>1
<1>3. h = [expr \in more |-> h[expr]]
  OBVIOUS
<1> HIDE DEF made, h, both
<1>4. h = [expr \in more |-> both(expr)]
  BY <1>2, <1>3
<1> HIDE DEF more
<1>5. Compiles(h, more)
  BY <1>4 DEF Compiles, made, both
<1> QED BY <1>5 DEF more

\* For one more node it is known whether it is exact.
LEMMA ExactsMore ==
  ASSUME NEW nodes, \A expr \in nodes : OnNodes(expr, nodes),
         NEW node, node \notin nodes, OnNodes(node, nodes), NEW f, Exacts(f, nodes)
  PROVE  \E h : Exacts(h, nodes \cup {node})
<1> DEFINE more == nodes \cup {node}
           made(expr, p) == ExactNode(expr, [i \in DOMAIN Children(expr) |-> p[Children(expr)[i]]])
           h == [expr \in more |-> IF expr \in nodes THEN f[expr] ELSE made(node, f)]
<1>1. ASSUME NEW expr \in more PROVE h[expr] = made(expr, h)
  <2>1. OnNodes(expr, nodes)
    OBVIOUS
  <2>2. \A i \in DOMAIN Children(expr) : h[Children(expr)[i]] = f[Children(expr)[i]]
    BY <2>1 DEF OnNodes
  <2>3. h[expr] = IF expr \in nodes THEN f[expr] ELSE made(node, f)
    OBVIOUS
  <2> HIDE DEF h
  <2>4. [i \in DOMAIN Children(expr) |-> h[Children(expr)[i]]]
          = [i \in DOMAIN Children(expr) |-> f[Children(expr)[i]]]
    BY <2>2
  <2>5. made(expr, h) = made(expr, f)
    BY <2>4
  <2>6. expr \in nodes => f[expr] = made(expr, f)
    <3> DEFINE all(e) == made(e, f)
    <3>1. f = [e \in nodes |-> all(e)]
      BY DEF Exacts
    <3> HIDE DEF all
    <3>2. expr \in nodes => f[expr] = all(expr)
      BY <3>1
    <3> QED BY <3>2 DEF all
  <2> HIDE DEF made, more
  <2>7. expr \notin nodes => expr = node
    BY DEF more
  <2> QED BY <2>3, <2>5, <2>6, <2>7
<1> DEFINE both(expr) == made(expr, h)
<1>2. \A expr \in more : h[expr] = both(expr)
  BY <1>1
<1>3. h = [expr \in more |-> h[expr]]
  OBVIOUS
<1> HIDE DEF made, h, both
<1>4. h = [expr \in more |-> both(expr)]
  BY <1>2, <1>3
<1> HIDE DEF more
<1>5. Exacts(h, more)
  BY <1>4 DEF Exacts, made, both
<1> QED BY <1>5 DEF more

\* One more statement can be run, of parts that can.
LEMMA RunsMore ==
  ASSUME NEW statements,
         \A s \in statements : \A i \in DOMAIN Subqueries(s[1]) : PartOf(s, i) \in statements,
         NEW t, \A i \in DOMAIN Subqueries(t[1]) : PartOf(t, i) \in statements,
         NEW g, Runs(g, statements)
  PROVE  \E h : Runs(h, statements \cup {t})
<1> DEFINE more == statements \cup {t}
<1>1. CASE t \in statements
  <2>1. more = statements
    BY <1>1
  <2> QED BY <2>1
<1>2. CASE t \notin statements
  <2> DEFINE h == [s \in more |-> IF s \in statements THEN g[s] ELSE Ran(t, g)]
  <2>1. ASSUME NEW s \in more PROVE h[s] = Ran(s, h)
    <3>1. \A i \in DOMAIN Subqueries(s[1]) : PartOf(s, i) \in statements
      OBVIOUS
    <3>2. \A i \in DOMAIN Subqueries(s[1]) : h[PartOf(s, i)] = g[PartOf(s, i)]
      BY <3>1
    <3>3. h[s] = IF s \in statements THEN g[s] ELSE Ran(t, g)
      OBVIOUS
    <3> HIDE DEF h
    <3>4. [i \in DOMAIN Subqueries(s[1]) |-> h[PartOf(s, i)]]
            = [i \in DOMAIN Subqueries(s[1]) |-> g[PartOf(s, i)]]
      BY <3>2
    <3>5. Ran(s, h) = Ran(s, g)
      BY <3>4 DEF Ran
    <3>6. s \in statements => g[s] = Ran(s, g)
      BY RunsIs
    <3>7. s \notin statements => s = t
      OBVIOUS
    <3> HIDE DEF more
    <3> QED BY <3>3, <3>5, <3>6, <3>7
  <2>2. h = [s \in more |-> h[s]]
    OBVIOUS
  <2> HIDE DEF h, more
  <2>3. Runs(h, more)
    BY <2>1, <2>2, RunsFrom
  <2> QED BY <2>3 DEF more
<1> QED BY <1>1, <1>2

-----------------------------------------------------------------------------
(* The parameters of a text and of its subqueries.                         *)

\* The items of two sequences put together.
LEMMA ConcatItems ==
  ASSUME NEW S, NEW s \in Seq(S), NEW t \in Seq(S)
  PROVE  /\ s \o t \in Seq(S) /\ Len(s \o t) = Len(s) + Len(t)
         /\ \A k \in 1..Len(s) : (s \o t)[k] = s[k]
         /\ \A k \in 1..Len(t) : (s \o t)[Len(s) + k] = t[k]
OBVIOUS

\* Sequences with the same items are equal.
LEMMA SameItems ==
  ASSUME NEW S, NEW s \in Seq(S), NEW t \in Seq(S), Len(s) = Len(t),
         \A k \in 1..Len(s) : s[k] = t[k]
  PROVE  s = t
OBVIOUS

\* Two sequences put together are taken apart by their lengths.
LEMMA ConcatParts ==
  ASSUME NEW S, NEW s \in Seq(S), NEW t \in Seq(S)
  PROVE  /\ SubSeq(s \o t, 1, Len(s)) = s
         /\ SubSeq(s \o t, Len(s) + 1, Len(s \o t)) = t
<1> DEFINE u == s \o t
<1>1. /\ u \in Seq(S) /\ Len(u) = Len(s) + Len(t)
      /\ \A k \in 1..Len(s) : u[k] = s[k]
      /\ \A k \in 1..Len(t) : u[Len(s) + k] = t[k]
  BY ConcatItems
<1> HIDE DEF u
<1>2. SubSeq(u, 1, Len(s)) = s
  BY <1>1
<1>3. SubSeq(u, Len(s) + 1, Len(u)) = t
  <2> DEFINE b == SubSeq(u, Len(s) + 1, Len(u))
  <2>1. b \in Seq(S) /\ Len(b) = Len(t) /\ \A k \in 1..Len(b) : b[k] = t[k]
    BY <1>1
  <2> HIDE DEF b
  <2>2. b = t
    BY <2>1, SameItems
  <2> QED BY <2>2 DEF b
<1> QED BY <1>2, <1>3 DEF u

ValuesOf(parameters) == [k \in DOMAIN parameters |-> BoundValue(parameters[k])]
ParameterValue == {BoundValue(p) : p \in Parameter}

\* As many values as parameters are bound.
LEMMA ValuesType ==
  ASSUME NEW parameters \in Seq(Parameter)
  PROVE  /\ ValuesOf(parameters) \in Seq(ParameterValue)
         /\ Len(ValuesOf(parameters)) = Len(parameters)
         /\ \A k \in 1..Len(parameters) : ValuesOf(parameters)[k] = BoundValue(parameters[k])
<1> DEFINE n == Len(parameters)
           values == ValuesOf(parameters)
<1>1. n \in Nat /\ DOMAIN parameters = 1..n /\ \A k \in 1..n : parameters[k] \in Parameter
  OBVIOUS
<1>2. values = [k \in 1..n |-> BoundValue(parameters[k])]
  BY <1>1 DEF ValuesOf
<1>3. \A k \in 1..n : BoundValue(parameters[k]) \in ParameterValue
  BY <1>1 DEF ParameterValue
<1> HIDE DEF n, values
<1>4. values \in [1..n -> ParameterValue]
  BY <1>2, <1>3
<1>5. values \in Seq(ParameterValue) /\ Len(values) = n
  BY <1>1, <1>4
<1>6. \A k \in 1..n : values[k] = BoundValue(parameters[k])
  BY <1>2
<1> QED BY <1>5, <1>6 DEF n, values

\* Binding parameters is binding each part of them.
LEMMA ValuesConcat ==
  ASSUME NEW s \in Seq(Parameter), NEW t \in Seq(Parameter)
  PROVE  ValuesOf(s \o t) = ValuesOf(s) \o ValuesOf(t)
<1> DEFINE u == s \o t
           values == ValuesOf(u)
           first == ValuesOf(s)
           second == ValuesOf(t)
           both == first \o second
           n == Len(s)
           m == Len(t)
<1>1. /\ u \in Seq(Parameter) /\ Len(u) = n + m
      /\ \A k \in 1..n : u[k] = s[k]
      /\ \A k \in 1..m : u[n + k] = t[k]
  BY ConcatItems
<1>2. n \in Nat /\ m \in Nat
  OBVIOUS
<1> HIDE DEF u
<1>3. /\ first \in Seq(ParameterValue) /\ Len(first) = n
      /\ \A k \in 1..n : first[k] = BoundValue(s[k])
      /\ second \in Seq(ParameterValue) /\ Len(second) = m
      /\ \A k \in 1..m : second[k] = BoundValue(t[k])
      /\ values \in Seq(ParameterValue) /\ Len(values) = Len(u)
      /\ \A k \in 1..Len(u) : values[k] = BoundValue(u[k])
  BY <1>1, ValuesType
<1> HIDE DEF first, second, values, n, m
<1>4. /\ both \in Seq(ParameterValue) /\ Len(both) = n + m
      /\ \A k \in 1..n : both[k] = first[k]
      /\ \A k \in 1..m : both[n + k] = second[k]
  <2>1. first \in Seq(ParameterValue) /\ second \in Seq(ParameterValue)
    BY <1>3
  <2>2. /\ both \in Seq(ParameterValue) /\ Len(both) = Len(first) + Len(second)
        /\ \A k \in 1..Len(first) : both[k] = first[k]
        /\ \A k \in 1..Len(second) : both[Len(first) + k] = second[k]
    BY <2>1, ConcatItems
  <2> QED BY <1>3, <2>2
<1> HIDE DEF both
<1>5. ASSUME NEW k \in 1..n + m PROVE both[k] = values[k]
  <2>1. CASE k \in 1..n
    BY <1>1, <1>2, <1>3, <1>4, <2>1
  <2>2. CASE k \notin 1..n
    <3> DEFINE j == k - n
    <3>1. j \in 1..m /\ n + j = k
      BY <1>2, <2>2
    <3> HIDE DEF j
    <3>2. both[k] = second[j] /\ u[k] = t[j]
      BY <1>1, <1>4, <3>1
    <3> QED BY <1>1, <1>3, <3>1, <3>2
  <2> QED BY <2>1, <2>2
<1>6. values = both
  BY <1>1, <1>3, <1>4, <1>5, SameItems
<1> QED BY <1>6 DEF values, u, both, first, second

\* What is bound depends on the parameters only.
LEMMA BoundIs ==
  ASSUME NEW c
  PROVE  Bound(c) = ValuesOf(c.parameters)
BY DEF Bound, ValuesOf

\* The text of a Select: its subquery has the parameters of the child, and the
\* last value is that of the condition.
LEMMA SelectText ==
  ASSUME NEW condition \in Condition, NEW schema, NEW child, WellCompiled(child),
         NEW c, c = CompileSelect(condition, schema, child)
  PROVE  /\ WellCompiled(c)
         /\ c.error = "none" <=> ~condition.raw /\ child.error = "none"
         /\ c.error = "none" =>
              /\ c.text = FilterText(condition, schema, child)
              /\ Subqueries(c.text) = <<child.text>>
              /\ BoundIn(c.text, Bound(c)) = <<Bound(child)>>
              /\ condition.rightKind = "Literal" =>
                   Bound(c)[Len(Bound(c))] = BoundValue(SqlParameter(condition))
<1> DEFINE one == <<SqlParameter(condition)>>
           none == <<>>
           more == IF condition.rightKind = "Column" THEN none ELSE one
           first == child.parameters
           text == FilterText(condition, schema, child)
           marks == child.text.marks
<1>1. CASE condition.raw
  BY <1>1 DEF CompileSelect, NotCompiled, WellCompiled
<1>2. CASE ~condition.raw /\ child.error # "none"
  BY <1>2 DEF CompileSelect, WellCompiled
<1>3. CASE ~condition.raw /\ child.error = "none"
  <2>1. c = CompiledSql(text, first \o more, schema)
    BY <1>3 DEF CompileSelect
  <2>2. /\ text.from = "filtered" /\ text.q = child.text
        /\ text.marks = marks + (IF condition.rightKind # "Column" THEN 1 ELSE 0)
    BY DEF FilterText
  <2> HIDE DEF text
  <2>3. SqlParameter(condition) \in Parameter
    BY DEF SqlParameter, Parameter, Condition
  <2>4. /\ more \in Seq(Parameter)
        /\ Len(more) = IF condition.rightKind # "Column" THEN 1 ELSE 0
        /\ condition.rightKind # "Column" => more[1] = SqlParameter(condition)
    BY <2>3
  <2> HIDE DEF more
  <2>5. first \in Seq(Parameter) /\ marks = Len(first)
    BY <1>3 DEF WellCompiled
  <2> HIDE DEF first, marks
  <2> DEFINE both == first \o more
  <2>6. both \in Seq(Parameter) /\ Len(both) = Len(first) + Len(more)
    BY <2>4, <2>5, ConcatItems
  <2>7. ValuesOf(both) = ValuesOf(first) \o ValuesOf(more)
    BY <2>4, <2>5, ValuesConcat
  <2> HIDE DEF both
  <2>8. c = CompiledSql(text, both, schema)
    BY <2>1 DEF both
  <2>9. c.error = "none" /\ c.text = text /\ c.parameters = both
    BY <2>8 DEF CompiledSql
  <2>10. WellCompiled(c)
    BY <2>2, <2>4, <2>5, <2>6, <2>9 DEF WellCompiled
  <2>11. Bound(c) = ValuesOf(first) \o ValuesOf(more) /\ Bound(child) = ValuesOf(first)
    BY <2>7, <2>9, BoundIs DEF first
  <2> DEFINE a == ValuesOf(first)
             b == ValuesOf(more)
  <2>12. /\ a \in Seq(ParameterValue) /\ Len(a) = Len(first)
         /\ b \in Seq(ParameterValue) /\ Len(b) = Len(more)
         /\ \A k \in 1..Len(more) : b[k] = BoundValue(more[k])
    BY <2>4, <2>5, ValuesType
  <2> HIDE DEF a, b
  <2>13. SubSeq(a \o b, 1, Len(a)) = a
    BY <2>12, ConcatParts
  <2>14. Subqueries(c.text) = <<child.text>>
    BY <2>2, <2>9 DEF Subqueries
  <2>15. BoundIn(c.text, Bound(c)) = << SubSeq(Bound(c), 1, child.text.marks) >>
    BY <2>2, <2>9 DEF BoundIn
  <2>16. SubSeq(Bound(c), 1, child.text.marks) = Bound(child)
    BY <2>5, <2>11, <2>12, <2>13 DEF a, b, marks
  <2>17. ASSUME condition.rightKind = "Literal"
         PROVE  Bound(c)[Len(Bound(c))] = BoundValue(SqlParameter(condition))
    <3>1. Len(more) = 1 /\ more[1] = SqlParameter(condition)
      BY <2>4, <2>17
    <3>2. Len(b) = 1 /\ b[1] = BoundValue(SqlParameter(condition))
      BY <2>12, <3>1
    <3>3. /\ Len(a \o b) = Len(a) + 1 /\ (a \o b)[Len(a) + 1] = b[1]
      <4>1. /\ Len(a \o b) = Len(a) + Len(b)
            /\ \A k \in 1..Len(b) : (a \o b)[Len(a) + k] = b[k]
        <5>1. a \in Seq(ParameterValue) /\ b \in Seq(ParameterValue)
          BY <2>12
        <5> QED BY ONLY <5>1, ConcatItems
      <4> QED BY <3>2, <4>1
    <3>4. (a \o b)[Len(a \o b)] = b[1]
      BY <3>3
    <3> QED BY <2>11, <3>2, <3>4 DEF a, b
  <2> QED BY <1>3, <2>9, <2>10, <2>14, <2>15, <2>16, <2>17 DEF text
<1> QED BY <1>1, <1>2, <1>3

\* The text of a Project, and of a Rename: its subquery has all parameters.
LEMMA ProjectText ==
  ASSUME NEW columns, NEW child, WellCompiled(child), NEW c, c = CompileProject(columns, child)
  PROVE  /\ WellCompiled(c)
         /\ c.error = "none" <=> child.error = "none"
         /\ c.error = "none" =>
              /\ c.text.from = "query" /\ c.text.select = SelectColumns(columns, "q")
              /\ Subqueries(c.text) = <<child.text>>
              /\ BoundIn(c.text, Bound(c)) = <<Bound(child)>>
<1>1. CASE child.error # "none"
  BY <1>1 DEF CompileProject, WellCompiled
<1>2. CASE child.error = "none"
  <2>1. /\ c.error = "none" /\ c.parameters = child.parameters
        /\ c.text.from = "query" /\ c.text.select = SelectColumns(columns, "q")
        /\ c.text.marks = child.text.marks /\ c.text.q = child.text
    BY <1>2 DEF CompileProject, CompiledSql
  <2>2. child.parameters \in Seq(Parameter) /\ child.text.marks = Len(child.parameters)
    BY <1>2 DEF WellCompiled
  <2>3. Bound(c) = Bound(child) /\ Bound(child) = ValuesOf(child.parameters)
    BY <2>1, BoundIs
  <2>4. Bound(child) \in Seq(ParameterValue) /\ Len(Bound(child)) = child.text.marks
    BY <2>2, <2>3, ValuesType
  <2>5. SubSeq(Bound(c), 1, child.text.marks) = Bound(child)
    <3> DEFINE a == Bound(child)
    <3> HIDE DEF a
    <3>1. a \in Seq(ParameterValue) => SubSeq(a, 1, Len(a)) = a
      OBVIOUS
    <3> QED BY <2>3, <2>4, <3>1 DEF a
  <2>6. /\ Subqueries(c.text) = <<child.text>>
        /\ BoundIn(c.text, Bound(c)) = << SubSeq(Bound(c), 1, child.text.marks) >>
    BY <2>1 DEF Subqueries, BoundIn
  <2> QED BY <1>2, <2>1, <2>2, <2>5, <2>6 DEF WellCompiled
<1> QED BY <1>1, <1>2

\* The text of a Join: the left subquery takes its parameters first.
LEMMA JoinedText ==
  ASSUME NEW expr, NEW left, NEW right, WellCompiled(left), WellCompiled(right),
         NEW c, c = CompileJoin(expr, left, right)
  PROVE  /\ WellCompiled(c)
         /\ c.error = "none" <=> left.error = "none" /\ right.error = "none"
         /\ c.error = "none" =>
              /\ c.text.from = "joined"
              /\ c.text.select = SelectColumns(expr.left.schema, "l") \o
                                 SelectColumns(expr.right.schema, "r")
              /\ c.text.left = expr.leftColumn /\ c.text.right = expr.rightColumn
              /\ Subqueries(c.text) = <<left.text, right.text>>
              /\ BoundIn(c.text, Bound(c)) = <<Bound(left), Bound(right)>>
<1>1. CASE left.error # "none"
  BY <1>1 DEF CompileJoin, WellCompiled
<1>2. CASE left.error = "none" /\ right.error # "none"
  BY <1>2 DEF CompileJoin, WellCompiled
<1>3. CASE left.error = "none" /\ right.error = "none"
  <2> DEFINE columns == SelectColumns(expr.left.schema, "l") \o SelectColumns(expr.right.schema, "r")
             first == left.parameters
             second == right.parameters
             both == first \o second
  <2> HIDE DEF columns, first, second, both
  <2> DEFINE text == [select |-> columns, from |-> "joined",
                      marks |-> left.text.marks + right.text.marks,
                      l |-> left.text, r |-> right.text,
                      left |-> expr.leftColumn, right |-> expr.rightColumn]
  <2>1. c = CompiledSql(text, both, expr.schema)
    BY <1>3 DEF CompileJoin, columns, both, first, second
  <2>2. /\ text.select = columns /\ text.from = "joined"
        /\ text.marks = left.text.marks + right.text.marks
        /\ text.l = left.text /\ text.r = right.text
        /\ text.left = expr.leftColumn /\ text.right = expr.rightColumn
    OBVIOUS
  <2> HIDE DEF text
  <2>3. c.error = "none" /\ c.text = text /\ c.parameters = both
    BY <2>1 DEF CompiledSql
  <2>4. /\ first \in Seq(Parameter) /\ left.text.marks = Len(first)
        /\ second \in Seq(Parameter) /\ right.text.marks = Len(second)
    BY <1>3 DEF WellCompiled, first, second
  <2>5. /\ both \in Seq(Parameter) /\ Len(both) = Len(first) + Len(second)
        /\ ValuesOf(both) = ValuesOf(first) \o ValuesOf(second)
    BY <2>4, ConcatItems, ValuesConcat DEF both
  <2>6. WellCompiled(c)
    BY <2>2, <2>3, <2>4, <2>5 DEF WellCompiled
  <2>7. /\ Bound(c) = ValuesOf(first) \o ValuesOf(second)
        /\ Bound(left) = ValuesOf(first) /\ Bound(right) = ValuesOf(second)
    BY <2>3, <2>5, BoundIs DEF first, second
  <2> DEFINE a == ValuesOf(first)
             b == ValuesOf(second)
  <2>8. /\ a \in Seq(ParameterValue) /\ Len(a) = Len(first)
        /\ b \in Seq(ParameterValue) /\ Len(b) = Len(second)
    BY <2>4, ValuesType
  <2> HIDE DEF a, b
  <2>9. /\ SubSeq(a \o b, 1, Len(a)) = a
        /\ SubSeq(a \o b, Len(a) + 1, Len(a \o b)) = b
    BY <2>8, ConcatParts
  <2>10. Subqueries(c.text) = <<left.text, right.text>>
    BY <2>2, <2>3 DEF Subqueries
  <2>11. BoundIn(c.text, Bound(c)) = << SubSeq(Bound(c), 1, left.text.marks),
                                        SubSeq(Bound(c), left.text.marks + 1, Len(Bound(c))) >>
    BY <2>2, <2>3 DEF BoundIn
  <2>12. /\ SubSeq(Bound(c), 1, left.text.marks) = Bound(left)
         /\ SubSeq(Bound(c), left.text.marks + 1, Len(Bound(c))) = Bound(right)
    BY <2>4, <2>7, <2>8, <2>9 DEF a, b
  <2> QED BY <1>3, <2>2, <2>3, <2>6, <2>10, <2>11, <2>12 DEF columns
<1> QED BY <1>1, <1>2, <1>3

\* The text of a table has no parameters.
LEMMA TableText ==
  ASSUME NEW name, NEW schema, NEW c, c = CompileTable(Bindings, name, schema)
  PROVE  LET source == FindIn(Bindings, name, "SQLite") IN
         /\ WellCompiled(c)
         /\ c.error = "none" <=> source # <<>>
         /\ c.error = "none" =>
              /\ c.text.from = "table" /\ c.text.select = PhysicalColumns(schema)
              /\ c.text.table = source[1].physicalName
              /\ Subqueries(c.text) = <<>>
<1> DEFINE source == FindIn(Bindings, name, "SQLite")
           none == <<>>
<1>1. none \in Seq(Parameter) /\ Len(none) = 0
  OBVIOUS
<1> HIDE DEF none, source
<1>2. CASE source = <<>>
  BY <1>2 DEF CompileTable, NotCompiled, WellCompiled, source
<1>3. CASE source # <<>>
  <2>1. /\ c.error = "none" /\ c.parameters = none /\ c.text.marks = 0
        /\ c.text.from = "table" /\ c.text.select = PhysicalColumns(schema)
        /\ c.text.table = source[1].physicalName
    BY <1>3 DEF CompileTable, CompiledSql, source, none
  <2>2. Subqueries(c.text) = <<>>
    BY <2>1 DEF Subqueries
  <2> QED BY <1>1, <1>3, <2>1, <2>2 DEF WellCompiled, source
<1> QED BY <1>2, <1>3

-----------------------------------------------------------------------------
(* Everything a heap holds is compiled, and its texts are run.             *)

\* An empty heap.
LEMMA ComputedEmpty == Computed({})
<1> DEFINE f == [expr \in {} |-> TRUE]
<1>1. Compiles(f, {})
  BY DEF Compiles
<1>2. Exacts(f, {})
  BY DEF Exacts
<1>3. ASSUME NEW g, Compiles(g, {}) PROVE \E h : Runs(h, StatementsOf(g))
  <2>1. DOMAIN g = {}
    BY <1>3, CompilesIs
  <2>2. StatementsOf(g) = {}
    BY <2>1 DEF StatementsOf
  <2>3. Runs(f, {})
    BY DEF Runs
  <2> HIDE DEF f
  <2> QED BY <2>2, <2>3
<1> HIDE DEF f
<1> QED BY <1>1, <1>2, <1>3 DEF Computed

\* The compilation of a node, of its children's.
LEMMA NodeCompiled ==
  ASSUME NEW nodes, NEW f, Compiles(f, nodes), NEW e \in nodes
  PROVE  /\ e.kind = "Table" => f[e] = CompileTable(Bindings, e.name, e.schema)
         /\ e.kind = "Select" => f[e] = CompileSelect(e.condition, e.schema, f[e.child])
         /\ e.kind = "Project" => f[e] = CompileProject(e.columns, f[e.child])
         /\ e.kind = "Rename" => f[e] = CompileProject(e.schema, f[e.child])
         /\ e.kind = "Join" => f[e] = CompileJoin(e, f[e.left], f[e.right])
<1> DEFINE parts == [i \in DOMAIN Children(e) |-> f[Children(e)[i]]]
<1>1. f[e] = CompileNode(Bindings, e, parts)
  BY CompilesIs
<1>2. e.kind \in {"Select", "Project", "Rename"} => parts[1] = f[e.child]
  <2>1. e.kind \in {"Select", "Project", "Rename"} => Children(e) = <<e.child>>
    BY DEF Children
  <2> QED BY <2>1
<1>3. e.kind = "Join" => parts[1] = f[e.left] /\ parts[2] = f[e.right]
  <2>1. e.kind = "Join" => Children(e) = <<e.left, e.right>>
    BY DEF Children
  <2> QED BY <2>1
<1> HIDE DEF parts
<1> QED BY <1>1, <1>2, <1>3 DEF CompileNode, CompileRename

\* The parts of a node's statement are the statements of its children.
LEMMA NodeText ==
  ASSUME NEW nodes, NEW f, Compiles(f, nodes), NEW e \in nodes, OnNodes(e, nodes),
         \A i \in DOMAIN Children(e) : WellCompiled(f[Children(e)[i]])
  PROVE  /\ WellCompiled(f[e])
         /\ f[e].error = "none" =>
              \A i \in DOMAIN Subqueries(f[e].text) :
                /\ i \in DOMAIN Children(e) /\ f[Children(e)[i]].error = "none"
                /\ PartOf(StatementOf(f[e]), i) = StatementOf(f[Children(e)[i]])
<1> DEFINE c == f[e]
           parted == \A i \in DOMAIN Subqueries(c.text) :
                       /\ i \in DOMAIN Children(e) /\ f[Children(e)[i]].error = "none"
                       /\ PartOf(StatementOf(c), i) = StatementOf(f[Children(e)[i]])
<1> USE NodeCompiled
<1>1. \A i \in DOMAIN Subqueries(c.text) :
        PartOf(StatementOf(c), i) = <<Subqueries(c.text)[i], BoundIn(c.text, Bound(c))[i]>>
  BY DEF PartOf, StatementOf
<1>2. ASSUME NEW child, Children(e) = <<child>>, c.error = "none" => f[child].error = "none",
             c.error = "none" => /\ Subqueries(c.text) = <<f[child].text>>
                                 /\ BoundIn(c.text, Bound(c)) = <<Bound(f[child])>>
      PROVE  c.error = "none" => parted
  <2> SUFFICES ASSUME c.error = "none", NEW i \in DOMAIN Subqueries(c.text)
               PROVE  /\ i \in DOMAIN Children(e) /\ f[Children(e)[i]].error = "none"
                      /\ PartOf(StatementOf(c), i) = StatementOf(f[Children(e)[i]])
    OBVIOUS
  <2> HIDE DEF c
  <2>1. i = 1
    BY <1>2
  <2>2. Children(e)[i] = child /\ i \in DOMAIN Children(e)
    BY <1>2, <2>1
  <2>3. Subqueries(c.text)[i] = f[child].text /\ BoundIn(c.text, Bound(c))[i] = Bound(f[child])
    BY <1>2, <2>1
  <2> QED BY <1>1, <1>2, <2>2, <2>3 DEF StatementOf
<1>3. CASE e.kind = "Table"
  <2>1. WellCompiled(c) /\ (c.error = "none" => Subqueries(c.text) = <<>>)
    BY <1>3, TableText
  <2> QED BY <2>1
<1>4. CASE e.kind = "Select"
  <2> DEFINE child == f[e.child]
  <2>1. Children(e) = <<e.child>>
    BY <1>4 DEF Children
  <2>2. e.condition \in Condition
    BY <1>4 DEF OnNodes, LabelOK
  <2>3. WellCompiled(child)
    BY <2>1
  <2>4. c = CompileSelect(e.condition, e.schema, child)
    BY <1>4
  <2> DEFINE condition == e.condition
             schema == e.schema
  <2> HIDE DEF child, c, condition, schema
  <2>5. condition \in Condition /\ c = CompileSelect(condition, schema, child)
    BY <2>2, <2>4 DEF condition, schema
  <2>6. /\ WellCompiled(c)
        /\ c.error = "none" => child.error = "none"
        /\ c.error = "none" => /\ Subqueries(c.text) = <<child.text>>
                               /\ BoundIn(c.text, Bound(c)) = <<Bound(child)>>
    BY <2>3, <2>5, SelectText
  <2>7. c.error = "none" => parted
    BY <1>2, <2>1, <2>6 DEF child, c
  <2> QED BY <2>6, <2>7 DEF c
<1>5. CASE e.kind \in {"Project", "Rename"}
  <2> DEFINE child == f[e.child]
  <2>1. Children(e) = <<e.child>>
    BY <1>5 DEF Children
  <2>2. WellCompiled(child)
    BY <2>1
  <2>3. PICK columns : c = CompileProject(columns, child)
    BY <1>5
  <2> HIDE DEF child, c
  <2>4. /\ WellCompiled(c)
        /\ c.error = "none" => child.error = "none"
        /\ c.error = "none" => /\ Subqueries(c.text) = <<child.text>>
                               /\ BoundIn(c.text, Bound(c)) = <<Bound(child)>>
    BY <2>2, <2>3, ProjectText
  <2>5. c.error = "none" => parted
    BY <1>2, <2>1, <2>4 DEF child, c
  <2> QED BY <2>4, <2>5 DEF c
<1>6. CASE e.kind = "Join"
  <2> DEFINE left == f[e.left]
             right == f[e.right]
  <2>1. Children(e) = <<e.left, e.right>>
    BY <1>6 DEF Children
  <2>2. WellCompiled(left) /\ WellCompiled(right)
    BY <2>1
  <2>3. c = CompileJoin(e, left, right)
    BY <1>6
  <2> HIDE DEF left, right, c
  <2>4. /\ WellCompiled(c)
        /\ c.error = "none" => left.error = "none" /\ right.error = "none"
        /\ c.error = "none" => /\ Subqueries(c.text) = <<left.text, right.text>>
                               /\ BoundIn(c.text, Bound(c)) = <<Bound(left), Bound(right)>>
    BY <2>2, <2>3, JoinedText
  <2>5. ASSUME c.error = "none", NEW i \in DOMAIN Subqueries(c.text)
        PROVE  /\ i \in DOMAIN Children(e) /\ f[Children(e)[i]].error = "none"
               /\ PartOf(StatementOf(c), i) = StatementOf(f[Children(e)[i]])
    <3>1. i \in {1, 2}
      BY <2>4, <2>5
    <3>2. CASE i = 1
      <4>1. Children(e)[i] = e.left /\ i \in DOMAIN Children(e)
        BY <2>1, <3>2
      <4>2. Subqueries(c.text)[i] = left.text /\ BoundIn(c.text, Bound(c))[i] = Bound(left)
        BY <2>4, <2>5, <3>2
      <4> QED BY <1>1, <2>4, <2>5, <4>1, <4>2 DEF StatementOf, left
    <3>3. CASE i = 2
      <4>1. Children(e)[i] = e.right /\ i \in DOMAIN Children(e)
        BY <2>1, <3>3
      <4>2. Subqueries(c.text)[i] = right.text /\ BoundIn(c.text, Bound(c))[i] = Bound(right)
        BY <2>4, <2>5, <3>3
      <4> QED BY <1>1, <2>4, <2>5, <4>1, <4>2 DEF StatementOf, right
    <3> QED BY <3>1, <3>2, <3>3
  <2> QED BY <2>4, <2>5 DEF c
<1> QED BY <1>3, <1>4, <1>5, <1>6 DEF OnNodes, ExprKind

\* The statements are those of the nodes that compile.
LEMMA StatementsAre ==
  ASSUME NEW nodes, NEW f, Compiles(f, nodes)
  PROVE  /\ \A e \in nodes : f[e].error = "none" => StatementOf(f[e]) \in StatementsOf(f)
         /\ \A s \in StatementsOf(f) : \E e \in nodes : f[e].error = "none" /\ s = StatementOf(f[e])
<1>1. DOMAIN f = nodes
  BY CompilesIs
<1> QED BY <1>1 DEF StatementsOf

\* A node on some nodes is a node on more.
LEMMA OnNodesMore ==
  ASSUME NEW nodes, NEW more, nodes \subseteq more, NEW e, OnNodes(e, nodes)
  PROVE  OnNodes(e, more)
BY DEF OnNodes

\* One more node is compiled, and its text is run.
LEMMA ComputedMore ==
  ASSUME NEW nodes, Computed(nodes), NEW node, OnNodes(node, nodes)
  PROVE  Computed(nodes \cup {node})
<1> DEFINE more == nodes \cup {node}
<1>1. CASE node \in nodes
  <2>1. more = nodes
    BY <1>1
  <2> QED BY <2>1
<1>2. CASE node \notin nodes
  <2>1. /\ \A e \in nodes : OnNodes(e, nodes)
        /\ \A e \in more : OnNodes(e, nodes) /\ OnNodes(e, more)
    BY OnNodesMore DEF Computed
  <2>2. \E f : Compiles(f, more)
    <3>1. PICK f : Compiles(f, nodes)
      BY DEF Computed
    <3> QED BY <1>2, <2>1, <3>1, CompilesMore
  <2>3. \E h : Exacts(h, more)
    <3>1. PICK h : Exacts(h, nodes)
      BY DEF Computed
    <3> QED BY <1>2, <2>1, <3>1, ExactsMore
  <2>4. ASSUME NEW f, Compiles(f, more)
        PROVE  /\ \A e \in more : WellCompiled(f[e])
               /\ \E g : Runs(g, StatementsOf(f))
    <3> DEFINE p == [e \in nodes |-> f[e]]
    <3>1. nodes \subseteq more
      OBVIOUS
    <3>2. Compiles(p, nodes)
      BY <2>1, <2>4, <3>1, CompilesFewer
    <3>3. \A e \in nodes : p[e] = f[e]
      OBVIOUS
    <3> HIDE DEF p
    <3>4. /\ \A e \in nodes : WellCompiled(p[e])
          /\ \E g : Runs(g, StatementsOf(p))
      BY <3>2 DEF Computed
    <3>5. ASSUME NEW e \in more
          PROVE  /\ \A i \in DOMAIN Children(e) : Children(e)[i] \in nodes
                 /\ \A i \in DOMAIN Children(e) : WellCompiled(f[Children(e)[i]])
      <4>1. \A i \in DOMAIN Children(e) : Children(e)[i] \in nodes
        BY <2>1 DEF OnNodes
      <4> QED BY <3>3, <3>4, <4>1
    <3>6. ASSUME NEW e \in more
          PROVE  /\ WellCompiled(f[e])
                 /\ f[e].error = "none" =>
                      \A i \in DOMAIN Subqueries(f[e].text) :
                        /\ i \in DOMAIN Children(e) /\ f[Children(e)[i]].error = "none"
                        /\ PartOf(StatementOf(f[e]), i) = StatementOf(f[Children(e)[i]])
      <4>1. OnNodes(e, more)
        BY <2>1
      <4> HIDE DEF more
      <4> QED BY <2>4, <3>5, <4>1, NodeText
    <3>7. StatementsOf(p) = {StatementOf(f[e]) : e \in {n \in nodes : f[n].error = "none"}}
      BY <3>2, <3>3, CompilesIs DEF StatementsOf
    <3>8. StatementsOf(f) = {StatementOf(f[e]) : e \in {n \in more : f[n].error = "none"}}
      BY <2>4, CompilesIs DEF StatementsOf
    <3>9. ASSUME NEW e \in more, f[e].error = "none",
                 NEW i \in DOMAIN Subqueries(f[e].text)
          PROVE  PartOf(StatementOf(f[e]), i) \in StatementsOf(p)
      BY <3>5, <3>6, <3>7, <3>9
    <3>10. StatementOf(f[node])[1] = f[node].text
           /\ \A e \in nodes : StatementOf(f[e])[1] = f[e].text
      BY DEF StatementOf
    <3>11. \A s \in StatementsOf(p) : \A i \in DOMAIN Subqueries(s[1]) : PartOf(s, i) \in StatementsOf(p)
      <4> SUFFICES ASSUME NEW s \in StatementsOf(p), NEW i \in DOMAIN Subqueries(s[1])
                   PROVE  PartOf(s, i) \in StatementsOf(p)
        OBVIOUS
      <4>1. PICK e \in nodes : f[e].error = "none" /\ s = StatementOf(f[e])
        BY <3>7
      <4> QED BY <3>9, <3>10, <4>1
    <3>12. PICK g : Runs(g, StatementsOf(p))
      BY <3>4
    <3>13. CASE f[node].error = "none"
      <4> DEFINE t == StatementOf(f[node])
      <4>1. \A i \in DOMAIN Subqueries(t[1]) : PartOf(t, i) \in StatementsOf(p)
        BY <3>9, <3>10, <3>13
      <4>2. StatementsOf(f) = StatementsOf(p) \cup {t}
        BY <3>7, <3>8, <3>13
      <4> HIDE DEF t
      <4>3. \E h : Runs(h, StatementsOf(p) \cup {t})
        BY <3>11, <3>12, <4>1, RunsMore
      <4> QED BY <3>6, <4>2, <4>3
    <3>14. CASE f[node].error # "none"
      <4>1. StatementsOf(f) = StatementsOf(p)
        BY <3>7, <3>8, <3>14
      <4> QED BY <3>6, <3>12, <4>1
    <3> QED BY <3>13, <3>14
  <2> HIDE DEF more
  <2>5. Computed(more)
    BY <2>1, <2>2, <2>3, <2>4 DEF Computed
  <2> QED BY <2>5 DEF more
<1> QED BY <1>1, <1>2

\* The children the constructors put in.
ChildrenIn(expr, nodes) == \A i \in DOMAIN Children(expr) : Children(expr)[i] \in nodes

\* A table has no children.
LEMMA TableChildren ==
  ASSUME NEW name, NEW schema, NEW nodes
  PROVE  ChildrenIn(TableExpr(name, schema), nodes)
<1>1. Children(TableExpr(name, schema)) = <<>>
  BY DEF Children, TableExpr
<1> QED BY <1>1 DEF ChildrenIn

\* The nodes with one child.
LEMMA OneChild ==
  ASSUME NEW nodes, NEW child \in nodes, NEW label
  PROVE  /\ ChildrenIn(SelectExpr(label, child), nodes)
         /\ ChildrenIn(ProjectExpr(label, child), nodes)
         /\ ChildrenIn(RenameExpr(label, child), nodes)
<1>1. Children(SelectExpr(label, child)) = <<child>>
  BY DEF Children, SelectExpr
<1>2. Children(ProjectExpr(label, child)) = <<child>>
  BY DEF Children, ProjectExpr
<1>3. Children(RenameExpr(label, child)) = <<child>>
  BY DEF Children, RenameExpr
<1>4. DOMAIN <<child>> = {1} /\ <<child>>[1] \in nodes
  OBVIOUS
<1> QED BY <1>1, <1>2, <1>3, <1>4 DEF ChildrenIn

\* A join has two.
LEMMA TwoChildren ==
  ASSUME NEW nodes, NEW left \in nodes, NEW right \in nodes, NEW leftColumn, NEW rightColumn
  PROVE  ChildrenIn(JoinExpr(left, right, leftColumn, rightColumn), nodes)
<1> DEFINE join == JoinExpr(left, right, leftColumn, rightColumn)
<1>1. join.kind = "Join" /\ join.left = left /\ join.right = right
  BY DEF JoinExpr
<1> HIDE DEF join
<1>2. Children(join) = <<left, right>>
  BY <1>1 DEF Children
<1>3. ChildrenIn(join, nodes)
  BY <1>2 DEF ChildrenIn
<1> QED BY <1>3 DEF join

\* One more node of a heap with the type it should have.
LEMMA ComputedNode ==
  ASSUME IInv', NEW nodes, Computed(nodes), NEW node \in heap', ChildrenIn(node, nodes)
  PROVE  Computed(nodes \cup {node})
<1>1. NodeOK(node, heap')
  BY DEF IInv, TypeOK
<1>2. OnNodes(node, nodes)
  BY <1>1 DEF OnNodes, NodeOK, ChildrenIn
<1> QED BY <1>2, ComputedMore

\* A step that adds one node.
LEMMA ComputedNext ==
  ASSUME IInv', Computed(heap), NEW node, heap' = heap \cup {node}, ChildrenIn(node, heap)
  PROVE  Computed(heap)'
<1>1. Computed(heap \cup {node})
  BY ComputedNode
<1> QED BY <1>1

\* A step that adds two nodes, the second on the first.
LEMMA ComputedPair ==
  ASSUME IInv', Computed(heap), NEW first, NEW second, heap' = heap \cup {first, second},
         ChildrenIn(first, heap), ChildrenIn(second, heap \cup {first})
  PROVE  Computed(heap)'
<1> DEFINE nodes == heap \cup {first}
<1>1. Computed(nodes)
  BY ComputedNode
<1>2. ChildrenIn(second, nodes) /\ second \in heap'
  OBVIOUS
<1>3. heap' = nodes \cup {second}
  OBVIOUS
<1> HIDE DEF nodes
<1>4. Computed(nodes \cup {second})
  BY <1>1, <1>2, ComputedNode
<1> QED BY <1>3, <1>4

\* A constructor that throws adds nothing.
LEMMA DeliveredComputed ==
  ASSUME NEW expr, NEW built, NEW written, Deliver(expr, built, written), Computed(heap),
         heap' = heap \cup built => Computed(heap')
  PROVE  Computed(heap')
BY DEF Deliver, Throw

\* An input that pruning narrows is the old input, or a new node on it.
LEMMA ComputedInput ==
  ASSUME IInv', NEW nodes, Computed(nodes), NEW input \in nodes, NEW columns,
         NEW narrowed \in heap', narrowed = ProjectIfNeeded(input, columns)
  PROVE  Computed(nodes \cup {narrowed})
<1>1. CASE narrowed = input
  <2>1. nodes \cup {narrowed} = nodes
    BY <1>1
  <2> QED BY <2>1
<1>2. CASE narrowed = ProjectExpr(columns, input)
  BY <1>2, OneChild, ComputedNode
<1> QED BY <1>1, <1>2 DEF ProjectIfNeeded

\* What a step adds to the heap is compiled and run.
LEMMA ComputedByStep == ASSUME IInv, IInv', Computed(heap), Step PROVE Computed(heap')
<1>1. CASE Descend \/ SplitColumn
  BY <1>1 DEF Descend, SplitColumn
<1>2. CASE FinishTable
  <2> DEFINE table == TableExpr(Top.expr.name, Top.expr.schema)
  <2>1. Deliver(table, {table}, <<>>) /\ ChildrenIn(table, heap)
    BY <1>2, TableChildren DEF FinishTable
  <2> HIDE DEF table
  <2> QED BY <2>1, ComputedNext, DeliveredComputed
<1>3. CASE FinishRename
  <2> DEFINE rename == RenameExpr(Top.expr.alias, Top.done[1])
  <2>1. Ready("Rename") /\ Deliver(rename, {rename}, <<>>)
    BY <1>3 DEF FinishRename
  <2>2. Top.done[1] \in heap
    BY <2>1, OptimizedChild
  <2>3. ChildrenIn(rename, heap)
    BY <2>2, OneChild
  <2> HIDE DEF rename
  <2> QED BY <2>1, <2>3, ComputedNext, DeliveredComputed
<1>4. CASE FinishJoin
  <2> DEFINE join == JoinExpr(Top.done[1], Top.done[2], Top.expr.leftColumn, Top.expr.rightColumn)
  <2>1. Ready("Join") /\ Deliver(join, {join}, <<>>)
    BY <1>4 DEF FinishJoin
  <2>2. Top.done[1] \in heap /\ Top.done[2] \in heap
    BY <2>1, OptimizedSides
  <2>3. ChildrenIn(join, heap)
    BY <2>2, TwoChildren
  <2> HIDE DEF join
  <2> QED BY <2>1, <2>3, ComputedNext, DeliveredComputed
<1>5. CASE KeepSelect
  <2> DEFINE kept == SelectExpr(Top.expr.condition, Top.done[1])
  <2>1. Ready("Select") /\ \E written : Deliver(kept, {kept}, written)
    BY <1>5 DEF KeepSelect
  <2>2. Top.done[1] \in heap
    BY <2>1, SelectStart
  <2>3. ChildrenIn(kept, heap)
    BY <2>2, OneChild
  <2> HIDE DEF kept
  <2> QED BY <2>1, <2>3, ComputedNext, DeliveredComputed
<1>6. CASE KeepProject \/ GiveUpPruning
  <2>1. Ready("Project") /\ \E written : Deliver(KeptProject, {KeptProject}, written)
    BY <1>6 DEF KeepProject, GiveUpPruning, Splitting
  <2>2. Top.done[1] \in heap
    BY <2>1, ProjectStart
  <2>3. ChildrenIn(KeptProject, heap)
    BY <2>2, OneChild DEF KeptProject
  <2> QED BY <2>1, <2>3, ComputedNext, DeliveredComputed
<1>7. CASE CollapseProjects
  <2> DEFINE project == Top.done[1]
             collapsed == ProjectExpr(Top.expr.columns, project.child)
  <2>1. /\ Ready("Project") /\ project.kind = "Project"
        /\ Deliver(collapsed, {collapsed}, <<Rule("ProjectProject")>>)
    BY <1>7 DEF CollapseProjects
  <2>2. Sound(project, heap)
    BY <2>1, ProjectStart
  <2> HIDE DEF project
  <2>3. project.child \in heap
    BY <2>1, <2>2, ProjectFields DEF Sound
  <2>4. ChildrenIn(collapsed, heap)
    BY <2>3, OneChild
  <2> HIDE DEF collapsed
  <2> QED BY <2>1, <2>4, ComputedNext, DeliveredComputed
<1>8. CASE PushSelectBelowProject
  <2> DEFINE condition == Top.expr.condition
             project == Top.done[1]
             pushed == SelectExpr(condition, project.child)
             moved == ProjectExpr(project.columns, pushed)
  <2>1. /\ Ready("Select") /\ project.kind = "Project"
        /\ Deliver(moved, {pushed, moved}, <<Rule("SelectProject")>>)
    BY <1>8 DEF PushSelectBelowProject, PushesBelowProject
  <2>2. Sound(project, heap)
    BY <2>1, SelectStart
  <2> HIDE DEF project
  <2>3. project.child \in heap
    BY <2>1, <2>2, ProjectFields DEF Sound
  <2>4. ChildrenIn(pushed, heap)
    BY <2>3, OneChild
  <2> HIDE DEF pushed
  <2>5. ChildrenIn(moved, heap \cup {pushed})
    BY OneChild
  <2> HIDE DEF moved
  <2> QED BY <2>1, <2>4, <2>5, ComputedPair, DeliveredComputed
<1>9. CASE PushSelectLeft
  <2> DEFINE condition == Top.expr.condition
             join == Top.done[1]
             pushed == SelectExpr(condition, join.left)
             moved == JoinExpr(pushed, join.right, join.leftColumn, join.rightColumn)
  <2>1. /\ Ready("Select") /\ join.kind = "Join"
        /\ Deliver(moved, {pushed, moved}, <<Rule("SelectJoinLeft")>>)
    BY <1>9 DEF PushSelectLeft, PushesInto
  <2>2. join \in heap
    BY <2>1, SelectStart
  <2> HIDE DEF join
  <2>3. join.left \in heap /\ join.right \in heap
    BY <2>1, <2>2, SidesOf
  <2>4. ChildrenIn(pushed, heap)
    BY <2>3, OneChild
  <2> HIDE DEF pushed
  <2>5. ChildrenIn(moved, heap \cup {pushed})
    BY <2>3, TwoChildren
  <2> HIDE DEF moved
  <2> QED BY <2>1, <2>4, <2>5, ComputedPair, DeliveredComputed
<1>10. CASE PushSelectRight
  <2> DEFINE condition == Top.expr.condition
             join == Top.done[1]
             pushed == SelectExpr(condition, join.right)
             moved == JoinExpr(join.left, pushed, join.leftColumn, join.rightColumn)
  <2>1. /\ Ready("Select") /\ join.kind = "Join"
        /\ Deliver(moved, {pushed, moved}, <<Rule("SelectJoinRight")>>)
    BY <1>10 DEF PushSelectRight, PushesInto
  <2>2. join \in heap
    BY <2>1, SelectStart
  <2> HIDE DEF join
  <2>3. join.left \in heap /\ join.right \in heap
    BY <2>1, <2>2, SidesOf
  <2>4. ChildrenIn(pushed, heap)
    BY <2>3, OneChild
  <2> HIDE DEF pushed
  <2>5. ChildrenIn(moved, heap \cup {pushed})
    BY <2>3, TwoChildren
  <2> HIDE DEF moved
  <2> QED BY <2>1, <2>4, <2>5, ComputedPair, DeliveredComputed
<1>11. CASE PruneProject
  <2> DEFINE join == Top.done[1]
             leftList == AppendUnique(Top.split.left, join.leftColumn)
             rightList == AppendUnique(Top.split.right, join.rightColumn)
             left == ProjectIfNeeded(join.left, leftList)
             right == ProjectIfNeeded(join.right, rightList)
             pruned == JoinExpr(left, right, join.leftColumn, join.rightColumn)
             kept == ProjectExpr(Top.expr.columns, pruned)
  <2>1. /\ Ready("Project") /\ join.kind = "Join"
        /\ Deliver(kept, {left, right, pruned, kept}, <<Rule("Pruning")>>)
    BY <1>11 DEF PruneProject, Splitting
  <2>2. join \in heap
    BY <2>1, ProjectStart
  <2> HIDE DEF join, leftList, rightList
  <2>3. join.left \in heap /\ join.right \in heap
    BY <2>1, <2>2, SidesOf
  <2>4. ASSUME heap' = heap \cup {left, right, pruned, kept} PROVE Computed(heap')
    <3> DEFINE some == heap \cup {left}
               more == some \cup {right}
               most == more \cup {pruned}
               input == join.left
               other == join.right
    <3>1. /\ left \in heap' /\ right \in heap' /\ pruned \in heap' /\ kept \in heap'
          /\ heap' = most \cup {kept}
      <4> HIDE DEF left, right, pruned, kept
      <4> QED BY <2>4
    <3>2. left = ProjectIfNeeded(input, leftList) /\ right = ProjectIfNeeded(other, rightList)
      OBVIOUS
    <3> HIDE DEF left, right
    <3>3. input \in heap /\ other \in some
      BY <2>3
    <3> HIDE DEF input, other
    <3>4. Computed(some)
      BY <3>1, <3>2, <3>3, ComputedInput
    <3> HIDE DEF some
    <3>5. Computed(more)
      BY <3>1, <3>2, <3>3, <3>4, ComputedInput
    <3>6. left \in more /\ right \in more
      BY DEF some
    <3> HIDE DEF more
    <3>7. ChildrenIn(pruned, more)
      BY <3>6, TwoChildren
    <3> HIDE DEF pruned
    <3>8. Computed(most)
      BY <3>1, <3>5, <3>7, ComputedNode
    <3>9. ChildrenIn(kept, most)
      BY OneChild
    <3> HIDE DEF most, kept
    <3>10. Computed(most \cup {kept})
      BY <3>1, <3>8, <3>9, ComputedNode
    <3> QED BY <3>1, <3>10
  <2> HIDE DEF left, right, pruned, kept
  <2> QED BY <2>1, <2>4, DeliveredComputed
<1> QED BY <1>1, <1>2, <1>3, <1>4, <1>5, <1>6, <1>7, <1>8, <1>9, <1>10, <1>11 DEF Step

\* What the client builds is compiled and run.
LEMMA ComputedByClient == ASSUME IInv, IInv', Computed(heap), Client PROVE Computed(heap')
<1>1. workspace \in Seq(heap)
  BY DEF IInv, TypeOK
<1>2. ASSUME NEW expr, NEW consumed, Build(expr, consumed), ChildrenIn(expr, heap)
      PROVE  Computed(heap')
  <2>1. heap' = heap \cup {expr}
    BY <1>2 DEF Build
  <2> QED BY <1>2, <2>1, ComputedNext
<1>3. workspace # <<>> => Last \in heap
  BY <1>1 DEF Last
<1>4. CASE Table
  BY <1>2, <1>4, TableChildren DEF Table
<1>5. CASE Sigma
  BY <1>2, <1>3, <1>5, OneChild DEF Sigma
<1>6. CASE Pi
  BY <1>2, <1>3, <1>6, OneChild DEF Pi
<1>7. CASE Rho
  BY <1>2, <1>3, <1>7, OneChild DEF Rho
<1>8. CASE Join
  <2> DEFINE first == workspace[Len(workspace) - 1]
  <2>1. first \in heap /\ Last \in heap
    BY <1>1, <1>8 DEF Join, Last
  <2>2. PICK keys \in JoinKeys : Build(JoinExpr(first, Last, keys[1], keys[2]), 2)
    BY <1>8 DEF Join
  <2> HIDE DEF first
  <2> QED BY <1>2, <2>1, <2>2, TwoChildren
<1>9. CASE OptimizeQuery \/ OptimizeAgain
  BY <1>9 DEF OptimizeQuery, OptimizeAgain, Optimize
<1> QED BY <1>4, <1>5, <1>6, <1>7, <1>8, <1>9 DEF Client

\* Every step leaves a heap that is compiled and run.
LEMMA ComputedStep == ASSUME IInv, IInv', Computed(heap), [Next]_vars PROVE Computed(heap')
<1>1. CASE UNCHANGED vars
  BY <1>1 DEF vars
<1> QED BY <1>1, ComputedByStep, ComputedByClient DEF Next

-----------------------------------------------------------------------------
(* What the definitions of SqlRewrites compute on such a heap.             *)

\* Compiled is such a compilation.
LEMMA HeapCompiled ==
  ASSUME catalog = Bindings, Computed(heap)
  PROVE  Compiles(Compiled, heap)
<1> DEFINE is(f) == Compiles(f, heap)
<1>1. \E f : is(f)
  BY DEF Computed
<1>2. Compiled = CHOOSE f : is(f)
  BY DEF Compiled, Compiles
<1> HIDE DEF is
<1>3. is(Compiled)
  BY <1>1, <1>2
<1> QED BY <1>3 DEF is

\* ExactOf says of every node whether it is exact.
LEMMA HeapExact ==
  ASSUME Computed(heap)
  PROVE  Exacts(ExactOf, heap)
<1> DEFINE is(f) == Exacts(f, heap)
<1>1. \E f : is(f)
  BY DEF Computed
<1>2. ExactOf = CHOOSE f : is(f)
  BY DEF ExactOf, Exacts
<1> HIDE DEF is
<1>3. is(ExactOf)
  BY <1>1, <1>2
<1> QED BY <1>3 DEF is

\* Relations is such a run.
LEMMA HeapRuns ==
  ASSUME catalog = Bindings, Computed(heap)
  PROVE  Statements = StatementsOf(Compiled) /\ Runs(Relations, StatementsOf(Compiled))
<1>1. Compiles(Compiled, heap)
  BY HeapCompiled
<1>2. Statements = StatementsOf(Compiled)
  BY <1>1, CompilesIs DEF Statements, StatementsOf, StatementOf
<1> DEFINE is(g) == Runs(g, Statements)
<1>3. \E g : is(g)
  BY <1>1, <1>2 DEF Computed
<1>4. Relations = CHOOSE g : is(g)
  BY DEF Relations, Runs, Ran, PartOf
<1> HIDE DEF is
<1>5. is(Relations)
  BY <1>3, <1>4
<1> QED BY <1>2, <1>5 DEF is

\* The text of a Select filters.
LEMMA FilteredIs ==
  ASSUME NEW condition \in Condition, ~condition.raw, NEW schema, NEW child, NEW relation,
         NEW bound, condition.rightKind = "Literal" => bound = BoundValue(SqlParameter(condition))
  PROVE  Filtered(FilterText(condition, schema, child), relation, bound)
           = FilterOf(condition, schema, relation)
<1> DEFINE text == FilterText(condition, schema, child)
           items == SelectColumns(schema, "q")
           right(id) == IF text.rightKind = "Literal" THEN [value |-> bound, affinity |-> "none"]
                        ELSE At(relation, id, text.right)
           bad == \/ relation.error # "none" \/ ~Names(relation, text.left)
                  \/ text.rightKind = "Column" /\ ~Names(relation, text.right)
           ids == {id \in DOMAIN relation.rows :
                     SqlCompare(text.compareOp, At(relation, id, text.left), right(id))}
<1>1. Filtered(text, relation, bound)
        = IF bad THEN Unprepared ELSE Selected(text.select, relation, ids)
  BY DEF Filtered
<1>2. /\ text.left = condition.leftColumn /\ text.compareOp = condition.compareOp
      /\ text.rightKind = condition.rightKind /\ text.select = items
      /\ condition.rightKind = "Column" => text.right = condition.rightColumn
  BY DEF FilterText
<1>3. condition.rightKind \in {"Column", "Literal"}
  BY RightKinds
<1> HIDE DEF text, items
<1>4. \A id : right(id) = RightSide(condition, relation, id)
  BY <1>2, <1>3 DEF RightSide
<1> HIDE DEF right
<1>5. bad <=> ~(relation.error = "none" /\ Asks(condition, relation))
  BY <1>2 DEF Asks, Names
<1>6. ids = Accepted(condition, relation)
  BY <1>2, <1>4 DEF Accepted, Accepts
<1> HIDE DEF bad, ids
<1>7. Selected(text.select, relation, Accepted(condition, relation))
        = Chosen(schema, relation, Accepted(condition, relation))
  BY <1>2 DEF Chosen, items
<1> QED BY <1>1, <1>5, <1>6, <1>7 DEF FilterOf, text

\* Of the text of a Join, its clauses count.
LEMMA JoinedByClauses ==
  ASSUME NEW text, NEW other, text.select = other.select, text.left = other.left,
         text.right = other.right, NEW l, NEW r
  PROVE  Joined(text, l, r) = Joined(other, l, r)
<1> DEFINE pairs(left, right) ==
             {pair \in (DOMAIN l.rows) \X (DOMAIN r.rows) :
                SqlCompare("Equal", At(l, pair[1], left), At(r, pair[2], right))}
           side(columns, k) == IF columns[k].side = "l" THEN l ELSE r
           row(columns, pair, k) == IF columns[k].side = "l" THEN pair[1] ELSE pair[2]
           bad(columns, left, right) ==
             \/ "prepare" \in {l.error, r.error} \/ ~Names(l, left) \/ ~Names(r, right)
             \/ \E k \in DOMAIN columns : ~Names(side(columns, k), columns[k].source)
           titles(columns) == [k \in DOMAIN columns |-> columns[k].as]
           affinities(columns) ==
             [k \in DOMAIN columns |-> AffinityOf(side(columns, k), columns[k].source)]
           rows(columns, matches) ==
             [pair \in matches |->
                [k \in DOMAIN columns |->
                   At(side(columns, k), row(columns, pair, k), columns[k].source).value]]
           made(columns, left, right, matches) ==
             IF bad(columns, left, right) THEN Unprepared
             ELSE Relation(titles(columns), affinities(columns), rows(columns, matches))
<1>1. /\ Matches(text, l, r) = pairs(text.left, text.right)
      /\ Matches(other, l, r) = pairs(other.left, other.right)
  BY DEF Matches
<1>2. ASSUME NEW t
      PROVE  Joined(t, l, r) = made(t.select, t.left, t.right, Matches(t, l, r))
  BY DEF Joined
<1> HIDE DEF pairs, made
<1> QED BY <1>1, <1>2

\* The relation of a node, if it has one.
HeapRelation == [e \in heap |-> IF Compiled[e].error # "none" THEN Unprepared
                                ELSE Relations[StatementOf(Compiled[e])]]

\* It is what SQLite makes of the relations of the node's children.
LEMMA RelationIs ==
  ASSUME catalog = Bindings, Computed(heap), NEW e \in heap
  PROVE  LET c == Compiled[e] IN
         /\ c.error # "none" => HeapRelation[e] = Unprepared
         /\ c.error = "none" =>
              \E parts :
                /\ HeapRelation[e] = RelationNode(Database, c.text, Bound(c), parts)
                /\ \A i \in DOMAIN Subqueries(c.text) : parts[i] = HeapRelation[Children(e)[i]]
<1> DEFINE c == Compiled[e]
<1>1. /\ Compiles(Compiled, heap) /\ Runs(Relations, StatementsOf(Compiled))
      /\ \A x \in heap : OnNodes(x, heap) /\ WellCompiled(Compiled[x])
  BY HeapCompiled, HeapRuns DEF Computed
<1>2. ASSUME NEW x \in heap
      PROVE  HeapRelation[x] = IF Compiled[x].error # "none" THEN Unprepared
                               ELSE Relations[StatementOf(Compiled[x])]
  BY DEF HeapRelation
<1>3. ASSUME c.error = "none"
      PROVE  \E parts :
                /\ HeapRelation[e] = RelationNode(Database, c.text, Bound(c), parts)
                /\ \A i \in DOMAIN Subqueries(c.text) : parts[i] = HeapRelation[Children(e)[i]]
  <2> DEFINE s == StatementOf(c)
             parts == [i \in DOMAIN Subqueries(s[1]) |-> Relations[PartOf(s, i)]]
  <2>1. s[1] = c.text /\ s[2] = Bound(c)
    BY DEF StatementOf
  <2>2. s \in StatementsOf(Compiled)
    BY <1>1, <1>3, StatementsAre
  <2>3. Relations[s] = RelationNode(Database, s[1], s[2], parts)
    BY <1>1, <2>2, RunsIs DEF Ran
  <2>4. \A i \in DOMAIN Children(e) : /\ Children(e)[i] \in heap
                                      /\ WellCompiled(Compiled[Children(e)[i]])
    BY <1>1 DEF OnNodes
  <2>5. \A i \in DOMAIN Subqueries(c.text) :
          /\ i \in DOMAIN Children(e) /\ Compiled[Children(e)[i]].error = "none"
          /\ PartOf(s, i) = StatementOf(Compiled[Children(e)[i]])
    BY <1>1, <1>3, <2>4, NodeText
  <2>6. ASSUME NEW i \in DOMAIN Subqueries(c.text)
        PROVE  parts[i] = HeapRelation[Children(e)[i]]
    <3>1. parts[i] = Relations[StatementOf(Compiled[Children(e)[i]])]
      BY <2>1, <2>5
    <3> QED BY <1>2, <2>4, <2>5, <3>1
  <2>7. HeapRelation[e] = RelationNode(Database, c.text, Bound(c), parts)
    BY <1>2, <1>3, <2>1, <2>3
  <2> HIDE DEF parts, c
  <2> QED BY <2>6, <2>7
<1> QED BY <1>2, <1>3

\* Every node has the relation its kind makes of its children's.
LEMMA HeapMeans ==
  ASSUME catalog = Bindings, Computed(heap), IInv
  PROVE  Means(HeapRelation, heap)
<1> DEFINE m == HeapRelation
<1> SUFFICES ASSUME NEW e \in heap
             PROVE  /\ e.kind = "Table" => m[e] = TableOf(e.name, e.schema)
                    /\ e.kind = "Select" => m[e] = FilterOf(e.condition, e.schema, m[e.child])
                    /\ e.kind = "Project" => m[e] = ColumnsOf(e.columns, m[e.child])
                    /\ e.kind = "Rename" => m[e] = ColumnsOf(e.schema, m[e.child])
                    /\ e.kind = "Join" => m[e] = JoinOf(e.left.schema, e.right.schema, e.leftColumn,
                                                        e.rightColumn, m[e.left], m[e.right])
  BY DEF Means
<1> DEFINE c == Compiled[e]
<1>1. /\ Compiles(Compiled, heap)
      /\ \A x \in heap : OnNodes(x, heap) /\ WellCompiled(Compiled[x])
  BY HeapCompiled DEF Computed
<1>2. /\ c.error # "none" => m[e] = Unprepared
      /\ c.error = "none" =>
           \E parts :
             /\ m[e] = RelationNode(Database, c.text, Bound(c), parts)
             /\ \A i \in DOMAIN Subqueries(c.text) : parts[i] = m[Children(e)[i]]
  BY RelationIs
<1>3. \A x \in heap : Compiled[x].error # "none" => m[x] = Unprepared
  BY DEF HeapRelation
<1>4. /\ OnNodes(e, heap) /\ LabelOK(e)
      /\ \A i \in DOMAIN Children(e) : Children(e)[i] \in heap
  BY <1>1 DEF OnNodes
<1>5. /\ e.kind = "Table" => c = CompileTable(Bindings, e.name, e.schema)
      /\ e.kind = "Select" => c = CompileSelect(e.condition, e.schema, Compiled[e.child])
      /\ e.kind = "Project" => c = CompileProject(e.columns, Compiled[e.child])
      /\ e.kind = "Rename" => c = CompileProject(e.schema, Compiled[e.child])
      /\ e.kind = "Join" => c = CompileJoin(e, Compiled[e.left], Compiled[e.right])
  BY <1>1, NodeCompiled
<1> HIDE DEF c, m
<1>6. CASE e.kind = "Table"
  <2> DEFINE source == FindIn(Bindings, e.name, "SQLite")
             table == source[1].physicalName
             columns == PhysicalColumns(e.schema)
             answer == TableAnswer(Database[table], columns)
  <2>1. /\ c.error = "none" <=> source # <<>>
        /\ c.error = "none" =>
             /\ c.text.from = "table" /\ c.text.select = columns /\ c.text.table = table
    BY <1>5, <1>6, TableText
  <2>2. TableOf(e.name, e.schema) = IF source = <<>> \/ table \notin DOMAIN Database
                                    THEN Unprepared ELSE answer
    BY DEF TableOf
  <2> HIDE DEF source, table, columns
  <2>3. ASSUME c.error = "none"
        PROVE  m[e] = IF table \in DOMAIN Database THEN answer ELSE Unprepared
    <3>1. PICK parts : m[e] = RelationNode(Database, c.text, Bound(c), parts)
      BY <1>2, <2>3
    <3> QED BY <2>1, <2>3, <3>1 DEF RelationNode
  <2> HIDE DEF answer
  <2>4. m[e] = TableOf(e.name, e.schema)
    BY <1>2, <2>1, <2>2, <2>3
  <2> QED BY <1>6, <2>4
<1>7. CASE e.kind = "Select"
  <2> DEFINE condition == e.condition
             schema == e.schema
             child == Compiled[e.child]
             relation == m[e.child]
  <2>1. condition \in Condition /\ Children(e) = <<e.child>> /\ e.child \in heap
    <3>1. condition \in Condition /\ Children(e) = <<e.child>>
      BY <1>4, <1>7 DEF LabelOK, Children
    <3> QED BY <1>4, <3>1
  <2>2. WellCompiled(child) /\ (child.error # "none" => relation = Unprepared)
    BY <1>1, <1>3, <2>1
  <2>3. c = CompileSelect(condition, schema, child)
    BY <1>5, <1>7
  <2>4. c.error = "none" => m[e.child] = m[Children(e)[1]]
    BY <2>1
  <2> HIDE DEF condition, schema, child, relation
  <2>5. /\ c.error = "none" <=> ~condition.raw /\ child.error = "none"
        /\ c.error = "none" =>
             /\ c.text = FilterText(condition, schema, child)
             /\ Subqueries(c.text) = <<child.text>>
             /\ condition.rightKind = "Literal" =>
                  Bound(c)[Len(Bound(c))] = BoundValue(SqlParameter(condition))
    BY <2>1, <2>2, <2>3, SelectText
  <2>6. ASSUME c.error = "none" PROVE m[e] = FilterOf(condition, schema, relation)
    <3> DEFINE text == FilterText(condition, schema, child)
               bound == IF text.rightKind = "Literal" THEN Bound(c)[Len(Bound(c))] ELSE SqlNull
    <3>1. PICK parts : /\ m[e] = RelationNode(Database, text, Bound(c), parts)
                       /\ \A i \in DOMAIN Subqueries(text) : parts[i] = m[Children(e)[i]]
      BY <1>2, <2>5, <2>6
    <3>2. 1 \in DOMAIN Subqueries(text)
      <4> HIDE DEF text
      <4> QED BY <2>5, <2>6 DEF text
    <3>3. parts[1] = relation
      BY <2>4, <2>6, <3>1, <3>2 DEF relation
    <3>4. text.from = "filtered" /\ text.rightKind = condition.rightKind
      BY DEF FilterText
    <3>5. m[e] = Filtered(text, relation, bound)
      <4> HIDE DEF text
      <4> QED BY <3>1, <3>3, <3>4 DEF RelationNode
    <3>6. condition.rightKind = "Literal" => bound = BoundValue(SqlParameter(condition))
      <4> HIDE DEF text
      <4> QED BY <2>5, <2>6, <3>4
    <3> HIDE DEF bound
    <3>7. Filtered(text, relation, bound) = FilterOf(condition, schema, relation)
      BY <2>1, <2>5, <2>6, <3>6, FilteredIs
    <3> QED BY <3>5, <3>7
  <2>7. ASSUME c.error # "none" PROVE m[e] = FilterOf(condition, schema, relation)
    <3>1. CASE condition.raw
      BY <1>2, <2>7, <3>1 DEF FilterOf, Asks
    <3>2. CASE child.error # "none"
      BY <1>2, <2>2, <2>7, <3>2, ErrorOfUnprepared DEF FilterOf
    <3> QED BY <2>5, <2>7, <3>1, <3>2
  <2> QED BY <1>7, <2>6, <2>7 DEF condition, schema, relation
<1>8. CASE e.kind \in {"Project", "Rename"}
  <2>1. Children(e) = <<e.child>> /\ e.child \in heap
    <3>1. Children(e) = <<e.child>>
      BY <1>8 DEF Children
    <3> QED BY <1>4, <3>1
  <2> DEFINE child == Compiled[e.child]
             relation == m[e.child]
  <2>2. WellCompiled(child) /\ (child.error # "none" => relation = Unprepared)
    BY <1>1, <1>3, <2>1
  <2>3. m[e.child] = m[Children(e)[1]]
    BY <2>1
  <2> HIDE DEF child, relation
  <2>4. ASSUME NEW columns, c = CompileProject(columns, child)
        PROVE  m[e] = ColumnsOf(columns, relation)
    <3> DEFINE items == SelectColumns(columns, "q")
    <3> HIDE DEF items
    <3>1. /\ c.error = "none" <=> child.error = "none"
          /\ c.error = "none" =>
               /\ c.text.from = "query" /\ c.text.select = items
               /\ Subqueries(c.text) = <<child.text>>
      BY <2>2, <2>4, ProjectText DEF items
    <3>2. ColumnsOf(columns, relation) = Selected(items, relation, DOMAIN relation.rows)
      BY DEF ColumnsOf, Chosen, items
    <3>3. CASE c.error = "none"
      <4>1. PICK parts : /\ m[e] = RelationNode(Database, c.text, Bound(c), parts)
                         /\ \A i \in DOMAIN Subqueries(c.text) : parts[i] = m[Children(e)[i]]
        BY <1>2, <3>3
      <4>2. parts[1] = relation
        BY <2>3, <3>1, <3>3, <4>1 DEF relation
      <4> QED BY <3>1, <3>2, <3>3, <4>1, <4>2 DEF RelationNode
    <3>4. CASE c.error # "none"
      <4>1. m[e] = Unprepared /\ relation = Unprepared
        BY <1>2, <2>2, <3>1, <3>4
      <4> QED BY <3>2, <4>1, ErrorOfUnprepared DEF Selected
    <3> QED BY <3>3, <3>4
  <2> QED BY <1>5, <1>8, <2>4 DEF child, relation
<1>9. CASE e.kind = "Join"
  <2>1. Children(e) = <<e.left, e.right>> /\ e.left \in heap /\ e.right \in heap
    <3>1. Children(e) = <<e.left, e.right>>
      BY <1>9 DEF Children
    <3> QED BY <1>4, <3>1
  <2> DEFINE left == Compiled[e.left]
             right == Compiled[e.right]
             l == m[e.left]
             r == m[e.right]
             text == JoinText(e.left.schema, e.right.schema, e.leftColumn, e.rightColumn)
  <2>2. /\ WellCompiled(left) /\ (left.error # "none" => l = Unprepared)
        /\ WellCompiled(right) /\ (right.error # "none" => r = Unprepared)
    BY <1>1, <1>3, <2>1
  <2>3. l = m[Children(e)[1]] /\ r = m[Children(e)[2]]
    BY <2>1
  <2>4. c = CompileJoin(e, left, right)
    BY <1>5, <1>9
  <2>5. /\ text.select = SelectColumns(e.left.schema, "l") \o SelectColumns(e.right.schema, "r")
        /\ text.left = e.leftColumn /\ text.right = e.rightColumn
    BY DEF JoinText
  <2> HIDE DEF left, right, l, r
  <2>6. /\ c.error = "none" <=> left.error = "none" /\ right.error = "none"
        /\ c.error = "none" =>
             /\ c.text.from = "joined" /\ c.text.select = text.select
             /\ c.text.left = text.left /\ c.text.right = text.right
             /\ Subqueries(c.text) = <<left.text, right.text>>
    <3> HIDE DEF text
    <3> QED BY <2>2, <2>4, <2>5, JoinedText
  <2>7. m[e] = Joined(text, l, r)
    <3> HIDE DEF text
    <3>1. CASE c.error = "none"
      <4>1. PICK parts : /\ m[e] = RelationNode(Database, c.text, Bound(c), parts)
                         /\ \A i \in DOMAIN Subqueries(c.text) : parts[i] = m[Children(e)[i]]
        BY <1>2, <3>1
      <4>2. parts[1] = l /\ parts[2] = r
        BY <2>3, <2>6, <3>1, <4>1
      <4>3. m[e] = Joined(c.text, l, r)
        BY <2>6, <3>1, <4>1, <4>2 DEF RelationNode
      <4> DEFINE made == c.text
      <4>4. m[e] = Joined(made, l, r) /\ made.select = text.select
            /\ made.left = text.left /\ made.right = text.right
        BY <2>6, <3>1, <4>3
      <4> HIDE DEF made
      <4>5. Joined(made, l, r) = Joined(text, l, r)
        BY <4>4, JoinedByClauses
      <4> QED BY <4>4, <4>5
    <3>2. CASE c.error # "none"
      <4>1. m[e] = Unprepared /\ (l = Unprepared \/ r = Unprepared)
        BY <1>2, <2>2, <2>6, <3>2
      <4>2. "prepare" \in {l.error, r.error}
        BY <4>1, ErrorOfUnprepared
      <4> QED BY <4>1, <4>2 DEF Joined
    <3> QED BY <3>1, <3>2
  <2> QED BY <1>9, <2>7 DEF JoinOf, l, r
<1> QED BY <1>4, <1>6, <1>7, <1>8, <1>9 DEF OnNodes, ExprKind

-----------------------------------------------------------------------------
(* What SQLite answers the client.                                         *)

\* The answer is the relation of the node, unless it has an error.
LEMMA AnswersAre ==
  ASSUME NEW e \in heap
  PROVE  LET r == HeapRelation[e] IN SqlAnswers(e) = IF r.error = "none" THEN {r} ELSE {}
<1> DEFINE c == Compiled[e]
           r == HeapRelation[e]
<1>1. SqlAnswers(e) = {q \in {Relations[StatementOf(d)] : d \in {f \in {c} : f.error = "none"}} :
                         q.error = "none"}
  BY DEF SqlAnswers, StatementOf
<1>2. r = IF c.error # "none" THEN Unprepared ELSE Relations[StatementOf(c)]
  BY DEF HeapRelation
<1> HIDE DEF c, r
<1>3. CASE c.error = "none"
  <2>1. {Relations[StatementOf(d)] : d \in {f \in {c} : f.error = "none"}} = {r}
    BY <1>2, <1>3
  <2>2. SqlAnswers(e) = {q \in {r} : q.error = "none"}
    BY <1>1, <2>1
  <2>3. SqlAnswers(e) = IF r.error = "none" THEN {r} ELSE {}
    BY <2>2
  <2> QED BY <2>3 DEF r
<1>4. CASE c.error # "none"
  <2>1. r.error # "none"
    BY <1>2, <1>4, ErrorOfUnprepared
  <2>2. SqlAnswers(e) = {}
    BY <1>1, <1>4
  <2> QED BY <2>1, <2>2 DEF r
<1> QED BY <1>3, <1>4

\* Among the columns of a Select, the ones kept are those their names find.
LEMMA KeptBySelect ==
  ASSUME IInv, Computed(heap), NEW e \in heap, e.kind = "Select",
         NEW k \in KeptColumns(e, ExactOf[e])
  PROVE  k \in DOMAIN e.schema /\ k = ColumnIndex(e.schema, e.schema[k])
<1> DEFINE parts == [i \in DOMAIN Children(e) |-> ExactOf[Children(e)[i]]]
<1>1. ExactOf[e] = ExactNode(e, parts)
  <2> DEFINE all(x) == ExactNode(x, [i \in DOMAIN Children(x) |-> ExactOf[Children(x)[i]]])
  <2>1. ExactOf = [x \in heap |-> all(x)]
    BY HeapExact DEF Exacts
  <2> HIDE DEF all
  <2>2. ExactOf[e] = all(e)
    BY <2>1
  <2> QED BY <2>2 DEF all
<1>2. Children(e) = <<e.child>>
  BY DEF Children
<1>3. 1 \in DOMAIN parts /\ Children(e)[1] = e.child
  BY <1>2
<1>4. e.schema = e.child.schema
  <2>1. e = SelectExpr(e.condition, e.child)
    BY HeapIsSound, SelectFields DEF NodesSound, Sound
  <2>2. PICK condition, child : condition = e.condition /\ child = e.child
    OBVIOUS
  <2>3. SelectExpr(condition, child).schema = child.schema
    BY DEF SelectExpr
  <2> QED BY <2>1, <2>2, <2>3
<1>5. ExactOf[e] => Distinct(e.schema)
  <2> HIDE DEF parts
  <2> QED BY <1>1, <1>3, <1>4 DEF ExactNode
<1> QED BY <1>5 DEF KeptColumns, Distinct

\* Relations no SELECT can tell apart have the same cells where the names find them.
LEMMA AlikeCells ==
  ASSUME NEW a, NEW b, Alike(a, b), a.error = "none", NEW schema, a.names = schema,
         NEW k \in DOMAIN schema, k = ColumnIndex(schema, schema[k]), NEW id \in DOMAIN a.rows
  PROVE  a.rows[id][k] = b.rows[id][k]
<1>1. CASE a = b
  BY <1>1
<1>2. CASE a # b
  <2>1. b.names = schema /\ At(a, id, schema[k]) = At(b, id, schema[k])
    BY <1>2 DEF Alike, Sees
  <2>2. At(a, id, schema[k]).value = a.rows[id][k] /\ At(b, id, schema[k]).value = b.rows[id][k]
    BY <2>1 DEF At
  <2> QED BY <2>1, <2>2
<1> QED BY <1>1, <1>2

\* Relations that are kept are answers that are kept.
LEMMA AnswersKept ==
  ASSUME IInv, catalog = Bindings, Computed(heap), RelationsKept
  PROVE  SqlAnswerKept
<1> SUFFICES ASSUME status = "returned"
             PROVE  LET expr    == root[1]
                        before  == SqlAnswers(expr)
                        after   == SqlAnswers(result[1])
                    IN  /\ (before = {}) = (after = {})
                        /\ \A b \in before, a \in after :
                             /\ b.names = a.names
                             /\ DOMAIN b.rows = DOMAIN a.rows
                             /\ \A id \in DOMAIN b.rows : \A k \in KeptColumns(expr, ExactOf[expr]) :
                                  b.rows[id][k] = a.rows[id][k]
  BY DEF SqlAnswerKept
<1>1. root[1] \in heap /\ result[1] \in heap
  BY DEF IInv, TypeOK
<1>2. PICK e \in heap, o \in heap : e = root[1] /\ o = result[1]
  BY <1>1
<1> DEFINE m == HeapRelation
           b == m[e]
           a == m[o]
<1>3. Means(m, heap)
  BY HeapMeans
<1>4. Keeps(m, e, o)
  BY <1>2, <1>3 DEF RelationsKept, SqlKept
<1>5. Announced(b, e.schema)
  BY <1>3, NodeAnnounced DEF IInv, TypeOK, NodesOK
<1>6. /\ SqlAnswers(e) = IF b.error = "none" THEN {b} ELSE {}
      /\ SqlAnswers(o) = IF a.error = "none" THEN {a} ELSE {}
  BY AnswersAre
<1>7. Alike(b, a) /\ (e.kind # "Select" => b = a)
  BY <1>4 DEF Keeps
<1> HIDE DEF m, b, a
<1>8. /\ b.error = "none" <=> a.error = "none"
      /\ b.names = a.names /\ DOMAIN b.rows = DOMAIN a.rows
  BY <1>7 DEF Alike
<1>9. ASSUME b.error = "none", NEW id \in DOMAIN b.rows, NEW k \in KeptColumns(e, ExactOf[e])
      PROVE  b.rows[id][k] = a.rows[id][k]
  <2>1. CASE e.kind # "Select"
    BY <1>7, <2>1
  <2>2. CASE e.kind = "Select"
    <3>1. k \in DOMAIN e.schema /\ k = ColumnIndex(e.schema, e.schema[k])
      BY <1>9, <2>2, KeptBySelect
    <3>2. b.names = e.schema
      BY <1>5, <1>9, ErrorOfUnprepared DEF Announced
    <3> DEFINE schema == e.schema
    <3> HIDE DEF schema
    <3>3. k \in DOMAIN schema /\ k = ColumnIndex(schema, schema[k]) /\ b.names = schema
      BY <3>1, <3>2 DEF schema
    <3> QED BY <1>7, <1>9, <3>3, AlikeCells
  <2> QED BY <2>1, <2>2
<1>10. (SqlAnswers(e) = {}) = (SqlAnswers(o) = {})
  BY <1>6, <1>8
<1>11. ASSUME NEW x \in SqlAnswers(e), NEW y \in SqlAnswers(o)
       PROVE  x = b /\ y = a /\ b.error = "none"
  BY <1>6, <1>11
<1> QED BY <1>2, <1>8, <1>9, <1>10, <1>11

\* At first there is nothing to keep.
LEMMA InitialRelations == ASSUME Init PROVE RelationsKept /\ Computed(heap)
<1>1. DOMAIN stack = {} /\ status # "returned" /\ heap = {}
  BY DEF Init
<1> QED BY <1>1, ComputedEmpty DEF RelationsKept, SqlKept

(* SqlAnswerKept: whatever rules the optimizer applies, SQLite fails on    *)
(* the optimized query exactly if it fails on the query, and otherwise     *)
(* answers with the same rows, in every column a SELECT finds by its name. *)
THEOREM RewritesKeepSqlAnswers == SqlSpec => []SqlAnswerKept
<1> DEFINE Inv == IInv /\ catalog = Bindings /\ RelationsKept /\ Computed(heap)
<1>1. SqlInit => Inv
  BY InitialInvariant, InitialRelations DEF SqlInit
<1>2. Inv /\ [SqlNext]_<<vars, catalog>> => Inv'
  <2> SUFFICES ASSUME Inv, [SqlNext]_<<vars, catalog>> PROVE Inv'
    OBVIOUS
  <2>1. [Next]_vars /\ catalog' = catalog
    BY DEF SqlNext
  <2>2. IInv'
    BY <2>1, InvariantStep
  <2> QED BY <2>1, <2>2, RelationsStep, ComputedStep
<1>3. Inv => SqlAnswerKept
  BY AnswersKept
<1> QED BY <1>1, <1>2, <1>3, PTL DEF SqlSpec
=============================================================================
