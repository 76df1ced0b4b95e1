------------------------------- MODULE ExprUtils -------------------------------
(***************************************************************************)
(* The questions the optimizer and the CSV backend ask of a schema: the    *)
(* helpers of visitor/expr_utils.cpp and columnIndex of csv_backend.cpp.   *)
(* A schema is a sequence of column names and may repeat a name (a         *)
(* self-join does), which is why "is the column there" and "which column   *)
(* is meant" are different questions.                                      *)
(***************************************************************************)
EXTENDS Integers, Sequences, FiniteSets

\* The sides locateColumn answers with (enum class SchemaSide).
SchemaSide == {"None", "Left", "Right", "Both", "Unknown"}

Positions(schema, column) == {i \in DOMAIN schema : schema[i] = column}

SequenceContains(sequence, value) == Positions(sequence, value) # {}

CountColumnMatches(schema, column) == Cardinality(Positions(schema, column))

\* The first position wins; the code throws when there is none, so callers
\* ask SequenceContains first.
ColumnIndex(schema, column) ==
  CHOOSE i \in Positions(schema, column) :
    \A j \in Positions(schema, column) : i <= j

AppendUnique(sequence, value) ==
  IF SequenceContains(sequence, value) THEN sequence ELSE Append(sequence, value)

\* A column counts as being on a side only when exactly one column of the two
\* schemas together has its name.
LocateColumn(column, leftSchema, rightSchema) ==
  LET matches == << CountColumnMatches(leftSchema, column),
                    CountColumnMatches(rightSchema, column) >>
  IN  CASE matches = <<0, 0>> -> "None"
        [] matches = <<1, 0>> -> "Left"
        [] matches = <<0, 1>> -> "Right"
        [] matches = <<1, 1>> -> "Both"
        [] OTHER -> "Unknown"

AllColumnsIncluded(required, available) ==
  \A i \in DOMAIN required : SequenceContains(available, required[i])

\* Equal as lists of names up to order, when neither repeats a name.
SameColumns(left, right) ==
  /\ Len(left) = Len(right)
  /\ AllColumnsIncluded(left, right)
  /\ AllColumnsIncluded(right, left)
=============================================================================
