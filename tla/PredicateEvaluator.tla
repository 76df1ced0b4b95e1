--------------------------- MODULE PredicateEvaluator ---------------------------
(***************************************************************************)
(* Cells of a row (query_result.h), conditions (dsl/predicate.h) and       *)
(* PredicateEvaluator::evaluate.                                           *)
(*                                                                         *)
(* The text of a cell is abstracted to what the code can tell of it:       *)
(*   bytes  its place in the byte order of std::string (equal texts have   *)
(*          equal bytes and the other way round);                          *)
(*   kind   how strtod reads the whole text: "number", "nan", or "text"    *)
(*          when parseNumber refuses it; "null" is a NULL cell, no text;   *)
(*   num    the number read, when there is one.                            *)
(***************************************************************************)
EXTENDS ExprUtils

CONSTANT Column        \* the column names a query may mention

CompareOp == {"Equal", "NotEqual", "Less", "LessOrEqual", "Greater",
              "GreaterOrEqual"}

Text == [kind : {"text", "number", "nan"}, bytes : Nat, num : Int]

Null == [kind |-> "null", bytes |-> 0, num |-> 0]

Cell == Text \cup {Null}

IsNull(cell) == cell.kind = "null"

(* A raw condition is kept as text and never parsed.  The operand on the   *)
(* right is a column or a literal, according to rightKind; literalKind is  *)
(* the type the literal was written with, which only SQL looks at.         *)
LiteralKind == {"Text", "Integer", "Real"}

Condition ==
  [raw : BOOLEAN, leftColumn : Column, compareOp : CompareOp,
   rightKind : {"Column", "Literal"}, rightColumn : Column, rightLiteral : Text,
   literalKind : LiteralKind]

Sign(left, right) == IF left < right THEN -1 ELSE IF left > right THEN 1 ELSE 0

ParsesAsNumber(text) == text.kind \in {"number", "nan"}

\* Numbers compare as doubles, so a NaN is neither less nor greater: "equal".
CompareValues(left, right) ==
  IF ParsesAsNumber(left) /\ ParsesAsNumber(right)
  THEN IF "nan" \in {left.kind, right.kind} THEN 0 ELSE Sign(left.num, right.num)
  ELSE Sign(left.bytes, right.bytes)

Holds(compareOp, comparison) ==
  CASE compareOp = "Equal"          -> comparison = 0
    [] compareOp = "NotEqual"       -> comparison # 0
    [] compareOp = "Less"           -> comparison < 0
    [] compareOp = "LessOrEqual"    -> comparison <= 0
    [] compareOp = "Greater"        -> comparison > 0
    [] compareOp = "GreaterOrEqual" -> comparison >= 0

\* Row::value: a column that is missing and one that is NULL both give no value.
RowValue(schema, row, column) ==
  IF SequenceContains(schema, column) THEN row[ColumnIndex(schema, column)] ELSE Null

\* evaluate for a condition that is not raw (a raw one throws).
Evaluate(condition, schema, row) ==
  LET left  == RowValue(schema, row, condition.leftColumn)
      right == IF condition.rightKind = "Column"
               THEN RowValue(schema, row, condition.rightColumn)
               ELSE condition.rightLiteral
  IN  /\ ~IsNull(left)
      /\ ~IsNull(right)
      /\ Holds(condition.compareOp, CompareValues(left, right))
=============================================================================
