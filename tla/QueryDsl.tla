-------------------------------- MODULE QueryDsl --------------------------------
(***************************************************************************)
(* The conditions a client writes (dsl/predicate.cpp).  An operand is a    *)
(* column, or a literal: the text it is shown as and the kind of value it  *)
(* was written as.                                                         *)
(***************************************************************************)
EXTENDS PredicateEvaluator

EmptyText == [kind |-> "text", bytes |-> 0, num |-> 0]
EmptyName == ""

Operand(kind, column, text, literalKind) ==
  [kind |-> kind, column |-> column, text |-> text, literalKind |-> literalKind]

ColumnOperand(name) == Operand("Column", name, EmptyText, "Text")

Literal(text, literalKind) == Operand("Literal", EmptyName, text, literalKind)

\* Eq, Ne, Lt, Le, Gt and Ge.
Compare(leftColumn, compareOp, operand) ==
  [raw |-> FALSE, leftColumn |-> leftColumn, compareOp |-> compareOp,
   rightKind |-> operand.kind, rightColumn |-> operand.column,
   rightLiteral |-> operand.text, literalKind |-> operand.literalKind]

\* A condition written as a text.  Whether it is raw is only told by its text
\* not being empty: Sigma("") compares the column with the empty name.
RawCondition(text) ==
  [Compare(EmptyName, "Equal", Literal(EmptyText, "Text")) EXCEPT !.raw = text # ""]
=============================================================================
