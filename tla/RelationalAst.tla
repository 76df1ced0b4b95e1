------------------------------ MODULE RelationalAst ------------------------------
(***************************************************************************)
(* The nodes of the relational AST and their constructors (ast/nodes.cpp). *)
(* Nodes are immutable and shared, so a node is a value: a record with its *)
(* children inside.  As in the code every node stores its schema when it   *)
(* is built.  Two fields are not in the code.  answer is what              *)
(* CsvBackend::executeExpr returns for the node, computed from the         *)
(* children's answers the way the handler of the node's kind does it.      *)
(* work is the number of row pairs the nested loops of executeJoin compare *)
(* on the way.                                                             *)
(***************************************************************************)
EXTENDS CsvOperators

CONSTANT Alias       \* the names Rho may give

TableExpr(name, schema) ==
  [kind |-> "Table", name |-> name, schema |-> schema,
   answer |-> ExecuteTable(name, schema), work |-> 0]

SelectExpr(condition, child) ==
  [kind |-> "Select", condition |-> condition, child |-> child,
   schema |-> child.schema,
   answer |-> ExecuteSelect(condition, child.schema, child.answer),
   work |-> child.work]

ProjectExpr(columns, child) ==
  [kind |-> "Project", columns |-> columns, child |-> child, schema |-> columns,
   answer |-> ExecuteProject(columns, child.answer), work |-> child.work]

\* The right input runs only if the left one did not fail, the loops only if
\* neither failed and both keys exist.
JoinWork(left, right, leftColumn, rightColumn) ==
  CASE left.answer.error # "none" -> 0
    [] left.answer.error = "none" /\ right.answer.error # "none" -> right.work
    [] OTHER ->
         right.work +
         (IF /\ SequenceContains(left.schema, leftColumn)
             /\ SequenceContains(right.schema, rightColumn)
          THEN Cardinality(DOMAIN left.answer.rows) * Cardinality(DOMAIN right.answer.rows)
          ELSE 0)

\* Mutated form of JoinExpr: the right schema is not appended.
JoinExprLeftSchema(left, right, leftColumn, rightColumn) ==
  [kind |-> "Join", left |-> left, right |-> right,
   leftColumn |-> leftColumn, rightColumn |-> rightColumn, schema |-> left.schema,
   answer |-> ExecuteJoin(left.schema, left.answer, right.answer, leftColumn, rightColumn),
   work |-> left.work + JoinWork(left, right, leftColumn, rightColumn)]

\* The keys are not checked against the schemas here: a join on a missing
\* column is built, and fails when it is executed.
JoinExpr(left, right, leftColumn, rightColumn) ==
  LET schema == left.schema \o right.schema IN
  [kind |-> "Join", left |-> left, right |-> right,
   leftColumn |-> leftColumn, rightColumn |-> rightColumn, schema |-> schema,
   answer |-> ExecuteJoin(schema, left.answer, right.answer, leftColumn, rightColumn),
   work |-> left.work + JoinWork(left, right, leftColumn, rightColumn)]

\* executeExpr runs the child of a Rename in its place.
RenameExpr(alias, child) ==
  [kind |-> "Rename", alias |-> alias, child |-> child, schema |-> child.schema,
   answer |-> child.answer, work |-> child.work]

\* The one constructor that can refuse its arguments (requireColumnsInSchema).
Constructible(expr) ==
  expr.kind = "Project" => AllColumnsIncluded(expr.columns, expr.child.schema)

Children(expr) ==
  CASE expr.kind = "Table" -> <<>>
    [] expr.kind = "Join"  -> <<expr.left, expr.right>>
    [] OTHER               -> <<expr.child>>

\* The constructor a node came from, applied to what the node holds.
Rebuilt(expr) ==
  CASE expr.kind = "Table"   -> TableExpr(expr.name, expr.schema)
    [] expr.kind = "Select"  -> SelectExpr(expr.condition, expr.child)
    [] expr.kind = "Project" -> ProjectExpr(expr.columns, expr.child)
    [] expr.kind = "Join"    ->
         JoinExpr(expr.left, expr.right, expr.leftColumn, expr.rightColumn)
    [] expr.kind = "Rename"  -> RenameExpr(expr.alias, expr.child)

\* What a node holds besides its children.
LabelOK(expr) ==
  CASE expr.kind = "Table"   -> expr.name \in TableName /\ expr.schema \in Seq(Column)
    [] expr.kind = "Select"  -> expr.condition \in Condition
    [] expr.kind = "Project" -> expr.columns \in Seq(Column)
    [] expr.kind = "Join"    -> expr.leftColumn \in Column /\ expr.rightColumn \in Column
    [] expr.kind = "Rename"  -> expr.alias \in Alias

ExprKind == {"Table", "Select", "Project", "Join", "Rename"}

\* A node is what its constructor made of its parts, and its children are nodes.
NodeOK(expr, nodes) ==
  /\ expr.kind \in ExprKind
  /\ LabelOK(expr)
  /\ expr.schema \in Seq(Column)
  /\ \A slot \in DOMAIN Children(expr) : Children(expr)[slot] \in nodes
  /\ expr = Rebuilt(expr)
  /\ Constructible(expr)

\* Two expressions a caller cannot tell apart by schema or by answer.
SameMeaning(expr, other) ==
  expr.schema = other.schema /\ expr.answer = other.answer
=============================================================================
