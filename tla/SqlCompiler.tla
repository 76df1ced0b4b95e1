------------------------------- MODULE SqlCompiler -------------------------------
(***************************************************************************)
(* SqlCompiler::compile.  Every node becomes a SELECT with the SELECTs of  *)
(* its children in its FROM.  The text of a SELECT is a record of its      *)
(* clauses, with the number of question marks in it (marks); a "?" has no  *)
(* number of its own: SQLite counts them in the order of the text, in      *)
(* which a FROM comes before its WHERE and left before right.              *)
(* A compilation that throws is an error in place of the text.             *)
(***************************************************************************)
EXTENDS RelationalAst, SourceCatalog

CompiledSql(text, parameters, schema) ==
  [error |-> "none", text |-> text, parameters |-> parameters, schema |-> schema]

NotCompiled(error) ==
  [error |-> error, text |-> <<>>, parameters |-> <<>>, schema |-> <<>>]

SqlParameter(condition) == [value |-> condition.rightLiteral, kind |-> condition.literalKind]

\* selectColumns: each name of the schema, out of side, under its own name.
SelectColumns(schema, side) ==
  [k \in DOMAIN schema |-> [side |-> side, source |-> schema[k], as |-> schema[k]]]

PhysicalColumns(schema) ==
  [k \in DOMAIN schema |-> [side |-> "", source |-> PhysicalColumn[schema[k]], as |-> schema[k]]]

CompileTable(bindings, name, schema) ==
  LET source == FindIn(bindings, name, "SQLite") IN
  IF source = <<>>
  THEN NotCompiled("source")
  ELSE CompiledSql([select |-> PhysicalColumns(schema), from |-> "table", marks |-> 0,
                    table |-> source[1].physicalName],
                   <<>>, schema)

FilterText(condition, schema, child) ==
  LET literal == condition.rightKind # "Column" IN
  [select |-> SelectColumns(schema, "q"), from |-> "filtered",
   marks |-> child.text.marks + (IF literal THEN 1 ELSE 0),
   q |-> child.text, left |-> condition.leftColumn, compareOp |-> condition.compareOp,
   right |-> IF literal THEN "?" ELSE condition.rightColumn, rightKind |-> condition.rightKind]

\* Mutated form of CompileSelect: the new parameter comes first.
CompileSelectParameterFirst(condition, schema, child) ==
  IF child.error # "none" \/ condition.raw
  THEN NotCompiled("raw")
  ELSE CompiledSql(FilterText(condition, schema, child),
                   IF condition.rightKind = "Column" THEN child.parameters
                   ELSE <<SqlParameter(condition)>> \o child.parameters,
                   schema)

\* Raw is looked at before the child is compiled, with or without rows.
CompileSelect(condition, schema, child) ==
  CASE condition.raw -> NotCompiled("raw")
    [] ~condition.raw /\ child.error # "none" -> child
    [] OTHER ->
         CompiledSql(FilterText(condition, schema, child),
                     child.parameters \o (IF condition.rightKind = "Column" THEN <<>>
                                          ELSE <<SqlParameter(condition)>>),
                     schema)

CompileProject(columns, child) ==
  IF child.error # "none" THEN child
  ELSE CompiledSql([select |-> SelectColumns(columns, "q"), from |-> "query",
                    marks |-> child.text.marks, q |-> child.text],
                   child.parameters, columns)

\* The alias is not in the text; the schema is what the SELECT picks.
CompileRename(schema, child) == CompileProject(schema, child)

CompileJoin(expr, left, right) ==
  CASE left.error # "none" -> left
    [] left.error = "none" /\ right.error # "none" -> right
    [] OTHER ->
         CompiledSql([select |-> SelectColumns(expr.left.schema, "l") \o
                                 SelectColumns(expr.right.schema, "r"),
                      from |-> "joined",
                      marks |-> left.text.marks + right.text.marks, l |-> left.text, r |-> right.text,
                      left |-> expr.leftColumn, right |-> expr.rightColumn],
                     left.parameters \o right.parameters, expr.schema)

\* compileExpr, of what it made of the children.
CompileNode(bindings, expr, parts) ==
  CASE expr.kind = "Table"   -> CompileTable(bindings, expr.name, expr.schema)
    [] expr.kind = "Select"  -> CompileSelect(expr.condition, expr.schema, parts[1])
    [] expr.kind = "Project" -> CompileProject(expr.columns, parts[1])
    [] expr.kind = "Join"    -> CompileJoin(expr, parts[1], parts[2])
    [] expr.kind = "Rename"  -> CompileRename(expr.schema, parts[1])

-----------------------------------------------------------------------------
(* A SELECT names the columns it takes, so of two columns with one name    *)
(* below it only the first comes through.                                  *)

Distinct(schema) == \A k \in DOMAIN schema : k = ColumnIndex(schema, schema[k])

\* Whether every column comes through, of which children all columns do.
ExactNode(expr, parts) ==
  \/ expr.kind \in {"Table", "Project"}
  \/ \A i \in DOMAIN parts : parts[i] /\ Distinct(Children(expr)[i].schema)

\* The columns that come through whatever names are repeated below.
KeptColumns(expr, exact) ==
  {k \in DOMAIN expr.schema : exact \/ k = ColumnIndex(expr.schema, expr.schema[k])}
=============================================================================
