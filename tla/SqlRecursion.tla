------------------------------ MODULE SqlRecursion ------------------------------
(***************************************************************************)
(* The recursions over an expression and over a SELECT, which give the     *)
(* constants of SqliteBackend and Backends their values.                   *)
(***************************************************************************)
EXTENDS Sqlite

\* SqlCompiler::compileExpr calls itself on the children.
RECURSIVE CompileTree(_, _)
CompileTree(bindings, expr) ==
  CompileNode(bindings, expr,
              [i \in DOMAIN Children(expr) |-> CompileTree(bindings, Children(expr)[i])])

\* SQLite runs the subqueries of a SELECT.  (Taking the parts out of a set has
\* each of them computed once.)
RECURSIVE RelationTree(_, _, _)
RelationTree(database, text, bound) ==
  LET queries == Subqueries(text)
      bounds == BoundIn(text, bound)
  IN  CHOOSE relation \in
        {RelationNode(database, text, bound, parts) :
           parts \in {[i \in DOMAIN queries |-> RelationTree(database, queries[i], bounds[i])]}} : TRUE

RECURSIVE ExactTree(_)
ExactTree(expr) ==
  ExactNode(expr, [i \in DOMAIN Children(expr) |-> ExactTree(Children(expr)[i])])

RECURSIVE HeightTree(_)
HeightTree(expr) ==
  IF Children(expr) = <<>> THEN 0
  ELSE 1 + Max({HeightTree(Children(expr)[i]) : i \in DOMAIN Children(expr)})
=============================================================================
