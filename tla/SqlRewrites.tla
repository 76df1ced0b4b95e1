------------------------------- MODULE SqlRewrites -------------------------------
(***************************************************************************)
(* The optimizer in front of the SQL compiler.  Its rules are justified by *)
(* what CsvBackend makes of a query; SQLiteBackend is given the same       *)
(* optimized query, and SQLite reads it by other rules: names in place of  *)
(* positions, affinities in place of strtod, errors before the first row.  *)
(***************************************************************************)
EXTENDS QueryOptimizer, Sqlite

CONSTANTS
  Bindings,   \* the bindings of the catalog
  Database    \* the database they name

SqlInit == Init /\ catalog = Bindings
SqlNext == Next /\ UNCHANGED catalog
SqlSpec == SqlInit /\ [][SqlNext]_<<vars, catalog>>

\* SqlCompiler::compileExpr, which calls itself on the children.
Compiled[expr \in heap] ==
  CompileNode(catalog, expr, [i \in DOMAIN Children(expr) |-> Compiled[Children(expr)[i]]])

\* The texts of the queries and of their parts, with what is bound in them.
Statements ==
  {<<c.text, Bound(c)>> : c \in {d \in {Compiled[expr] : expr \in heap} : d.error = "none"}}

\* SQLite runs the subqueries of a SELECT.  (Taking the relation out of a set
\* has it computed once.)
Relations[s \in Statements] ==
  CHOOSE relation \in
    {RelationNode(Database, s[1], s[2],
                  [i \in DOMAIN Subqueries(s[1]) |->
                     Relations[<<Subqueries(s[1])[i], BoundIn(s[1], s[2])[i]>>]])} : TRUE

ExactOf[expr \in heap] ==
  ExactNode(expr, [i \in DOMAIN Children(expr) |-> ExactOf[Children(expr)[i]]])

\* The relation SQLite answers a query with, as a set of one; none if there is
\* an exception in its place.
SqlAnswers(expr) ==
  {r \in {Relations[<<compiled.text, Bound(compiled)>>] :
            compiled \in {c \in {Compiled[expr]} : c.error = "none"}} :
     r.error = "none"}

(* Optimizing a query does not change what SQLite makes of it: it fails as *)
(* before, or gives the same rows, with the same cell in every column a    *)
(* SELECT can tell from the others by name.                                *)
SqlAnswerKept ==
  status = "returned" =>
    LET expr    == root[1]
        before  == SqlAnswers(expr)
        after   == SqlAnswers(result[1])
    IN  /\ (before = {}) = (after = {})
        /\ \A b \in before, a \in after :
             /\ b.names = a.names
             /\ DOMAIN b.rows = DOMAIN a.rows
             /\ \A id \in DOMAIN b.rows : \A k \in KeptColumns(expr, ExactOf[expr]) :
                  b.rows[id][k] = a.rows[id][k]
=============================================================================
