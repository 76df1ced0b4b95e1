------------------------------- MODULE CsvReplies -------------------------------
(***************************************************************************)
(* What CsvBackend::execute replies, with the order of the rows and the    *)
(* plan, and the recursions that give constants of Backends their values.  *)
(***************************************************************************)
EXTENDS Backends, SqlRecursion

RECURSIVE ComparableTree(_, _)
ComparableTree(bindings, expr) ==
  /\ \A i \in DOMAIN Children(expr) : ComparableTree(bindings, Children(expr)[i])
  /\ ComparableNode(bindings, expr)

-----------------------------------------------------------------------------
(* Row identities in the order the nested loops visit them.                *)

RECURSIVE Before(_, _)
Before(id, other) ==
  IF Len(id) = 1 THEN id[1] < other[1]
  ELSE \/ Before(id[1], other[1])
       \/ id[1] = other[1] /\ Before(id[2], other[2])

InOrder(rows) ==
  LET place(id) == Cardinality({other \in DOMAIN rows : Before(other, id)}) + 1
  IN  [k \in 1..Cardinality(DOMAIN rows) |->
         rows[CHOOSE id \in DOMAIN rows : place(id) = k]]

\* The plan of an execution that succeeds.
RECURSIVE PlanOf(_)
PlanOf(expr) ==
  CASE expr.kind = "Table"   -> << <<"Read CSV", Find(expr.name, "Csv")[1].location>> >>
    [] expr.kind = "Rename"  -> << <<"Rename", expr.alias>> >> \o PlanOf(expr.child)
    [] expr.kind = "Select"  -> PlanOf(expr.child) \o << <<"Filter", expr.condition>> >>
    [] expr.kind = "Project" -> PlanOf(expr.child) \o << <<"Project", expr.columns>> >>
    [] expr.kind = "Join"    ->
         PlanOf(expr.left) \o PlanOf(expr.right) \o
         << <<"Nested-loop join", expr.leftColumn, expr.rightColumn>> >>

CsvReply(expr) ==
  IF expr.answer.error = "none"
  THEN [NoOutcome EXCEPT !.status = "returned",
          !.result = [schema |-> expr.schema, rows |-> InOrder(expr.answer.rows)],
          !.plan = PlanOf(expr)]
  ELSE [NoOutcome EXCEPT !.status = "thrown", !.error = expr.answer.error]

CsvPhase == CASE outcome.status = "none" -> "idle"
              [] outcome.status = "running" -> "busy"
              [] OTHER -> "done"

Csv == INSTANCE AbstractBackend WITH
         phase   <- CsvPhase,
         asked   <- IF CsvPhase = "idle" THEN <<>> ELSE << <<query, catalog>> >>,
         allowed <- {CsvReply(query[1])},
         replied <- IF CsvPhase = "done" THEN <<outcome>> ELSE <<>>

(* CsvBackend::execute ends, with the rows the query means in the order of *)
(* the nested loops and the plan of its nodes, or with the first error met *)
(* and neither rows nor plan.                                              *)
CsvImplements == Csv!FairSpec
=============================================================================
