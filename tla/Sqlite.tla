--------------------------------- MODULE Sqlite ---------------------------------
(***************************************************************************)
(* SQLite as the backend uses it: what the texts of SqlCompiler mean.      *)
(* External: sqlite3 is a library, and this is its documented behaviour,   *)
(* as far as these texts reach it.                                         *)
(*                                                                         *)
(* A database is a function from table names to [columns, affinities,      *)
(* rows].  A value has a storage class and a text; of the text of an       *)
(* integer or a real only the number counts.                               *)
(*                                                                         *)
(* Names of columns and tables are compared exactly here, while SQLite     *)
(* takes "ID" and "id" for the same: names that differ only in case are    *)
(* outside of this module.                                                 *)
(***************************************************************************)
EXTENDS SqlCompiler

CONSTANTS
  DoubleQuotedStrings,   \* the build reads an unknown "name" as a string
  NameText(_),           \* that string
  Rendered(_, _)         \* sqlite3_column_text of a number of a storage class:
                         \* 120.50 in a REAL column comes back as 120.5

SqlNull == [class |-> "null", text |-> Null]
Value(class, text) == [class |-> class, text |-> text]

IsNumber(value) == value.class \in {"integer", "real"}

\* "numeric" stands for INTEGER, REAL and NUMERIC, which compare alike.
Affinity == {"numeric", "text", "none"}

\* sqlite3_bind_*: a NaN is bound as NULL.
BoundValue(parameter) ==
  CASE parameter.kind = "Text" -> Value("text", parameter.value)
    [] parameter.kind # "Text" /\ parameter.value.kind = "nan" -> SqlNull
    [] OTHER -> Value(IF parameter.kind = "Integer" THEN "integer" ELSE "real", parameter.value)

\* An affinity changes the class of a value if that loses nothing.  Integers
\* and reals compare by their numbers: which one a text becomes is the same.
Applied(affinity, value) ==
  CASE affinity = "numeric" /\ value.class = "text" /\ value.text.kind = "number" ->
         [value EXCEPT !.class = "real"]
    [] affinity = "text" /\ IsNumber(value) ->
         Value("text", Rendered(value.class, value.text.num))
    [] OTHER -> value

\* The affinity a comparison applies to both of its sides.
ComparedAs(left, right) ==
  CASE "numeric" \in {left, right} -> "numeric"
    [] {left, right} = {"text", "none"} -> "text"
    [] OTHER -> "none"

\* Numbers come before texts; texts compare by bytes.
SqlOrder(left, right) ==
  CASE IsNumber(left) /\ IsNumber(right) -> Sign(left.text.num, right.text.num)
    [] left.class = "text" /\ right.class = "text" -> Sign(left.text.bytes, right.text.bytes)
    [] IsNumber(left) /\ right.class = "text" -> -1
    [] left.class = "text" /\ IsNumber(right) -> 1

\* A comparison with NULL is not true.
SqlCompare(compareOp, left, right) ==
  LET affinity == ComparedAs(left.affinity, right.affinity)
  IN  /\ left.value.class # "null" /\ right.value.class # "null"
      /\ Holds(compareOp, SqlOrder(Applied(affinity, left.value),
                                   Applied(affinity, right.value)))

-----------------------------------------------------------------------------
(* A relation: the names and affinities of the columns, and the rows by    *)
(* the identities of CsvOperators; or the error of sqlite3_prepare.        *)

Relation(names, affinities, rows) ==
  [error |-> "none", names |-> names, affinities |-> affinities, rows |-> rows]
Unprepared == [error |-> "prepare", names |-> <<>>, affinities |-> <<>>, rows |-> <<>>]

\* q.name is the first column of q with that name.
Names(relation, column) == SequenceContains(relation.names, column)
At(relation, id, column) ==
  LET k == ColumnIndex(relation.names, column)
  IN  [value |-> relation.rows[id][k], affinity |-> relation.affinities[k]]
AffinityOf(relation, column) == relation.affinities[ColumnIndex(relation.names, column)]

Selected(columns, relation, ids) ==
  IF \/ relation.error # "none" \/ columns = <<>>
     \/ \E k \in DOMAIN columns : ~Names(relation, columns[k].source)
  THEN Unprepared
  ELSE Relation([k \in DOMAIN columns |-> columns[k].as],
                [k \in DOMAIN columns |-> AffinityOf(relation, columns[k].source)],
                [id \in ids |->
                   [k \in DOMAIN columns |-> At(relation, id, columns[k].source).value]])

\* An unqualified "name" that no column has may be a string.
TableAnswer(table, columns) ==
  LET has(k) == SequenceContains(table.columns, columns[k].source)
      place(k) == ColumnIndex(table.columns, columns[k].source)
      cell(row, k) == IF has(k) THEN row[place(k)] ELSE Value("text", NameText(columns[k].source))
  IN  IF columns = <<>> \/ (~DoubleQuotedStrings /\ \E k \in DOMAIN columns : ~has(k))
      THEN Unprepared
      ELSE Relation([k \in DOMAIN columns |-> columns[k].as],
                    [k \in DOMAIN columns |-> IF has(k) THEN table.affinities[place(k)] ELSE "none"],
                    [id \in {<<i>> : i \in DOMAIN table.rows} |->
                       [k \in DOMAIN columns |-> cell(table.rows[id[1]], k)]])

Filtered(text, relation, bound) ==
  LET right(id) == IF text.rightKind = "Literal" THEN [value |-> bound, affinity |-> "none"]
                   ELSE At(relation, id, text.right)
  IN  IF \/ relation.error # "none" \/ ~Names(relation, text.left)
         \/ text.rightKind = "Column" /\ ~Names(relation, text.right)
      THEN Unprepared
      ELSE Selected(text.select, relation,
                    {id \in DOMAIN relation.rows :
                       SqlCompare(text.compareOp, At(relation, id, text.left), right(id))})

Matches(text, l, r) ==
  {pair \in (DOMAIN l.rows) \X (DOMAIN r.rows) :
     SqlCompare("Equal", At(l, pair[1], text.left), At(r, pair[2], text.right))}

\* l and r beside each other, their columns told apart by a side.
Joined(text, l, r) ==
  LET columns == text.select
      side(k) == IF columns[k].side = "l" THEN l ELSE r
      row(pair, k) == IF columns[k].side = "l" THEN pair[1] ELSE pair[2]
  IN  IF \/ "prepare" \in {l.error, r.error} \/ ~Names(l, text.left) \/ ~Names(r, text.right)
         \/ \E k \in DOMAIN columns : ~Names(side(k), columns[k].source)
      THEN Unprepared
      ELSE Relation([k \in DOMAIN columns |-> columns[k].as],
                    [k \in DOMAIN columns |-> AffinityOf(side(k), columns[k].source)],
                    [pair \in Matches(text, l, r) |->
                       [k \in DOMAIN columns |->
                          At(side(k), row(pair, k), columns[k].source).value]])

-----------------------------------------------------------------------------
(* What a text gives when its question marks have the values bound, in     *)
(* order: its subqueries take theirs first.                                *)

Subqueries(text) ==
  CASE text.from = "table"  -> <<>>
    [] text.from = "joined" -> <<text.l, text.r>>
    [] OTHER                -> <<text.q>>

BoundIn(text, bound) ==
  CASE text.from = "table"  -> <<>>
    [] text.from = "joined" -> << SubSeq(bound, 1, text.l.marks),
                                  SubSeq(bound, text.l.marks + 1, Len(bound)) >>
    [] OTHER                -> << SubSeq(bound, 1, text.q.marks) >>

\* Of the relations its subqueries gave.
RelationNode(database, text, bound, parts) ==
  CASE text.from = "table" ->
         IF text.table \in DOMAIN database
         THEN TableAnswer(database[text.table], text.select) ELSE Unprepared
    [] text.from = "query" -> Selected(text.select, parts[1], DOMAIN parts[1].rows)
    [] text.from = "filtered" ->
         Filtered(text, parts[1],
                  IF text.rightKind = "Literal" THEN bound[Len(bound)] ELSE SqlNull)
    [] text.from = "joined" -> Joined(text, parts[1], parts[2])

Bound(compiled) ==
  [k \in DOMAIN compiled.parameters |-> BoundValue(compiled.parameters[k])]

\* Nothing bound yet.
Unbound(text) == [k \in 1..text.marks |-> SqlNull]
=============================================================================
