----------------------------- MODULE MCSqlRewrites -----------------------------
(***************************************************************************)
(* The tables of MCQueryOptimizer in a database: "name" is a text column,  *)
(* so its 9 is a text there; one order has no user.                        *)
(***************************************************************************)
EXTENDS MCQueryOptimizer, SqlRewrites

MCBindings == [k \in {1, 2} |->
  LET name == <<"users", "orders">>[k]
  IN  Binding("SQLite", name, "demo.db", name, <<>>)]

Num(n, place) == Value("integer", Number(n, place))
Txt(text) == Value("text", text)

MCDatabase == [t \in MCTableName |->
  CASE t = "users"  -> [columns |-> <<"id", "name">>, affinities |-> <<"numeric", "text">>,
                        rows |-> << <<Num(1, 1), Txt(Number(9, 9))>>, <<Num(2, 2), Txt(Word(7))>> >>]
    [] t = "orders" -> [columns |-> <<"uid", "id">>, affinities |-> <<"numeric", "text">>,
                        rows |-> << <<Num(1, 1), Txt(Number(2, 2))>>, <<SqlNull, Txt(Number(1, 1))>>,
                                    <<Num(1, 1), Txt(Word(7))>> >>]]

MCNameText(name) == Word(4)

\* Every number is an integer, and shown as it is written.
MCRendered(class, num) ==
  Number(num, CASE num = 1 -> 1 [] num = 2 -> 2 [] num = 10 -> 3 [] num = 9 -> 9)

MCSqlConditions ==
  { Compare("name", "Greater", Literal(Number(10, 3), "Integer")),
    Compare("id", "Less", Literal(Number(2, 2), "Integer")),
    Compare("uid", "LessOrEqual", ColumnOperand("id")),
    Compare("size", "Equal", Literal(Word(7), "Text")),
    RawCondition("name > 10") }
MCSqlColumn == MCColumn \cup {"size"}
MCSqlPhysicalColumn == [c \in MCSqlColumn |-> c]
=============================================================================
