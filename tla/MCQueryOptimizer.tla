---------------------------- MODULE MCQueryOptimizer ----------------------------
(***************************************************************************)
(* Two tables whose schemas share a column name ("id"), so that every      *)
(* answer of locateColumn occurs; two rows each, one pair of which joins.  *)
(***************************************************************************)
EXTENDS QueryOptimizer, QueryDsl

Number(n, place) == [kind |-> "number", bytes |-> place, num |-> n]
Word(place) == [kind |-> "text", bytes |-> place, num |-> 0]

MCColumn == {"id", "name", "uid", EmptyName}
MCTableName == {"users", "orders"}
MCFiles ==
  [users  |-> [readable |-> TRUE, malformed |-> FALSE, header |-> <<"id", "name">>,
               rows |-> << <<Number(1, 1), Number(9, 9)>>, <<Number(2, 2), Word(7)>> >>],
   orders |-> [readable |-> TRUE, malformed |-> FALSE, header |-> <<"uid", "id">>,
               rows |-> << <<Number(1, 1), Number(2, 2)>>, <<Number(9, 9), Number(1, 1)>>,
                           <<Number(1, 1), Word(7)>> >>]]
MCPhysicalColumn == [c \in MCColumn |-> c]

MCTables == { <<"users", <<"id", "name">>>>, <<"orders", <<"uid", "id">>>> }

MCConditions == { Compare("name", "Less", Literal(Number(10, 3), "Integer")),
                  Compare("id", "Equal", Literal(Number(2, 2), "Integer")),
                  RawCondition("name < 10") }
MCColumnLists == { <<"name">>, <<"id", "uid">>, <<"name", "uid">> }
MCJoinKeys == { <<"id", "uid">>, <<"name", "uid">> }

(* Shorter queries with more to choose from, to be optimized repeatedly.   *)
MCMoreConditions ==
  { Compare("uid", "LessOrEqual", ColumnOperand("id")),
    Compare("id", "Greater", ColumnOperand("name")),
    Compare("uid", "GreaterOrEqual", Literal(Word(8), "Text")), RawCondition("id = 2") }
MCMoreColumnLists == { <<"uid", "uid">>, <<"name", "id">>, << >> }

(* With them, sources that cannot be read: one of them is malformed, the   *)
(* other has no column "id".                                               *)
MCMoreTableNames == MCTableName \cup {"torn", "short"}
MCMoreFiles ==
  [t \in MCMoreTableNames |->
     CASE t = "torn"  -> [MCFiles.users EXCEPT !.malformed = TRUE]
       [] t = "short" -> [MCFiles.orders EXCEPT !.header = <<"uid", "name">>]
       [] OTHER       -> MCFiles[t]]
MCMoreTables ==
  MCTables \cup { <<"torn", <<"id", "name">>>>, <<"short", <<"uid", "id">>>> }
=============================================================================
