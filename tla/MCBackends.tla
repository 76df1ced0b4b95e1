------------------------------- MODULE MCBackends -------------------------------
(***************************************************************************)
(* users and orders hold the same in their files and in demo.db, and share *)
(* the column name "id".  The other sources each have something wrong with *)
(* their file, or hold something else in the database than in the file.    *)
(***************************************************************************)
EXTENDS CsvReplies, QueryDsl

\* Numbers are in tenths.  A text's bytes are its place among these texts:
\* "", 1, 1.0, 10, 10.0, 10.5, 10.50, 2, 2.0, a, a", a,a, nan and a name.
Number(n, place) == [kind |-> "number", bytes |-> place, num |-> n]
Word(place) == [kind |-> "text", bytes |-> place, num |-> 0]
NaN == [kind |-> "nan", bytes |-> 12, num |-> 0]

One == Number(10, 1)
Two == Number(20, 7)
Ten == Number(100, 3)
TenAndAHalf == Number(105, 6)   \* written 10.50
A == Word(9)

MCColumn == {"id", "name", "uid", "users.id", "users.name", "size", EmptyName}
MCPhysicalColumn ==
  [c \in MCColumn |-> CASE c = "users.id" -> "id" [] c = "users.name" -> "name" [] OTHER -> c]

-----------------------------------------------------------------------------
(* Files.  The pieces of text: numbers, and the names.                     *)

MCFieldText(field) ==
  CASE field = <<>>                -> EmptyText
    [] field = <<"1">>             -> One
    [] field = <<"2">>             -> Two
    [] field = <<"10">>            -> Ten
    [] field = <<"10.50">>         -> TenAndAHalf
    [] field = <<"nan">>           -> NaN
    [] field = <<"a">>             -> A
    [] field = <<"a", Quote>>      -> Word(10)
    [] field = <<"a", Comma, "a">> -> Word(11)

MCToken == {Quote, Comma, "1", "2", "10", "10.50", "nan", "a", "id", "name", "uid"}

Header(left, right) == <<left, Comma, right>>
Good == << Header("id", "name"), <<"1", Comma, Quote, "a", Comma, "a", Quote>> >>

MCDisk == [location \in {"users.csv", "orders.csv", "notes.csv", "torn.csv", "quoted.csv",
                         "header.csv", "blank.csv", "absent.csv", "other.csv"} |->
  CASE location = "users.csv"  -> << Append(Good, <<"2", Comma, "a">>) >>
    [] location = "orders.csv" -> << << Header("uid", "id"), <<"1", Comma, "2">>,
                                        <<Quote, "10", Quote, Comma, "1">>,
                                        <<"1", Comma, "10.50">> >> >>
    [] location = "notes.csv"  -> << << Header("id", "name"), <<"1", Comma, "10">>,
                                        <<"nan", Comma, Quote, Quote>> >> >>
    [] location = "torn.csv"   -> << Append(Good, <<"2">>) >>
    [] location = "quoted.csv" -> << Append(Good, <<"2", Comma, Quote, "a">>) >>
    [] location = "header.csv" -> << << <<"id", Comma, Quote, "name">> >> >>
    [] location = "blank.csv"  -> << <<>> >>
    [] location = "absent.csv" -> <<>>
    [] location = "other.csv"  -> << << Header("name", "id") >> >>]

File_(header, rows) == [readable |-> TRUE, malformed |-> FALSE, header |-> header, rows |-> rows]
Broken == [readable |-> FALSE, malformed |-> FALSE, header |-> <<>>, rows |-> <<>>]

MCTableName == {"users", "orders", "notes", "torn", "quoted", "header", "blank", "absent", "ghost"}
MCFiles == [t \in MCTableName |->
  CASE t = "users"  -> File_(<<"id", "name">>, << <<One, Word(11)>>, <<Two, A>> >>)
    [] t = "orders" -> File_(<<"uid", "id">>, << <<One, Two>>, <<Ten, One>>, <<One, TenAndAHalf>> >>)
    [] t = "notes"  -> File_(<<"id", "name">>, << <<One, Ten>>, <<NaN, EmptyText>> >>)
    [] t \in {"torn", "quoted"} -> [File_(<<"id", "name">>, <<>>) EXCEPT !.malformed = TRUE]
    [] OTHER -> Broken]

-----------------------------------------------------------------------------
(* Databases.  orders.id is a REAL column, the other numbers are INTEGERs.  *)

\* An integer as it was written, a real with one digit behind the point.
MCRendered(class, num) ==
  CASE class = "integer" -> CHOOSE number \in {One, Two, Ten} : number.num = num
    [] class = "real"    -> Number(num, CASE num = 10 -> 2 [] num = 20 -> 8
                                          [] num = 100 -> 4 [] num = 105 -> 5)

Table(columns, affinities, rows) == [columns |-> columns, affinities |-> affinities, rows |-> rows]
Stored(file, classes) ==
  [i \in DOMAIN file.rows |->
     [k \in DOMAIN file.header |-> Value(classes[k], file.rows[i][k])]]

Users  == Table(<<"id", "name">>, <<"numeric", "text">>,
                Stored(MCFiles.users, <<"integer", "text">>))
Orders == Table(<<"uid", "id">>, <<"numeric", "numeric">>,
                Stored(MCFiles.orders, <<"integer", "real">>))
\* A number kept as a text, and a NULL.
Notes  == Table(<<"id", "name">>, <<"numeric", "text">>,
                << <<Value("integer", One), Value("text", Ten)>>,
                   <<SqlNull, Value("text", A)>> >>)

Named(users, orders, notes) ==
  [t \in {"users", "orders", "notes"} |->
     CASE t = "users" -> users [] t = "orders" -> orders [] t = "notes" -> notes]

MCDatabases == [location \in {"demo.db", "old.db", "none.db"} |->
  CASE location = "demo.db" -> << Named(Users, Orders, Notes) >>
    [] location = "old.db"  -> << Named([Users EXCEPT !.rows = SubSeq(@, 1, 1)], Orders, Notes) >>
    [] location = "none.db" -> <<>>]

MCNameText(name) == Word(13)

-----------------------------------------------------------------------------
(* The catalog.                                                            *)

CsvOf(name, location) == Binding("Csv", name, location, name, <<>>)
SqlOf(name, location, table) == Binding("SQLite", name, location, table, <<>>)

MCFirstBindings ==
  << CsvOf("users", "users.csv"), CsvOf("orders", "orders.csv"), CsvOf("notes", "notes.csv"),
     CsvOf("torn", "torn.csv"), CsvOf("quoted", "quoted.csv"), CsvOf("header", "header.csv"),
     CsvOf("blank", "blank.csv"), CsvOf("absent", "absent.csv") >>
Demo == << SqlOf("users", "demo.db", "users"), SqlOf("orders", "demo.db", "orders"),
           SqlOf("notes", "demo.db", "notes") >>

MCRegistrations == ToSet(Demo) \cup
  { CsvOf("users", "other.csv"), SqlOf("orders", "old.db", "orders"),
    SqlOf("users", "none.db", "users"), SqlOf("orders", "demo.db", "users"),
    SqlOf("ghost", "demo.db", "ghost") }
MCMaxBindings == Len(MCFirstBindings) + 3

-----------------------------------------------------------------------------
(* Queries.                                                                *)

UsersExpr == TableExpr("users", <<"id", "name">>)
UsersQualified == TableExpr("users", <<"users.name", "users.id">>)
OrdersExpr == TableExpr("orders", <<"uid", "id">>)
GoodTables == {UsersExpr, UsersQualified, OrdersExpr}
OddTables == { TableExpr("notes", <<"id", "name">>), TableExpr("users", <<"id", "size">>),
               TableExpr("users", <<>>) } \cup
             { TableExpr(t, <<"id">>) : t \in {"torn", "quoted", "header", "blank", "absent", "ghost"} }

MCConditions ==
  { Compare("id", "Less", Literal(Ten, "Integer")),
    Compare("name", "Greater", Literal(A, "Text")),
    Compare("users.id", "Equal", Literal(Two, "Real")),
    Compare("uid", "LessOrEqual", ColumnOperand("id")) }
OddConditions ==
  { Compare("name", "Less", Literal(Two, "Integer")),
    Compare("id", "Equal", Literal(NaN, "Real")),
    Compare("id", "NotEqual", Literal(A, "Integer")),
    Compare("id", "GreaterOrEqual", ColumnOperand("size")),
    RawCondition("id = 2"), RawCondition("") }
MCColumnLists == { <<"name">>, <<"id", "uid">>, <<"users.id", "users.id">>, <<>> }
MCKeys == { <<"id", "uid">>, <<"id", "id">>, <<"users.id", "uid">>, <<"name", "size">> }

Unary(exprs, conditions) ==
  { SelectExpr(c, e) : c \in conditions, e \in exprs } \cup
  { p \in { ProjectExpr(l, e) : l \in MCColumnLists, e \in exprs } : Constructible(p) } \cup
  { RenameExpr("r", e) : e \in exprs }
Joins(lefts, rights, keys) ==
  { JoinExpr(l, r, k[1], k[2]) : l \in lefts, r \in rights, k \in keys }

Tables == GoodTables \cup OddTables
FilteredOf(expr) == { SelectExpr(c, expr) : c \in MCConditions }
SomeJoins == Joins(GoodTables, GoodTables, MCKeys)
FilteredJoins == Joins(FilteredOf(UsersExpr), FilteredOf(OrdersExpr), {<<"id", "id">>})
MCAllQueries ==
  Tables \cup Unary(Tables, MCConditions \cup OddConditions)
  \cup SomeJoins \cup Joins({UsersExpr}, OddTables, {<<"id", "id">>})
  \cup Joins(OddTables, {OrdersExpr}, {<<"id", "id">>})
  \cup Unary(SomeJoins, MCConditions)
  \cup Unary(Unary(GoodTables, MCConditions), MCConditions)
  \cup FilteredJoins \cup { SelectExpr(c, e) : c \in MCConditions, e \in FilteredJoins }

\* Over a catalog with something else than demo.db in it, a few of them.
FewQueries == {UsersExpr, OrdersExpr, TableExpr("ghost", <<"id">>),
               JoinExpr(UsersExpr, OrdersExpr, "id", "uid")}
MCQueries(bindings) ==
  CASE bindings = MCFirstBindings \o Demo          -> MCAllQueries
    [] Len(bindings) <= Len(MCFirstBindings) + 2   -> FewQueries
    [] OTHER                                       -> {}

MCLines == SeqOf({Quote, Comma, "a"}, 6)
=============================================================================
