-------------------------------- MODULE Backends --------------------------------
(***************************************************************************)
(* A client with one catalog and both backends.  It runs queries, each on  *)
(* the CSV backend and then on the SQLite backend, parses lines with       *)
(* CsvParser::parseLine, and between queries registers more sources in the *)
(* catalog that both backends refer to.                                    *)
(***************************************************************************)
EXTENDS CsvBackend, SqliteBackend

CONSTANTS
  FirstBindings,   \* the bindings the client starts with: the CSV sources
  Registrations,   \* the bindings it may add
  MaxBindings,     \* bound on the bindings of the catalog
  Queries(_),      \* the queries it runs over a catalog, and their parts
  Height(_),       \* the height of a query
  Lines            \* the lines it parses

VARIABLES
  client           \* "idle", or what it waits for

vars == <<catalog, csvVars, sqlVars, client>>

Init ==
  /\ catalog = FirstBindings
  /\ scan = NoScan /\ stack = <<>> /\ plan = <<>> /\ outcome = NoOutcome
  /\ sql = NoSql /\ connection = "none" /\ statement = "none" /\ sqlOutcome = NoSqlOutcome
  /\ client = "idle" /\ query = <<>>

Register ==
  /\ client = "idle" /\ Len(catalog) < MaxBindings
  /\ \E b \in Registrations :
       IF b.kind = "Csv" THEN AddCsv(b.name, b.location, b.schema)
       ELSE AddSQLite(b.name, b.location, b.physicalName, b.schema)
  /\ UNCHANGED <<csvVars, sqlVars, client>>

ParseSomeLine ==
  /\ client = "idle" /\ Len(catalog) = Len(FirstBindings)
  /\ \E line \in Lines : ParseLine(line)
  /\ client' = "parseLine"
  /\ UNCHANGED <<catalog, stack, plan, outcome, sqlVars, query>>

TakeFields ==
  /\ client = "parseLine" /\ ~Scanning
  /\ scan' = NoScan
  /\ client' = "idle"
  /\ UNCHANGED <<catalog, stack, plan, outcome, sqlVars, query>>

RunOnCsv ==
  /\ client = "idle"
  /\ \E expr \in Queries(catalog) : Execute(expr)
  /\ client' = "CsvBackend"
  /\ UNCHANGED <<catalog, sqlVars>>

RunOnSqlite ==
  /\ client = "CsvBackend" /\ outcome.status # "running"
  /\ ExecuteSql(query[1])
  /\ client' = "SQLiteBackend"
  /\ UNCHANGED <<catalog, csvVars>>

TakeResults ==
  /\ client = "SQLiteBackend" /\ sqlOutcome.status # "running"
  /\ scan' = NoScan /\ plan' = <<>> /\ outcome' = NoOutcome /\ sqlOutcome' = NoSqlOutcome
  /\ client' = "idle" /\ query' = <<>>
  /\ UNCHANGED <<catalog, stack, sql, connection, statement>>

CsvRuns == CsvStep /\ UNCHANGED <<sqlVars, client>>
SqliteRuns == SqlStep /\ UNCHANGED <<csvVars, client>>

Next == \/ Register \/ ParseSomeLine \/ TakeFields
        \/ RunOnCsv \/ RunOnSqlite \/ TakeResults
        \/ CsvRuns \/ SqliteRuns

Spec == Init /\ [][Next]_vars

\* A call of a backend is a loop of one thread: it goes on while it can.
FairSpec == Spec /\ WF_csvVars(CsvStep) /\ WF_sqlVars(SqlStep)

-----------------------------------------------------------------------------
(* The types of the variables; and whatever was registered since, the      *)
(* sources of the queries are the files the answers are computed from.     *)
TypeOK ==
  /\ \A i \in DOMAIN catalog : catalog[i].kind \in SourceKind
  /\ SourcesAsFiles
  /\ outcome.status \in {"none", "running", "thrown", "returned"}
  /\ (outcome.status = "running") = (stack # <<>>)
  /\ sqlOutcome.status \in {"none", "running", "thrown", "returned"}
  /\ (sqlOutcome.status = "running") = (sql # NoSql)
  /\ connection \in {"none", "open"} /\ statement \in {"none", "live"}
  /\ client \in {"idle", "parseLine", "CsvBackend", "SQLiteBackend"}

(* Whatever call of SQLite fails, and whether or not the database could be *)
(* opened, execute leaves no statement and no database open.               *)
HandlesReleased ==
  sqlOutcome.status # "running" => connection = "none" /\ statement = "none"

-----------------------------------------------------------------------------
(* What the constants are.                                                 *)

\* The catalogs there may be.
Catalogs ==
  {FirstBindings \o added :
     added \in UNION {[1..n -> Registrations] : n \in 0..MaxBindings - Len(FirstBindings)}}

IsBinding(b) ==
  /\ b = Binding(b.kind, b.name, b.location, b.physicalName, b.schema)
  /\ b.kind \in SourceKind
  /\ b.kind = "SQLite" => b.location \in DOMAIN Databases \cup {NoLocation}

\* A CSV source that is registered later does not bring the first file of a
\* name, so Files, which the answers come from, stays right.
ASSUME BindingsAssumption ==
  /\ FirstBindings \in Seq(ToSet(FirstBindings))
  /\ MaxBindings \in Nat /\ Len(FirstBindings) <= MaxBindings
  /\ NamesFiles(FirstBindings)
  /\ \A b \in ToSet(FirstBindings) \cup Registrations : IsBinding(b)
  /\ \A b \in Registrations : b.kind = "Csv" =>
       /\ b.physicalName = b.name
       /\ b.name \in TableName => FindIn(FirstBindings, b.name, "Csv") # <<>>

ASSUME LinesAssumption == \A line \in Lines : line \in Seq(Token)

\* Queries are what the constructors built, and answer with rows that fit.
ASSUME QueriesAssumption ==
  \A bindings \in Catalogs : \A expr \in Queries(bindings) :
    /\ NodeOK(expr, Queries(bindings)) /\ Fits(expr.answer, expr.schema)
    /\ Height(expr) \in Nat
    /\ \A i \in DOMAIN Children(expr) :
         Height(Children(expr)[i]) \in 0..Height(expr) - 1

\* Compile and RelationOf are the recursions over SqlCompiler's and Sqlite's nodes.
ASSUME CompileAssumption ==
  \A bindings \in Catalogs : \A expr \in Queries(bindings) :
    Compile(bindings, expr) =
      CompileNode(bindings, expr,
                  [i \in DOMAIN Children(expr) |-> Compile(bindings, Children(expr)[i])])

RelationsOf(database, text, bound) ==
  [i \in DOMAIN Subqueries(text) |->
     RelationOf(database, Subqueries(text)[i], BoundIn(text, bound)[i])]

ASSUME RelationAssumption ==
  \A bindings \in Catalogs : \A expr \in Queries(bindings) :
    LET compiled == Compile(bindings, expr) IN
    compiled.error = "none" =>
      \A location \in DOMAIN Databases : \A database \in ToSet(Databases[location]) :
        \A bound \in {Bound(compiled), Unbound(compiled.text)} :
          RelationOf(database, compiled.text, bound) =
            RelationNode(database, compiled.text, bound,
                         RelationsOf(database, compiled.text, bound))

-----------------------------------------------------------------------------
(* What SQLiteBackend may answer, without its steps: an exception, or all  *)
(* the rows SQLite has for the text in the one database of the catalog.    *)

Locations(bindings) ==
  {b.location : b \in {c \in ToSet(bindings) : c.kind = "SQLite"}}

TheDatabases(bindings) ==
  UNION {ToSet(Databases[l]) : l \in Locations(bindings) \ {NoLocation}}

OneDatabase(bindings) ==
  \E l \in Locations(bindings) : Locations(bindings) \ {NoLocation} = {l}

Shown(rows) == [id \in DOMAIN rows |-> [k \in DOMAIN rows[id] |-> CellOf(rows[id][k])]]

\* The rows of a compiled query over a catalog, if it has an answer.
SqlAnswers(bindings, compiled) ==
  IF /\ compiled.error = "none" /\ OneDatabase(bindings)
     /\ \A k \in DOMAIN compiled.parameters : Convertible(compiled.parameters[k])
  THEN {Shown(relation.rows) :
          relation \in {r \in {RelationOf(database, compiled.text, Bound(compiled)) :
                                database \in TheDatabases(bindings)} : r.error = "none"}}
  ELSE {}

SqlErrors == {"source", "raw", "locations", "open", "prepare", "bind", "library"}

SqlReplies(expr) ==
  {[NoSqlOutcome EXCEPT !.status = "thrown", !.error = e] : e \in SqlErrors}
  \cup
  {[NoSqlOutcome EXCEPT !.status = "returned", !.schema = expr.schema, !.rows = rows] :
     rows \in SqlAnswers(catalog, Compile(catalog, expr))}

SqlPhase == CASE sqlOutcome.status = "none" -> "idle"
              [] sqlOutcome.status = "running" -> "busy"
              [] OTHER -> "done"

Sqlite3 == INSTANCE AbstractBackend WITH
             phase   <- SqlPhase,
             asked   <- IF SqlPhase = "idle" THEN <<>> ELSE << <<query, catalog>> >>,
             allowed <- SqlReplies(query[1]),
             replied <- IF SqlPhase = "done" THEN <<sqlOutcome>> ELSE <<>>

(* SQLiteBackend::execute ends, with all the rows or with an exception:    *)
(* never with the part of them that came before a failure, and never with  *)
(* rows of one database when the catalog names two.                        *)
SqliteImplements == Sqlite3!FairSpec

-----------------------------------------------------------------------------
(* When the two backends have to agree.                                    *)

CONSTANTS
  Exact(_),          \* whether every column of a query comes through SQL
  Comparable(_, _)   \* whether a query over a list of bindings means the same to both

ASSUME ExactAssumption ==
  \A bindings \in Catalogs : \A expr \in Queries(bindings) :
    Exact(expr) <=> ExactNode(expr, [i \in DOMAIN Children(expr) |-> Exact(Children(expr)[i])])

\* Cells are compared as tests/backend_tests.cpp does: numbers as numbers,
\* since SQLite shows a 120.50 as 120.5, and texts as texts.
AsCompared(cell) == IF cell.kind = "number" THEN [cell EXCEPT !.bytes = 0] ELSE cell

\* A value that was imported from a text.
Stores(value, text) ==
  IF text.kind = "number" THEN IsNumber(value) /\ value.text.num = text.num
  ELSE value = Value("text", text)

\* A table with the rows of the file, its columns declared as what they hold.
\* What SQLite shows of a number is that number unless it is a real of more
\* than the 15 digits sqlite3_column_text writes.
SameData(file, table) ==
  /\ table.columns = file.header
  /\ DOMAIN table.rows = DOMAIN file.rows
  /\ \A i \in DOMAIN file.rows : \A k \in DOMAIN file.header :
       LET text == file.rows[i][k] IN
       /\ text.kind \in {"number", "text"}
       /\ table.affinities[k] = IF text.kind = "number" THEN "numeric" ELSE "text"
       /\ Stores(table.rows[i][k], text)
       /\ AsCompared(CellOf(table.rows[i][k])) = AsCompared(text)

\* An empty location is like no location only before the others.
ReadsTheSame(bindings, expr) ==
  LET binding == FindIn(bindings, expr.name, "SQLite") IN
  /\ expr.answer.error = "none" /\ expr.schema # <<>>
  /\ binding # <<>> /\ OneDatabase(bindings) /\ NoLocation \notin Locations(bindings)
  /\ TheDatabases(bindings) # {}
  /\ \A database \in TheDatabases(bindings) :
       /\ binding[1].physicalName \in DOMAIN database
       /\ SameData(Files[expr.name], database[binding[1].physicalName])

\* A condition that compares texts with texts and numbers with numbers.
Typed(condition, child) ==
  /\ ~condition.raw
  /\ SequenceContains(child.schema, condition.leftColumn)
  /\ condition.rightKind = "Column" => SequenceContains(child.schema, condition.rightColumn)
  /\ \A id \in DOMAIN child.answer.rows :
       LET row   == child.answer.rows[id]
           left  == RowValue(child.schema, row, condition.leftColumn)
           right == IF condition.rightKind = "Column"
                    THEN RowValue(child.schema, row, condition.rightColumn)
                    ELSE condition.rightLiteral
       IN  left.kind = right.kind
  /\ condition.rightKind = "Literal" =>
       condition.literalKind \in (IF condition.rightLiteral.kind = "number"
                                  THEN {"Integer", "Real"} ELSE {"Text"})

\* Keys that are the same number are the same text: executeJoin compares texts.
SameKeys(expr) ==
  /\ SequenceContains(expr.left.schema, expr.leftColumn)
  /\ SequenceContains(expr.right.schema, expr.rightColumn)
  /\ \A l \in DOMAIN expr.left.answer.rows : \A r \in DOMAIN expr.right.answer.rows :
       LET left  == RowValue(expr.left.schema, expr.left.answer.rows[l], expr.leftColumn)
           right == RowValue(expr.right.schema, expr.right.answer.rows[r], expr.rightColumn)
       IN  \/ left.bytes = right.bytes
           \/ left.kind = "number" /\ right.kind = "number" /\ left.num = right.num
           => left = right

\* By the kind of the node, when its children are comparable.
ComparableNode(bindings, expr) ==
  CASE expr.kind = "Table"   -> ReadsTheSame(bindings, expr)
    [] expr.kind = "Select"  -> Typed(expr.condition, expr.child)
    [] expr.kind = "Project" -> expr.columns # <<>>
    [] expr.kind = "Rename"  -> TRUE
    [] expr.kind = "Join"    -> SameKeys(expr)

ASSUME ComparableAssumption ==
  \A bindings \in Catalogs : \A expr \in Queries(bindings) :
    Comparable(bindings, expr) <=>
      /\ \A i \in DOMAIN Children(expr) : Comparable(bindings, Children(expr)[i])
      /\ ComparableNode(bindings, expr)

\* The part of each row that is compared.
KeptCells(row, kept) == [k \in kept |-> AsCompared(row[k])]
KeptRows(rows, kept) == [id \in DOMAIN rows |-> KeptCells(rows[id], kept)]

(* A query both backends can run the same data for gives the same rows on  *)
(* both, each as often, and in them the same numbers and texts: in every   *)
(* column, or, when a Select, a Rename or a Join stands on a schema that   *)
(* repeats a name, in the first column of each name.  Nothing but a call   *)
(* of SQLite that fails by itself keeps it from answering.                 *)
BackendsAgree ==
  client = "SQLiteBackend" /\ sqlOutcome.status # "running" /\ Comparable(catalog, query[1])
    => /\ outcome.status = "returned"
       /\ \/ sqlOutcome.error = "library"
          \/ LET kept == KeptColumns(query[1], Exact(query[1]))
             IN  /\ sqlOutcome.status = "returned"
                 /\ outcome.result.schema = sqlOutcome.schema
                 /\ SameRows(KeptRows(outcome.result.rows, kept), KeptRows(sqlOutcome.rows, kept))
=============================================================================
