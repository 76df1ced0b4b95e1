------------------------------ MODULE SqliteBackend ------------------------------
(***************************************************************************)
(* SQLiteBackend::execute: a query compiled to SQL and run by SQLite, one  *)
(* call of the library at a time, and the handles given back on every way  *)
(* out.  The library may give the rows in any order, and any of its calls  *)
(* may fail whatever it is asked: a locked database (SQLITE_BUSY), a disk  *)
(* that cannot be read (SQLITE_IOERR), no memory.                          *)
(***************************************************************************)
EXTENDS Sqlite, SequencesExt

CONSTANTS
  Databases,           \* location -> <<>> (cannot be opened) or <<database>>
  Compile(_, _),       \* what the compiler makes of a query, over a list of bindings
  RelationOf(_, _, _)  \* what SQLite has for a text, given a database and values

ASSUME DatabasesAssumption ==
  \A location \in DOMAIN Databases :
    Databases[location] # <<>> => Databases[location] = << Databases[location][1] >>

VARIABLES
  sql,           \* the locals of execute
  connection,    \* the database handle: "none" or "open"
  statement,     \* the statement handle: "none" or "live"
  sqlOutcome     \* "none", "running", "thrown" with an error, or "returned"
                 \* with the rows of the SqlExecutionResult

sqlVars == <<sql, connection, statement, sqlOutcome>>

\* rows are what the statement has still to give, output what result has.
NoSql == [pc |-> "none", expr |-> <<>>, compiled |-> NotCompiled("none"),
          database |-> <<>>, bound |-> <<>>, rows |-> <<>>, output |-> <<>>]

NoSqlOutcome == [status |-> "none", error |-> "none", schema |-> <<>>, rows |-> <<>>]

SqlAt(pc) == sqlOutcome.status = "running" /\ sql.pc = pc

\* An exception, or the return, ends the block; what it returns is decided.
Leave(pending) ==
  /\ sql' = [sql EXCEPT !.pc = "leaving"]
  /\ sqlOutcome' = pending

SqlThrow(error) == Leave([NoSqlOutcome EXCEPT !.status = "running", !.error = error])

ExecuteSql(expr) ==
  /\ sqlOutcome.status # "running"
  /\ sql' = [NoSql EXCEPT !.pc = "compile", !.expr = expr]
  /\ sqlOutcome' = [NoSqlOutcome EXCEPT !.status = "running"]
  /\ UNCHANGED <<connection, statement>>

CompileQuery ==
  /\ SqlAt("compile")
  /\ \E compiled \in {Compile(catalog, sql.expr)} :
     IF compiled.error # "none"
     THEN SqlThrow(compiled.error)
     ELSE /\ sql' = [sql EXCEPT !.compiled = compiled, !.pc = "open"]
          /\ UNCHANGED sqlOutcome
  /\ UNCHANGED <<connection, statement>>

-----------------------------------------------------------------------------
(* databasePath: a fold over every SQLite binding, those of tables the     *)
(* query does not read included.  An empty path counts as none so far.     *)

NoLocation == ""

\* A path, or <<>> once two locations were met.
NextPath(path, binding) ==
  CASE binding.kind # "SQLite" \/ path = <<>>    -> path
    [] binding.kind = "SQLite" /\ path = <<NoLocation>> -> <<binding.location>>
    [] OTHER -> IF path = <<binding.location>> THEN path ELSE <<>>

DatabasePath ==
  LET path[n \in 0..Len(catalog)] ==
        IF n = 0 THEN <<NoLocation>> ELSE NextPath(path[n - 1], catalog[n])
  IN  path[Len(catalog)]

\* sqlite3_open_v2 gives a handle to close also when it fails.
OpenDatabase ==
  /\ SqlAt("open")
  /\ CASE DatabasePath = <<>> -> SqlThrow("locations") /\ UNCHANGED connection
       [] DatabasePath = <<NoLocation>> -> SqlThrow("source") /\ UNCHANGED connection
       [] OTHER ->
            /\ connection' = "open"
            /\ IF Databases[DatabasePath[1]] = <<>>
               THEN SqlThrow("open")
               ELSE /\ sql' = [sql EXCEPT !.database = Databases[DatabasePath[1]], !.pc = "prepare"]
                    /\ UNCHANGED sqlOutcome
  /\ UNCHANGED statement

\* Also for a database that is there; without memory there is no handle.
OpenFails ==
  /\ SqlAt("open") /\ DatabasePath \notin {<<>>, <<NoLocation>>}
  /\ SqlThrow("library")
  /\ connection' \in {"none", "open"}
  /\ UNCHANGED statement

-----------------------------------------------------------------------------
(* The statement.                                                          *)

ResultOf(bound) == RelationOf(sql.database[1], sql.compiled.text, bound)

\* Whether a text can be prepared does not depend on what is bound later.
PrepareStatement ==
  /\ SqlAt("prepare")
  /\ \E relation \in {ResultOf(Unbound(sql.compiled.text))} :
     IF relation.error # "none"
     THEN SqlThrow("prepare") /\ UNCHANGED statement
     ELSE /\ statement' = "live"
          /\ sql' = [sql EXCEPT !.pc = "bind"]
          /\ UNCHANGED sqlOutcome
  /\ UNCHANGED connection

\* The schema is read from the file here: it may be locked, or unreadable.
PrepareFails ==
  /\ SqlAt("prepare")
  /\ SqlThrow("library")
  /\ UNCHANGED <<connection, statement>>

\* stoll and stod refuse a text that is no number.
Convertible(parameter) ==
  CASE parameter.kind = "Integer" -> parameter.value.kind = "number"
    [] parameter.kind = "Real"    -> ParsesAsNumber(parameter.value)
    [] parameter.kind = "Text"    -> TRUE

NextParameter == sql.compiled.parameters[Len(sql.bound) + 1]

BindParameter ==
  /\ SqlAt("bind") /\ Len(sql.bound) < Len(sql.compiled.parameters)
  /\ IF Convertible(NextParameter)
     THEN /\ sql' = [sql EXCEPT !.bound = Append(@, BoundValue(NextParameter))]
          /\ UNCHANGED sqlOutcome
     ELSE SqlThrow("bind")
  /\ UNCHANGED <<connection, statement>>

BindFails ==
  /\ SqlAt("bind") /\ Len(sql.bound) < Len(sql.compiled.parameters)
  /\ Convertible(NextParameter)
  /\ SqlThrow("library")
  /\ UNCHANGED <<connection, statement>>

StartSteps ==
  /\ SqlAt("bind") /\ Len(sql.bound) = Len(sql.compiled.parameters)
  /\ \E relation \in {ResultOf(sql.bound)} :
       sql' = [sql EXCEPT !.pc = "step", !.rows = relation.rows]
  /\ UNCHANGED <<connection, statement, sqlOutcome>>

\* sqlite3_column_text writes a number its own way.
CellOf(value) ==
  CASE value.class = "null" -> Null
    [] value.class = "text" -> value.text
    [] IsNumber(value)      -> Rendered(value.class, value.text.num)

\* One of the rows that are left, as a Row of cells.
StepRow ==
  /\ SqlAt("step")
  /\ \E id \in DOMAIN sql.rows :
       LET row == [k \in DOMAIN sql.rows[id] |-> CellOf(sql.rows[id][k])] IN
       IF Len(row) # Len(sql.compiled.schema)
       THEN SqlThrow("size")
       ELSE /\ sql' = [sql EXCEPT
                 !.rows = [i \in DOMAIN @ \ {id} |-> @[i]],
                 !.output = [i \in DOMAIN @ \cup {id} |-> IF i = id THEN row ELSE @[i]]]
            /\ UNCHANGED sqlOutcome
  /\ UNCHANGED <<connection, statement>>

\* Mutated form of StepFails: the loop ends, and the code is not looked at.
StepFailsUnseen ==
  /\ SqlAt("step")
  /\ Leave([NoSqlOutcome EXCEPT !.status = "running", !.schema = sql.compiled.schema,
                                !.rows = sql.output])
  /\ UNCHANGED <<connection, statement>>

StepFails ==
  /\ SqlAt("step")
  /\ SqlThrow("library")
  /\ UNCHANGED <<connection, statement>>

StepDone ==
  /\ SqlAt("step") /\ DOMAIN sql.rows = {}
  /\ Leave([NoSqlOutcome EXCEPT !.status = "running", !.schema = sql.compiled.schema,
                                !.rows = sql.output])
  /\ UNCHANGED <<connection, statement>>

-----------------------------------------------------------------------------
(* ~StatementHandle runs before ~DatabaseHandle: sqlite3_close would refuse *)
(* a database that still has a statement.                                  *)

Finalize ==
  /\ SqlAt("leaving") /\ statement = "live"
  /\ statement' = "none"
  /\ UNCHANGED <<sql, connection, sqlOutcome>>

Finished == sqlOutcome' = [sqlOutcome EXCEPT
                             !.status = IF sqlOutcome.error = "none" THEN "returned" ELSE "thrown"]

\* Mutated form of Close: the handle is owned only after the open succeeded.
CloseOpened ==
  /\ SqlAt("leaving") /\ statement = "none"
  /\ connection' = IF sql.database = <<>> THEN connection ELSE "none"
  /\ sql' = NoSql
  /\ Finished
  /\ UNCHANGED statement

Close ==
  /\ SqlAt("leaving") /\ statement = "none"
  /\ connection' = "none"
  /\ sql' = NoSql
  /\ Finished
  /\ UNCHANGED statement

SqlStep ==
  /\ \/ CompileQuery \/ OpenDatabase \/ PrepareStatement \/ BindParameter
     \/ StartSteps \/ StepRow \/ StepDone
     \/ OpenFails \/ PrepareFails \/ BindFails \/ StepFails
     \/ Finalize \/ Close
  /\ UNCHANGED catalog
=============================================================================
