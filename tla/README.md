# Verification of the relational query tool

This directory is a TLA+ development about the code in `src/`: modules that
model its parts, TLC configurations that check them on small instances, and
proofs, checked by TLAPS, that the most important results hold for every value
of the constants.

1. [The system](#1-the-system): parts, state, operations, what is hard, what is correct
2. [Modules and code](#2-modules-and-code): which module models what, and how
3. [Runs](#3-runs): what each run checks, its bounds, its fairness
4. [Proofs](#4-proofs)
5. [Where code and documents disagree](#5-where-code-and-documents-disagree)
6. [What is not modelled](#6-what-is-not-modelled)
7. [Plan](#7-plan)

## 1. The system

The program lets a user write a relational query in a C++ DSL, rewrites the query
with a rule-based optimizer, and runs the original or the optimized form on one of
two backends: one interprets the query over CSV files, one compiles it to SQL and
runs it in SQLite. A library of sequences and streams, older than the rest,
carries the data.

```
 DSL (query.cpp, predicate.cpp)
        | builds                         optimizes
        v                                   v
 relational AST (nodes.cpp)  --->  QueryOptimizer  ---> OptimizationResult
        |                                             original, optimized, report
        +---------------+-----------------------------+
                        v                             v
                  CsvBackend                     SqliteBackend
          CsvParser, SourceCatalog,       SqlCompiler, SourceCatalog,
          PredicateEvaluator              sqlite3
                        |                             |
                        +------> QueryResult <--------+---> graphical demo (main.cpp)
```

| Component | State | Operations | Talks to |
|---|---|---|---|
| Query DSL (`src/dsl`) | none, each call makes a new shared expression | `Table`, `Sigma`, `Pi`, `Rho`, `Join`, `\|`, `Col(..) < ..`, `Literal` | builds AST nodes |
| Relational AST (`src/ast`) | immutable nodes; each stores its schema at construction | constructors; `ProjectExpr` refuses unknown columns | DSL, optimizer, backends |
| Query optimizer (`src/query_optimizer`) | `last_notes_`, kept over calls; a report per call | `optimize`, recursive `optimizeExpr` with five rules, `notes` | AST, expression helpers |
| Expression helpers (`src/visitor`) | none | `locateColumn`, `appendUnique`, `allColumnsIncluded`, ... | optimizer, AST |
| Predicate evaluator (`src/backend`) | none | `evaluate`, number-or-bytes comparison | CSV backend |
| CSV backend (`src/backend/csv`) | the execution plan of the last `execute` | one handler per kind of node | parser, catalog, evaluator, `QueryResult` |
| CSV parser | position in the file, quoting state of a line | `read`, `parseLine` | files |
| Query results | schema and rows | `append`, which refuses a row of another size | all backends |
| Source catalog | the list of bindings, of CSV files and of SQLite tables | `addCsv`, `addSQLite`, `find` | DSL names, backends |
| SQL compiler, SQLite backend | text and parameters of the compiled query; a database handle | `compile`; open, prepare, bind, step, finalize | AST, catalog, sqlite3 |
| File line streams (`streams/file`) | file, position, opened, ended | `open`, `close`, `read`, `try_read`, `write` | the file system, another process through the file |
| Live file stream (`streams/live_file`) | the same and the empty polls in a row | the same, polling at the end of file | a file being written |
| Sequence streams (`streams/sequence`) | a sequence, a position, opened | `read`, `try_read`, `write`, `open`, `close` | sequences and their owners |
| Lazy stream | a generator | not compiled | |
| Array sequences (`core/array_sequence`) | array, count, capacity | `append`, `prepend`, `insert_at`, `slice`, `concat`, `map`, `where`, `get_sub_sequence`, enumerators; mutable and immutable classes | |
| List sequences (`core/list_sequence`) | nodes with head, tail, length | the same | |
| Graphical demo (`main.cpp`) | statics with the chosen backend and plan; the tabs ImGui keeps | per frame: build, optimize, execute, show | everything |

### What is hard to test, and what correct means

The sources of trouble, with their lines, are the `hazards` of `PROJECT.json`. By
component:

* **Optimizer.** A rewrite is right only if the rewritten query means the same on
  *every* database, including databases whose files are missing, malformed or lack a
  column: the exception is part of the meaning, and the first part of a query that
  fails decides which exception it is. Column names are not unique after a join, so
  "the column belongs to the left side" is a question about both schemas. Pruning
  collects columns in a loop that can be abandoned half-way. A projection made by a
  rule goes through a constructor that throws. The notes accumulate over calls while
  each report starts empty. Correct: every (recursive) call returns an expression of
  the same schema and answer, never throws, reports each rule it used, and never makes
  the joins dearer.
* **CSV backend.** The schema announced when a node was built must fit the rows made
  when it is executed, after any rewrite; raw conditions and missing columns are only
  noticed when there is a row. The answer, its order, the plan and the exception must be
  those the optimizer's rules are justified by. The parser's automaton decides whether a quote
  opens, closes, is text or opens again; a wrong turn shifts every field after it.
* **Source catalog.** A name may be registered twice, and the backends hold a reference:
  the first binding must go on counting. A second database, for whatever table, makes every SQL query
  fail, and must never make one read the wrong database.
* **SQL compiler and SQLite backend.** SQLite reads the same query by other rules: names in place
  of positions, affinities in place of `strtod`, NULL in place of NaN, errors before the first
  row in place of at it, and parameters by their place in the text. Any call may fail, with handles open and
  part of the rows collected. Correct: where the data is the same both backends agree; the optimizer keeps SQLite's
  answers too; a call ends with all rows or an exception, and leaves nothing open.
* **File streams.** A reader and a writer in two processes share only the file. A line
  can be on its way when the reader polls; the writer can die in the middle of a line;
  the file can be truncated under a reader; a reader that met the end of file has
  `eofbit` set; a write can fail and is counted all the same. Correct: text arrives once and in order, nothing is written behind a lost line, a stream ends only at the end of
  the file, and polling ends.
* **Sequence streams.** A stream keeps its position when it is closed, its end is not final, and a
  writer into an immutable sequence moves on to copies while its owner keeps the original.
  Correct: each item is read once, and nothing written is lost.
* **Demo.** A frame is drawn from top to bottom, so the query is chosen before the
  checkbox that chooses it; files may be removed, rewritten or broken between two reads of one
  execution; one of the readers stands outside the `try`. Correct: errors are shown, and what
  is shown comes to be what was chosen.
* **Sequences.** Growth by doubling, shifting loops, four ways to link a node, slices
  with indices from the end, immutable objects that must never change, enumerators over
  arrays and lists that change under them. Correct: every operation does to the values
  of the objects what the interface says, whatever was called before and whatever class the
  objects have.

## 2. Modules and code

| Module | Models | Extends / instances |
|---|---|---|
| `ExprUtils` | `visitor/expr_utils.cpp` and `columnIndex` | |
| `PredicateEvaluator` | `backend/predicate_evaluator.cpp`, `Cell`, `Row::value` | `ExprUtils` |
| `CsvOperators` | what each `CsvBackend::execute*` and `CsvParser::read` answer, `QueryResult::append` | `PredicateEvaluator` |
| `RelationalAst` | `ast/nodes.cpp` | `CsvOperators` |
| `QueryDsl` | `dsl/predicate.cpp`: operands, literals, conditions | `PredicateEvaluator` |
| `SourceCatalog` | `backend/source_catalog.cpp` | |
| `CsvParser` | `CsvParser::parseLine`, symbol by symbol, and what a line says | |
| `CsvBackend` | `CsvBackend::execute` and `CsvParser::read`, step by step | `RelationalAst`, `CsvParser`, `SourceCatalog` |
| `SqlCompiler` | `backend/sql/sql_compiler.cpp`, `compiled_sql.cpp` | `RelationalAst`, `SourceCatalog` |
| `Sqlite` | external: what SQLite documents of the texts the compiler writes | `SqlCompiler` |
| `SqliteBackend` | `backend/sql/sqlite_backend.cpp` | `Sqlite` |
| `Backends` | a client with one catalog and both backends | `CsvBackend`, `SqliteBackend`, `AbstractBackend` |
| `AbstractBackend` | what a caller of either backend may rely on | |
| `SqlRecursion` | the recursions of the compiler over a query and of SQLite over a SELECT, for the run of `Backends` | `Sqlite` |
| `CsvReplies` | what `CsvBackend::execute` replies with order and plan (`CsvImplements`), for TLC | `Backends`, `SqlRecursion` |
| `SqlRewrites` | the optimizer in front of the SQL compiler | `QueryOptimizer`, `Sqlite` |
| `SequenceStreams` | `streams/detail/sequence.tpp` | `SequenceValues` |
| `Demo` | the frames of `main.cpp` | |
| `QueryOptimizer` | `query_optimizer.cpp`, the DSL as its client | `RelationalAst`, `AbstractOptimizer` |
| `AbstractOptimizer` | what a caller of `optimize` may rely on | |
| `QueryOptimizerProofs`, `BackendsProofs`, `SequenceStreamsProofs`, `FileLineStreamsProofs`, `ArraySequenceProofs`, `ListSequenceProofs`, `DemoProofs` | the theorems | the module they are about |
| `SequenceLemmas` | lemmas about sequences and their prefixes, insertions and removals | |
| `FileLineStreams` | `streams/detail/file.tpp`, `streams/detail/live_file.tpp` | |
| `SequenceValues` | what `core/sequence.h` promises | |
| `ArraySequence` | `core/detail/array_sequence.tpp`, `dynamic_array.tpp` | `SequenceValues` |
| `ListSequence` | `core/detail/list_sequence.tpp`, `linked_list.tpp` | `SequenceValues` |
| `MC*` | values of the constants for TLC | |

The `map` of `PROJECT.json` gives, for each definition, the lines it stands for.
Definitions introduced by "Mutated form of" are deliberately wrong versions of the
definition that follows; each property has one that breaks it.

### Expressions, answers and the optimizer

* **A node is a value.** Nodes are never changed after construction, so sharing them is
  not observable and a node is a record with its children inside. As in the code it holds
  the `schema` computed by its constructor. Two more fields say what the node *means*:
  `answer` is what `CsvBackend::executeExpr` returns for it (schema and rows, or the kind
  of exception), and `work` the row pairs its joins compare. Each constructor computes
  them from its children with the operators of `CsvOperators`, so the whole development
  compares original and optimized queries by executing both.
* **Rows have identities.** The rows of an answer are a function from identities:
  `<<i>>` is line *i* of a file and a pair of identities is a row of a join. Filters and
  projections keep identities, and the nested loops of `executeJoin` visit pairs in
  lexicographic order, so two answers with the same function are the same *sequence* of
  rows, duplicates included.
* **Errors** are kinds: `source` (the source cannot be opened or has no header), `column`,
  `row` (a malformed line), `raw` (a raw condition was evaluated), `size` (the row that
  `append` refuses). They occur in the code's order: left input, right input, keys; and
  `raw` and the missing column of a projection only if there is a row.
* **Comparison.** A text carries what `strtod` reads in it and its place in the byte order;
  two texts that both read as numbers compare as numbers (NaN equals everything), others
  by bytes. Join keys always compare by bytes.
* **The recursion is a stack.** A frame of `stack` is an activation of `optimizeExpr`:
  its argument, the optimized children it has so far, and the locals of
  `splitProjectColumnsForJoin`. `Descend` calls; each way an activation can return is an
  action: `FinishTable`, `FinishRename`, `FinishJoin`, `PushSelectBelowProject`,
  `PushSelectLeft`, `PushSelectRight`, `KeepSelect` (with the warning it writes, if any),
  `CollapseProjects`, `SplitColumn` / `PruneProject` / `GiveUpPruning`, `KeepProject`.
  Rules that build another node throw if its constructor does. As in the code a rule is
  applied once, to the already optimized child, and its result is not optimized again.
* **The client** builds queries the way the DSL does, on a `workspace` of at most
  `MaxPending` expressions, calls `optimize`, and may optimize the result again
  (`OptimizeAgain`) while `lastNotes` grows.

### The backends

* **Two levels of the CSV backend.** `CsvOperators` says in one step what a query answers; the optimizer's
  theorems are about it. `CsvBackend` computes the answer as the code does: a stack
  of activations of `executeExpr`, each with its place (`pc`) and locals, files read line by line
  through `CsvParser`, loops row by row, `append` after each row, the plan written
  on the way, an exception that leaves every activation. `query` remembers the root `execute` was called with,
  for the properties: `AnsweredAsMeant` says that an execution ends with the rows and the schema the query means, or with its error,
  and `CsvImplements` adds their order, the plan and that it ends; `IsFileOf`, checked in `TypeOK`, ties the text of a file to the file of `CsvOperators`.
* **A line** is a sequence of quotes, commas and pieces of other text. `FieldsOf` says
  without an automaton what a line says: a comma separates when an even number of quotes is
  before it, and a quote is text when it follows a quote outside of quotes.
* **SQL texts are records** of the clauses of a SELECT. A parameter has no number in
  the text: SQLite counts the question marks in the order of the text, so each SELECT has its number of
  `marks` and `BoundIn` deals the bound values out by them; the compiler's list has to be in that order, and a list
  in another order is a wrong answer.
* **SQLite** (`Sqlite`) has values with storage classes, columns with affinities, comparisons that apply them,
  NULLs that no comparison matches, unknown names that fail before the first row (or, unqualified
  and in double quotes, are read as strings, as the default build does). `sqlite3_column_text` writes a number its own way
  (`Rendered`, used by `CellOf`): a 120.50 of a REAL column comes back as 120.5. It may give rows in any order, so
  they are a function from the identities used in `CsvOperators`. Any call may fail by itself, whatever it is asked, because the
  database is locked, cannot be read, or memory is short: `OpenFails`, `PrepareFails`, `BindFails`, `StepFails`, all with the error `library`.
  Column names are compared exactly, although SQLite ignores their case: names that differ only in case are outside the model.
* **Recursion.** `compileExpr` calls itself on the children of an expression, and SQLite runs the subqueries of a SELECT.
  Each is a step for one node, given what its parts have (`CompileNode`, `RelationNode`), and a recursion over it.
  Provers do not take RECURSIVE operators, so in `SqliteBackend` and `Backends` the
  recursions are constants, `Compile` and `RelationOf`, and that they are the recursion over the step is an assumption.
  `SqlRecursion` defines them, the configurations give them to the constants, and TLC evaluates the
  assumptions. `Exact`, `Comparable` and `Height` are treated alike. `SqlRewrites` needs neither: its expressions are the nodes of the
  optimizer's heap, a finite set, and the same steps are the bodies of recursive functions over it (`Compiled`, `Relations`, `ExactOf`).
* **The SQLite backend** is one step per call of the library. `DatabasePath` is the fold over all
  bindings; `Leave` decides how `execute` ends, then `Finalize` and `Close` run, the destructors of the two handles.
* **`AbstractBackend`**: ask, then one reply out of those the query allows. For CSV `allowed` is the one
  answer of the query with its plan; for SQLite it is all the rows of the text in the one database, or an exception.
* **`Backends`** is the client: it runs each query on both, parses lines and registers more sources between
  calls. `Comparable` says when the two have to agree (`docs/ui.md` promises the same rows for the query it shows): the
  table holds what the file does (`SameData`: numbers stored as that number, in any notation, and texts as that text), conditions compare numbers with numbers and texts with texts (`Typed`), and a join
  has no two keys that are one number written in two ways, which SQLite joins and `executeJoin`, comparing bytes, does not (`SameKeys`).
  The catalog has one database and no empty location: behind another, an empty path makes `databasePath` throw (`ReadsTheSame`).
  The cells of the two answers are compared as the end-to-end test does (`AsCompared`, `tests/backend_tests.cpp:45-58`, `docs/iteration3_backends.md:67`):
  numbers as numbers, since SQLite may show 120.5 where the file has 120.50, and texts as texts. `SameData` therefore also asks that
  what SQLite shows of a number is that number, which a real of more than the 15 digits it writes is not.

### The demo

A frame is `PollEvents`, then the parts of the window in the order they are drawn. ImGui is external:
a widget clicked is reported when it is drawn, a tab is drawn from the next frame on. Every frame of the Execution
tab runs its query again, so `Execute` reads the files one at a time while `FilesChange` may remove, restore,
rewrite or break them; the read of one file is one step. Besides being missing, a file may have contents its reader refuses (`Malformed`): of a CSV file, those that are
empty, lack a column, have a row with another number of fields or an open quote (`csv_parser.cpp:50-92`); of `demo.sqlite3`, those that
are no database, lack a table or a column, or are locked. An execution stops at the first file refused (`Refused`); its exception is caught, and shown.
`SourcePreview` reads a CSV file of its own outside of the `try`: while the preview is open, a missing or a malformed file ends the program.

### Streams

`file` is a sequence of pieces of text and newlines. `Write` puts a line and its newline
into the file at once, if they fit the buffer of the `ofstream`; a line of `Torn` does not,
and reaches the file in any number of `WriteThrough` steps, or only in part if the
`WriterDies`. `try_read` is split where the reader looks at the file, because writes fall
between these points: `TryRead` enters `std::getline`, `TakeLine` finds a newline in the
read-ahead, `Underflow` refills the read-ahead, `ReachEnd` meets the end of the file and
either delivers text without a newline, setting `eofbit`, or has nothing (`NoLine`).
`opens.seen` remembers which incarnation of the file the reader opened.
The iostreams are the only external code. A file that was never created cannot be opened, and a write to the file
may fail (`Faults`): the `ofstream` is then `bad`, takes nothing more, and its buffer keeps a short line whole
(`held`) for one more attempt in the close, where a long line that bypassed the buffer is gone. `write`
does not look at the state of the stream and counts on. This is what libstdc++ does; the reads do not fail.

`SequenceStreams` puts the reader and the writer over a sequence on the objects of `SequenceValues`, which say
what an `append` returns: the object, or the copy beside it. Their owners go on inserting anywhere; `shifted`
remembers an insertion before the reader's position, which moves items under it.

### Sequences

`SequenceValues` gives every object a value and says what each operation does to the
values. `ArraySequence` keeps an array with cells that nobody wrote (`Unset`), a count and
a capacity; `ListSequence` keeps a heap of nodes. `call` is the call being made, so that
the implementation is held to *that* operation and arguments: a refusal must be refused, and an
insertion must insert there. Objects of the mutable and the immutable class
live side by side and are copied and combined. Enumerators hold what the code's hold: a
count and an index into an array that may grow, or the head and the current node of a
list. `visited` and `present` record what an enumeration gave, for the properties.

## 3. Runs

All runs allow deadlock (`CHECK_DEADLOCK FALSE`): the client of a library may stop calling,
and at the bounds it must. What must *not* stop is stated as liveness.

| Run | Checks |
|---|---|
| `optimizer` | `TypeOK`, `AnswersFit`, `NeverThrows`, `AnswerPreserved`, `NoRuleNoChange`, `JoinWorkNotIncreased` for every query of up to five nodes |
| `optimizer_again` | `IInv`, the inductive invariant of the proofs; `ImplementsAbstract`, with its liveness; `JoinWorkNotIncreased`; for queries of up to four nodes over sources of which two fail |
| `optimizer_raw` | violation: a raw condition is not always reported (section 5) |
| `streams` | both readers, a writer that may truncate, flushes that fail and write nothing: `TypeOK`, `WholeLines`, `EndsAtEndOfFile`, `PollingEnds` |
| `streams_torn` | a live reader, long lines, a dying writer, writes that fail half-way: `TextInOrder`, `NothingBehindLostLine`, `EndsAtEndOfFile`, `PollingEnds` |
| `streams_torn_lines` | violation: a live reader returns half a line (section 5) |
| `array` | `TypeOK`, `EnumerationSound`, `ImplementsSequence` |
| `list` | `ChainsOK`, `PassComplete`, `ImplementsSequence` |
| `sequence_streams` | `TypeOK`, `ReadOnceInOrder`, `WritesKept`, `EverythingRead` |
| `backends` | `TypeOK`, `ParsesWhatIsWritten`, `AnsweredAsMeant`, `HandlesReleased`, `BackendsAgree`, and the two refinements `CsvImplements`, `SqliteImplements` with their liveness |
| `sql_rewrites` | `SqlAnswerKept` for every query of up to five nodes |
| `demo` | `TypeOK`, `ErrorsAreShown`, `SettlesOnChoice` |

**Optimizer bounds.** Every rule looks at a node, its child and, in a join, the schemas of
two grandchildren; a rule's result is looked at by the rule above it. Four nodes hold
any one rule with a join below, five nodes any two rules on top of each other around
a join (`MaxNodes`). The two tables share the column name `id`, so a column can be on the left, on
the right, ambiguous or missing; one pair of rows joins, another does not, and a filter can
select all, some or none of the rows. `MaxPending = 2` is what a join of two expressions
needs. `optimizer_again` adds what the first run leaves out to stay small: conditions
between two columns, repeated, reordered and empty projection lists, renames, a raw condition, a
source with a malformed line, a source without the column it is asked for, and up to
`MaxNotes = 2` notes before `optimize` is not called again (the cap only bounds repetition).

**Stream bounds.** An empty line, a short one and a long one of two pieces cover the ways
a line can meet the read-ahead. Two or three lines, two incarnations of the file and two of the reader
let each end be anywhere when the other opens, and a line be lost before, between or after others. `MaxEmptyPolls = 1` is the least for
which an empty poll is not the end; with 0, the poll that `eofbit` wastes after an
unfinished line already ends the live stream, possibly before the end of the file, so
`EndsAtEndOfFile` needs `MaxEmptyPolls >= 1` when lines can be torn. The ordinary reader also stops after
an unfinished line; `streams_torn` is therefore about the live one.

**Sequence bounds.** Two objects are enough for every operation, each of which involves at
most two. Array sequences of up to four items pass through
capacities 0, 1, 2 and 4, with unused cells in between; lists have up to four nodes in all. Indices lie below,
at and above both ends. The inserted item differs from those of the initial arrays, so an item at a
wrong place is a different value.

**Backend bounds.** Both backends run some 1100 queries: every table, every operator on every table, the joins of the good
tables under every key, an operator on each of them, filters on filters, and filters on joins of filters, in which
three parameters have to find their places. Users and orders hold the same in their files and in `demo.db` and share
a column name; self-joins repeat all their names. `orders.id` is a REAL column: the 10.50 of the file comes back as 10.5, and 1 as 1.0. The other sources each have one thing wrong: a short row, an open quote in a row or in the header, an
empty or missing file, a NaN, a NULL, a number kept as text, a table that is not there. `MaxBindings` leaves room for three
registrations in any order: all three tables of `demo.db`, over which every query is run, or a mix with names registered twice,
a second database and a database that cannot be opened. Every call of SQLite may fail in every execution. Over catalogs with up to two registrations four queries are run, since what differs there
is `find` and `databasePath`, which do not look at the query. The run has some 59,000 states. Lines have up to six symbols, enough for two quoted fields, or for every
pair of turns of the automaton between two ordinary symbols.

**Rewrites.** `sql_rewrites` uses the tables and bounds of `optimizer` as database tables, with a text column that
holds a number and a text, a NULL key and a column the tables do not have. `KeptColumns`
is needed: the columns a SELECT picks by name out of a schema that repeats the name all show the first one, and a rule that removes such a SELECT
shows the others again. Agreement in *all* columns is therefore violated, by a filter above a self-join.

**Sequence streams.** Three objects of up to two items: a sequence, its copy and the copy of that.

**Demo bounds.** Two good contents of a file tell a rewritten file from the one before, and a third is malformed. Three clicks and two changes of files
are what it takes to be in the Execution tab, change plan or backend, and have a file removed or broken and restored around it.

**Fairness.** `optimize` runs on the caller's thread until it returns, so the steps of the
optimizer are weakly fair (`WF_vars(Step)`) and the client's are not. A consumer of a stream
reads until `is_end_of_stream`, so `Poll` is weakly fair; neither the writer nor the opening of
streams is. `PollingEnds` thus holds even if the writer never writes again, and the bound on
lines is what makes it silent in the end: a live stream beside a writer that never stops need not end.
A call of a backend is a loop of one thread, hence `WF` of `CsvStep` and `SqlStep`; that SQLite gives finitely many rows is part of `Sqlite`.
The demo's loop goes on while the window is open (`WF_vars(Frame)`), whoever clicks; the consumer of a sequence stream
reads while there is something to read (`WF_vars(Read)`).

## 4. Proofs

| Theorem | Module | Says |
|---|---|---|
| `SpecInvariant` | `QueryOptimizerProofs` | `Spec => []IInv` |
| `TypeCorrect` | | `Spec => []TypeOK` |
| `ExecutionFits` | | `Spec => []AnswersFit`: `QueryResult::append` never refuses a row |
| `OptimizeNeverThrows` | | `Spec => []NeverThrows` |
| `OptimizePreservesAnswers` | | `Spec => []AnswerPreserved`: the rewrites are correct |
| `ReportIsComplete` | | `Spec => []NoRuleNoChange` |
| `OptimizeNeverDearer` | | `Spec => []JoinWorkNotIncreased`: no rule makes the joins compare more |
| `ImplementsSafety` | | `Spec => Abstract!Spec`: every step is a step of `AbstractOptimizer` or a stutter |
| `SelectThroughJoinLeft`, `SelectThroughProject` | | the algebraic laws behind two rules, with errors and order of rows |
| `RewritesKeepSqlAnswers` | | `SqlSpec => []SqlAnswerKept`: the rewrites are correct for SQLite too |
| `FilterIntoLeft` | | one of the laws about the relations of SQLite behind it |
| `StreamsInvariant` | `SequenceStreamsProofs` | `Spec => []IInv` of the sequence streams |
| `StreamsTypeCorrect` | | `Spec => []TypeOK` |
| `ReadsOnceInOrder` | | `Spec => []ReadOnceInOrder`: each item once, in order |
| `NoWriteLost` | | `Spec => []WritesKept`: in place or in the last copy |
| `FileLineStreamsTypes` | `FileLineStreamsProofs` | `Spec => []TypeOK` |
| `FileLineStreamsTextInOrder` | | `Spec => []TextInOrder`: what was read is the beginning of the file |
| `FileLineStreamsNothingBehindLostLine` | | `Spec => []NothingBehindLostLine` |
| `FileLineStreamsWholeLines` | | `Whole => (Spec => []WholeLines)` |
| `FileLineStreamsEndsAtEndOfFile` | | `Whole \/ Patient => (Spec => []EndsAtEndOfFile)` |
| `ArraySequenceTypes` | `ArraySequenceProofs` | `Spec => []TypeOK`: counted cells were written |
| `ArraySequenceEnumerations` | | `Spec => []EnumerationSound` |
| `ArraySequenceImplements` | | `Spec => ImplementsSequence`: every step is a step of `SequenceValues` |
| `ListSequenceChains` | `ListSequenceProofs` | `Spec => []ChainsOK`: each list is one chain of its own nodes |
| `ListSequenceImplements` | | `Spec => ImplementsSequence` |
| `ListSequencePasses` | | `Spec => PassComplete`: a pass gives, once and in order, each item that was there all along |
| `ParserReadsWhatIsWritten` | `BackendsProofs` | `ParserSpec => []ParsesWhatIsWritten`: the automaton reads the fields the line says |
| `CsvBackendAnswers` | | `QueriesBuilt => (ExecutionSpec /\ []SourcesAsFiles => []AnsweredAsMeant)`: the execution gives the answer the optimizer preserves |
| `BackendsInvariant` | | `Spec => []BackendsInv`, the inductive invariant of the client of both backends |
| `BackendsTypes` | | `Spec => []TypeOK` |
| `ClientParses`, `ClientIsAnswered` | | `Spec => []ParsesWhatIsWritten`, `Spec => []AnsweredAsMeant`: the first two theorems for that client, without hypotheses |
| `HandlesAreReleased` | | `Spec => []HandlesReleased`: whatever call fails, nothing is left open |
| `SqliteIsABackend` | | `Spec => Sqlite3!Spec`: all rows or an exception, once, as `AbstractBackend` says |
| `TheBackendsAgree` | | `Spec => []BackendsAgree`: on the same data both backends give the same rows, numbers as numbers, unless a call of SQLite fails by itself |
| `DemoTypes`, `DemoErrorsAreShown` | `DemoProofs` | `Spec => []TypeOK`, `Spec => []ErrorsAreShown`: only a missing or malformed CSV file under the open preview ends the program by an exception |

They hold for all tables, files, conditions, column lists, join keys, lines, buffers, items, numbers of objects and bounds. The assumptions are those of the modules: data lines that parse have as many
fields as the header (`FilesAssumption`; the parser refuses others, which is the error `row`),
each column has one physical name (`PhysicalColumnAssumption`), a file is lines of tokens or not there (`DiskAssumption`), the client uses names and
columns of the declared sets (`QueryOptimizerAssumption`), and the like for the library
(`SequenceStreamsAssumption`, `FileLineStreamsAssumption`, `ArraySequenceAssumption`, `ListSequenceAssumption`,
`DemoAssumption`). For the backends: a registration never brings the first CSV file of a name
the queries use (`BindingsAssumption`), locations are databases or cannot be opened (`DatabasesAssumption`), lines are tokens (`LinesAssumption`),
queries and their parts are what the constructors build, with rows that fit and a height (`QueriesAssumption`), and the recursions over
a query are recursions over it (`CompileAssumption`, `RelationAssumption`, `ExactAssumption`, `ComparableAssumption`). TLC evaluates them in every run.
Two theorems about streams and the one about the execution of queries have hypotheses more, explained below.

**The argument for the optimizer.** `AnswerPreserved` speaks about finished calls only and is not inductive. `IInv` adds:

* `TypeOK`: every node in the heap is what its constructor makes of its parts. Without it
  an arbitrary record could carry an arbitrary `answer`.
* `AnswersFit`: an answer that succeeds has the announced schema and rows of its length.
  The laws need it: a filter moves below a join only because the row is the
  concatenation of two rows whose lengths are those of the schemas.
* `CallsLinked`: a frame works on the child that the frame below it waits for, so that what
  it returns is put where it belongs.
* `SplitSound`: half-way through `splitProjectColumnsForJoin`, the columns scanned are in one
  of the two lists and every column of a list is of that side. Pruning needs it at the
  end of the loop, both to keep the answer and for the constructor not to throw.
* `PartsPreserved`: each finished child of each frame means what the child it
  replaces means, and *is* that child as long as no rule was noted.

Each rule then has a law about answers of `CsvOperators` (the five rules, with failing inputs, missing and
ambiguous columns and raw conditions), lifted to nodes
(rebuilding a node from parts that mean the same does not change its meaning), and one step lemma per action.

`JoinWorkNotIncreased` has a second invariant on top of it, `WorkInv`: every node has a finite number of rows and of
row pairs, and a finished child works no more than the child it replaces. `JoinNoLarger` is the heart: inputs whose rows are a subset of
the old ones, or which fail, and which have their key only where the old ones have it, give a join that compares no more
pairs. Filters and projections make such inputs. A filter that fails below a join can only end the join sooner.

**The argument for the rewrites on SQLite.** `SqlAnswerKept` is about texts with subqueries and parameters that two recursions lead to. The proof goes in two halves.

*Relations.* A map of the nodes to relations `Means` the query if each node has what SQLite makes of its clauses (`TableOf`, `FilterOf`, `ColumnsOf`, `JoinOf`) out of
the relations of its children. `RelationsKept` says of *every* such map that each finished part, and the whole query, has the relation of what it replaces; with `IInv`
it is inductive, one lemma per action. Equal relations would be too much to ask. A filter above a join selects columns by name, so where both sides share a name it shows the first one twice; the
rule that puts the filter below the join shows both. The two are `Alike`: the same names, rows and, under each name, the same cell with the same affinity, and no SELECT from them can tell
(`FilterAlike`, `ColumnsAlike`, `JoinAlike`). Only a filter may be replaced by one that is merely alike (`Keeps`). The property follows, since the columns `ExactNode` keeps of a filter are the first of their names.
Each rule has a law: `FilterOfColumns`, `FilterIntoLeft`, `FilterIntoRight`, `ColumnsOfColumns`, and for the pruning of a join's inputs `ColumnsOfNarrower`. They cover what `CsvOperators` does not have: affinities that a
column carries up through a SELECT, NULL keys, an unknown name that fails before the first row or is read as a string.

*Recursion.* That there is such a map, and that it has what the compiled texts give when run, is `HeapMeans`. A recursive function is a CHOOSE, so that `Compiled`, `Relations` and `ExactOf` satisfy their
definitions has to be shown: `Computed` says that functions over the heap that do exist, and it is inductive because the optimizer only ever adds a node whose children are there, which adds one value to each
(`CompilesMore`, `RunsMore`, `ExactsMore`). It has the parameters too: a text has as many marks as parameters (`WellCompiled`), so that `BoundIn` deals each subquery its own (`SelectText`, `JoinedText`), whatever was put around it.

Nothing is assumed of the catalog and the database: tables and columns may be missing, names registered twice, cells NULL or of any class.

**The argument for the sequence streams.** The two properties are nearly inductive. `IInv` adds that the
reader's position is not beyond the end of its source (otherwise an insertion behind the position could be a gap)
and that the writer, once made, is with an object of the same class as the one it was given: a mutable object is
never left, and every copy of an immutable one is immutable, so a later write cannot reach back to the
owner's value. `InsertAtItems` says where an insertion leaves each item; from it follow `InsertAtPrefix` (what the
reader has read stays where it is) and `WithinInsertAt` (what was written keeps its order). `ObjectsKept` collects
what every step leaves, and `ReaderLeft` and `WriterLeft` carry it to the stream that does not take the step.

**The argument for the file streams.** One invariant for each way a step can go wrong, each resting on those before:

* `TypeInv`: `TypeOK`, and that a reader which goes on has not given up, polls only an open stream, and has seen no more of the file than the writer wrote (`ReaderGoesOn`).
* `TextInv`: what was returned (joined with its newlines), what `getline` has put together and the read-ahead are, one after the other,
  the beginning of the file as the reader opened it (`ReadSoFar`). `TextInOrder` is a part of it; it holds through every refill, whatever the writer does in between.
* `LossInv`: the file has every line written so far (`EveryLine`), or all but what is in the buffer or half-way through (`OnItsWay`), or
  the lines up to a lost one and at most two beginnings of it (`LineLost`). Once a line is lost the `ofstream` is bad for good.
* `WholeInv`, under the hypothesis `Whole` (lines fit the buffer, and a failed write leaves nothing): the file is whole lines at any time, so a poll
  never meets text without a newline. The run `streams` satisfies `Whole`; `streams_torn_lines` shows that without it `WholeLines` is false.
* `LiveInv`, under `Whole` or `Patient` (only live readers, and `MaxEmptyPolls > 0`): an open reader is live, and one whose stream
  has `eofbit` set has counted no empty poll, so that the poll which finds nothing only because it starts behind unfinished text is never the last. Without the hypothesis it is false: an ordinary reader ends at a half-written line, and
  so does a live one that waits for no empty poll. `streams_torn` satisfies `Patient`.

**The argument for array sequences.** The refinement needs that no operation reads an unwritten cell. `StorageInv` says, for each object,
that its count is within its array and its capacity and the counted cells are items; and for each enumerator, that it is within what it counted. `CapacityEnough` (with the induction in `RoundsExist`) shows that doubling reaches
any size asked for. `Performs` states for each operation the value of the object afterwards and that the other objects are as they were; the refinement reads it off.

**The argument for list sequences.** `ChainsOK` says that the chain of each list *exists*; the proof works with a witness. `Linked(heap, list, chain)`
says that the nodes of `chain` follow one another from head to tail, without repeating, and end in null. `ListInv` is: the heap has nodes only, every list is linked, and
no node is in two lists (`Apart`). That `NodeAt`'s walk of `i` steps arrives at the `i`-th node of the chain (`WalkFollows`) is an induction on `i`. The four ways the code links a node,
at the head, at the tail, behind a found node, and into an empty list, all establish `Spliced`, and `SplicedLinked` shows once what that means: the chain
with the new node inserted, and the values with the new item inserted. `Grown` says what an insertion leaves alone: the nodes of other lists, since they are apart.
The refinement to `SequenceValues` then needs only the values.

**The argument for enumerations of a list.** `PassComplete` is about the step that ends a pass, and needs an invariant of a pass under way.
Two facts carry it. A chain only gains nodes and keeps the order of those it has (`Keeps`), since no operation of the code takes a node out. And
`Enumerates`: what a pass has visited so far is in the order of the chain, and each node of the chain there was at the start is visited or comes after the node the enumerator is at.
Together with `ListInv` and an enumerator that is at a node of its own list (`CursorOK`) this is `EnumerationInv`, which `MoveNext` keeps
because the next node is the one place further in the chain, and which at the end of the chain is the property.

**The argument for the parser.** A line is any sequence of tokens, quotes and commas among them. `ParserSpec` lets a caller begin any line when no call is running: `CsvParser::read`
and the client of `Backends` are two such callers. The invariant `Parses` says of a running call (`Goes`): the automaton is inside quotes when an odd number of
quotes is before its place, it never stands between a quote that closed and one that opens again by a step of its own, and the fields and the beginning
of a field it has collected are what the passed places say (`Seen`). `InsideNext` counts quotes, `SeenNext` says what one place more adds to the cuts and the texts, and an
escaped quote is two such places at once. At the end `Seen` of the whole line is `FieldsOf`, and the side of the quotes decides between fields and an exception.

**The argument for the execution.** `CsvBackendAnswers` joins the code that runs to the operators the optimizer's theorems are about. `ExecutionSpec` is
`CsvStep` and a caller that executes any expression of a set `Query`, parses, forgets results and registers sources in between. It has two hypotheses:
`QueriesBuilt`, that `Query` holds nodes the constructors made whose rows fit their schema (what `TypeCorrect` and `ExecutionFits` prove of the optimizer's nodes), and
`[]SourcesAsFiles`, that the files on disk are, parsed, the `Files` of `CsvOperators` (checked in `TypeOK` of `Backends`, registrations included).
`AnsweredAsMeant` says nothing of an execution under way. `ExecutionInv` does:

* Each activation below the innermost one is `Waits`: it is where its handler calls, and the one above it has the child it called.
  `Fails` goes along the whole stack: an error in the answer of an activation's expression is the error of the query. It needs the order of the calls. A join that waits for its right input has
  a left input that succeeded, or the error of the right one would not be the query's.
* The innermost is `Active`: what it has collected is what its expression makes of the part of its input it has passed. A table has a row for each line read (`Mapped`),
  and lines that are left or being parsed are those of the file (`Rest`, `Begun`); a filter and a projection have collected from the first rows of their
  input (`Lists`, `Collects`), a join from the pairs before the place of its two loops (`PairsOf`, `CollectsPairs`).
  Raw conditions and missing columns throw at the first row, so a loop past its first row has no error in its answer; and one without rows has none either.
* A result handed over is the answer of its expression (`Gives`). Identities number the rows of an answer, so a loop's rows are a list of the answer's identities without repetition
  (`ListedRows`), and `SameRows` follows without an induction over the query: each activation is proved from the results of its children.

The order of the rows, the plan and that the execution ends are not part of it; `CsvImplements` has TLC check them.

`ClientIsAnswered` has no hypotheses: `QueriesBuilt` is `QueriesAssumption`, and `ClientInv` keeps the catalog among those the
queries are over, in which every name still finds its first file (`NamesFiles`), however much was registered behind it.

**The argument for the SQLite backend.** `BackendsInv` is `ClientInv`, `ExecutionInv` and `SqlInv`. `SqlInv` has a case for each place of `execute`:

* `ToOpen`, `ToPrepare`, `ToBind`, `ToStep`, `ToClose` say which handles are open there; `HandlesReleased` and `TypeOK` follow.
* While binding, the values bound are those of the first parameters, none of which failed to convert. `sqlite3_prepare_v2` judges the text
  before any value is bound, `sqlite3_step` runs it with all of them; by `PreparedSame`, an induction over the query,
  the names and the errors of a text do not depend on what is bound, so a prepared statement has a relation.
* While stepping, each row of the relation is either to come or in the result, and in the result as `Shown`: a call that ends has all of them.
* A call that leaves has the answer it decided on (`SqlReplied`): all rows, or an error that this query over this catalog may
  give (`SqlFails`). That is more than `AbstractBackend` asks. The agreement needs it: the errors other than `library` have causes that comparable queries do not have.

**The argument for the agreement.** `BackendsAgree` compares what two programs made of a query by different rules. `Agreed` is the fact about a query that
both results follow from: it compiles, its parameters convert, and in every database of the catalog SQLite has for its text a relation (`SameRelation`)
with the identities of the rows the query means and, in the columns that come through by name, the same cell (`SameCell`: a value that `Stores` the cell
in a column with the affinity of its kind, so that comparisons apply no conversion, and that is shown as the same number or text).
`ComparableAgrees` shows `Agreed` by induction over the height of the query, one lemma per kind of node:

* `TableAgrees`: the catalog's one database has the table, with the file's rows.
* `SelectAgrees`: the parameters of the child come first, so `BoundIn` gives the child its own and the condition the last (`CompiledWell` has the counts); the condition then chooses
  the same rows (`SameChoice`), because numbers meet numbers and texts meet texts, and its column is the first of its name in both (`NamedCell`).
* `ProjectAgrees`: positions on one side, names on the other; a name that the child repeats is its first column in both.
* `JoinAgrees`: the same pairs match (`SameMatches`: equal bytes on one side, equal values on the other); columns of the result are found through `l` and `r` by name,
  and `KeptOfJoin` says which of them come through.

`AgreedReply` takes an `Agreed` query to the reply of `SqliteBackend`, which is `Agreed`'s relation or a call of the library that failed; `ExecutionInv` has that of `CsvBackend`.
Restricted to the kept columns both list the same cells, as they are compared, under the same identities (`ShownSame`, `KeptListed`), hence the same rows, each as often. The query may not have returned on
the SQLite side: any call may fail by itself, which `BackendsAgree` allows, and nothing else may.

`StorageInv`, `ListInv`, `EnumerationInv`, `ExecutionInv`, `BackendsInv` and the optimizer's `WorkInv` were checked by TLC on the instances of the runs before they were proved.

**The argument for the demo.** `ErrorsAreShown` is about an exception that ends the program. `DemoTypes` adds that an execution that goes on still has a source to read, so that the
`catch` of the Execution tab belongs to each of its reads, whether the file is missing or malformed; the only other read of a file is the preview's.

**Induction.** The library's induction theorems over operators cannot be used by the installed provers. Where an induction is needed (`WalkFollows`, `RoundsExist`, prefixes in `SequenceLemmas`), it
is over the set of the numbers that have the property, with `NatSetInduction` for sets, and recursive definitions are recursive functions. An induction
over queries (`QueryInduction`) is one over the heights of the queries that have the property, as a set.

**Only model-checked:** what cannot be proved here: liveness (`PollingEnds`, `EverythingRead`, `SettlesOnChoice`, and the fairness
in `ImplementsAbstract`, `CsvImplements`, `SqliteImplements`), and `CsvImplements` with the order of the rows and the plan, whose definition (`CsvReplies`) needs RECURSIVE operators over queries,
which the prover does not take. Every safety invariant of a passing run is a theorem. That the recursions of `SqlRecursion` and `CsvReplies` satisfy the
assumptions made of the constants is evaluated by TLC, for the queries of the run.

## 5. Where code and documents disagree

* **Unreported raw conditions** (`optimizer_raw`). `docs/iteration2_optimizer.md:45` says that raw
  conditions stay in place and a warning appears in the report. The code warns
  only above a projection or a join; above a table, a filter or a rename the condition
  stays without a warning, as in the example `renamed students` of `docs/ui.md`.
* **Half lines** (`streams_torn_lines`). `live_file.h` describes a reader of the lines of a file that
  another process is appending to. `std::getline` succeeds on text without a newline at the end of
  the file, so a poll in the middle of a write returns the beginning of a line as a
  line. `streams_torn` shows what still holds: no text is lost, repeated or moved.

## 6. What is not modelled

* The lazy stream includes a header that is not in the repository; nothing compiles it.
* Formatting: `toString`, the printers, `display`, the texts of notes and of exceptions, the quoting of
  SQL identifiers, the six digits of `Literal(double)`: values are told apart by where they stand in an order, not digit by digit.
* Memory: leaks, releasing, and passing an item of a sequence by reference into an operation of the same
  sequence, which no caller in the repository does.
* Read errors of the file streams. Errors of their writes are modelled, and SQLite's at every call that has a result code (open, prepare, bind, step).
* In SQLite: names that differ only in case, which it takes for one name; blobs in a table; a `sqlite3_column_text` that gives a null for want of memory.
* Several threads: nothing in the repository starts one.
* A null root or null child of an expression; every expression of the DSL has its children.
* The tabs DSL/AST and Optimizer of the demo, which print one of a list of examples and keep only its number; ImGui, GLFW.
* The menu and the utilities of an earlier lab.
* A CSV file changed by another process between two reads of one `execute` (the demo's model has the change between two files,
  not within the read of one).

The behaviour of an enumerator of a list made while the list was empty follows the code: it
keeps the null head and gives nothing, also after items were added. `PassComplete` speaks of
passes that begin at a node.

## 7. Plan

In this order; the abstract specifications are in italics.

1. Done: the optimizer with its meaning and proofs, *AbstractOptimizer*; file and live streams;
   *SequenceValues* with both implementations.
2. Done: `SourceCatalog`, `CsvParser`, `CsvBackend`, `SqlCompiler`, `SqliteBackend` and their composition `Backends` under
   *AbstractBackend*; `SqlRewrites`; `SequenceStreams`; `Demo`.
3. Proofs: done for the optimizer, `SequenceStreams`, `FileLineStreams`, `ArraySequence`, `ListSequence`, `CsvParser`, `CsvBackend`, `SqliteBackend`,
   the agreement of both in `Backends`, the rewrites on SQLite in `SqlRewrites`, and `Demo`.
4. Left: the order of the rows and the plan in `CsvImplements`, which would make the recursions of `CsvReplies` functions over the queries, as those of `SqlRewrites` are over the heap.
