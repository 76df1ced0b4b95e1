------------------------------- MODULE CsvBackend -------------------------------
(***************************************************************************)
(* CsvBackend::execute: a query run over CSV files, with CsvParser::read   *)
(* line by line and the loops of the handlers row by row.                  *)
(*                                                                         *)
(* The recursion of executeExpr is a stack of frames.  A frame has the     *)
(* expression, where its handler is (pc), and the handler's locals.  The   *)
(* fields answer and work of the expressions are not looked at: that an    *)
(* execution ends with the answer is what the properties say.              *)
(***************************************************************************)
EXTENDS RelationalAst, CsvParser, SourceCatalog

CONSTANTS
  Disk,         \* location -> <<>> (no such file) or <<lines>>
  FieldText(_)  \* the text of a field

ASSUME DiskAssumption ==
  \A location \in DOMAIN Disk : Disk[location] # <<>> =>
    Disk[location] = << Disk[location][1] >> /\ Disk[location][1] \in Seq(Seq(Token))

\* The header says name when it is that piece of text.
HeaderName(name) == <<name>>

\* What the file of a source is, in the terms of CsvOperators.
LinesIn(bindings, name) ==
  LET binding == FindIn(bindings, name, "Csv")
  IN  IF binding = <<>> \/ Disk[binding[1].location] = <<>>
      THEN <<>> ELSE Disk[binding[1].location][1]

Readable(lines) == lines # <<>> /\ WellQuoted(lines[1])
GoodLine(lines, k) ==
  WellQuoted(lines[k]) /\ Len(FieldsOf(lines[k])) = Len(FieldsOf(lines[1]))

IsFileOf(file, lines) ==
  /\ file.readable = Readable(lines)
  /\ file.readable =>
       /\ [k \in DOMAIN file.header |-> HeaderName(file.header[k])] = FieldsOf(lines[1])
       /\ file.malformed = (\E k \in 2..Len(lines) : ~GoodLine(lines, k))
       /\ ~file.malformed =>
            /\ Len(file.rows) = Len(lines) - 1
            /\ \A k \in DOMAIN file.rows : \A c \in DOMAIN file.header :
                 file.rows[k][c] = FieldText(FieldsOf(lines[k + 1])[c])

LinesOf(name) == LinesIn(catalog, name)

\* The files the bindings name are those the answers of queries come from.
NamesFiles(bindings) ==
  \A name \in TableName :
    /\ \A binding \in ToSet(FindIn(bindings, name, "Csv")) : binding.location \in DOMAIN Disk
    /\ IsFileOf(Files[name], LinesIn(bindings, name))

SourcesAsFiles == NamesFiles(catalog)

VARIABLES
  query,       \* <<>> or << the root execute was called with >>
  stack,       \* the activations of executeExpr, the innermost last
  plan,        \* the plan execute passes down
  outcome      \* "none", "running", "thrown" with an error, or "returned" with
               \* the CsvExecutionResult

csvVars == <<scan, query, stack, plan, outcome>>

NoResult == [schema |-> <<>>, rows |-> <<>>]

Frame(expr) ==
  [expr |-> expr, pc |-> "begin",
   lines |-> <<>>,        \* what the stream of the file has not given yet
   header |-> <<>>, mapping |-> <<>>,
   left |-> NoResult,     \* input, or left
   right |-> NoResult,
   output |-> NoResult,
   keys |-> <<0, 0>>,     \* left_key and right_key
   row |-> 1,             \* the indices of the loops, counted from 1
   inner |-> 1]

NoOutcome == [status |-> "none", error |-> "none", result |-> NoResult, plan |-> <<>>]

Top == stack[Len(stack)]
Running(kind, pc) == /\ outcome.status = "running" /\ ~Scanning
                     /\ Top.expr.kind = kind /\ Top.pc = pc

Step(frame) == stack' = [stack EXCEPT ![Len(stack)] = frame]

Call(frame, expr) == stack' = Append([stack EXCEPT ![Len(stack)] = frame], Frame(expr))

\* An exception leaves every activation, and execute with its plan.
Throw(error) ==
  /\ outcome' = [NoOutcome EXCEPT !.status = "thrown", !.error = error]
  /\ stack' = <<>>
  /\ plan' = <<>>

\* The handler of the innermost activation returns result; entries are
\* appended to the plan first.
Return(result, entries) ==
  /\ plan' = plan \o entries
  /\ IF Len(stack) = 1
     THEN /\ outcome' = [NoOutcome EXCEPT !.status = "returned", !.result = result,
                                          !.plan = plan \o entries]
          /\ stack' = <<>>
     ELSE LET caller == stack[Len(stack) - 1]
              slot == IF caller.pc = "right" THEN [caller EXCEPT !.right = result]
                      ELSE [caller EXCEPT !.left = result]
          IN  /\ stack' = [SubSeq(stack, 1, Len(stack) - 1) EXCEPT ![Len(stack) - 1] = slot]
              /\ UNCHANGED outcome

\* QueryResult::append in the innermost activation, which goes on as next.
AppendRow(next, row) ==
  IF Len(row) # Len(next.output.schema)
  THEN Throw("size")
  ELSE /\ Step([next EXCEPT !.output.rows = Append(@, row)])
       /\ UNCHANGED <<plan, outcome>>

Execute(expr) ==
  /\ outcome.status # "running"
  /\ query' = <<expr>>
  /\ stack' = <<Frame(expr)>>
  /\ plan' = <<>>
  /\ outcome' = [NoOutcome EXCEPT !.status = "running"]
  /\ UNCHANGED scan

-----------------------------------------------------------------------------
(* executeTable and CsvParser::read.                                       *)

FindSource ==
  /\ Running("Table", "begin")
  /\ LET source == Find(Top.expr.name, "Csv") IN
     IF source = <<>>
     THEN Throw("source")
     ELSE LET file == Disk[source[1].location] IN
          \* "Read CSV" is in the plan before the file is opened.
          IF file = <<>> \/ file = << <<>> >>
          THEN Throw("source")
          ELSE /\ plan' = Append(plan, <<"Read CSV", source[1].location>>)
               /\ Step([Top EXCEPT !.lines = file[1], !.pc = "header"])
               /\ UNCHANGED outcome
  /\ UNCHANGED scan

ReadHeader ==
  /\ Running("Table", "header")
  /\ ParseLine(Head(Top.lines))
  /\ Step([Top EXCEPT !.lines = Tail(@), !.pc = "mapping"])
  /\ UNCHANGED <<plan, outcome>>

\* findHeader: the first header field that is the physical name.
HeaderPositions(header, column) ==
  {i \in DOMAIN header : header[i] = HeaderName(PhysicalColumn[column])}

MapColumns ==
  /\ Running("Table", "mapping")
  /\ LET schema == Top.expr.schema IN
     IF scan.outcome = "thrown"
     THEN Throw("source")
     ELSE IF \E k \in DOMAIN schema : HeaderPositions(scan.fields, schema[k]) = {}
     THEN Throw("column")
     ELSE /\ Step([Top EXCEPT
                !.header = scan.fields,
                !.mapping = [k \in DOMAIN schema |-> Min(HeaderPositions(scan.fields, schema[k]))],
                !.output = [schema |-> schema, rows |-> <<>>],
                !.pc = "lines"])
          /\ UNCHANGED <<plan, outcome>>
  /\ scan' = NoScan

ReadLine ==
  /\ Running("Table", "lines") /\ Top.lines # <<>>
  /\ ParseLine(Head(Top.lines))
  /\ Step([Top EXCEPT !.lines = Tail(@), !.pc = "fields"])
  /\ UNCHANGED <<plan, outcome>>

MapFields ==
  /\ Running("Table", "fields")
  /\ IF scan.outcome = "thrown" \/ Len(scan.fields) # Len(Top.header)
     THEN Throw("row")
     ELSE AppendRow([Top EXCEPT !.pc = "lines"],
                    [k \in DOMAIN Top.mapping |-> FieldText(scan.fields[Top.mapping[k]])])
  /\ scan' = NoScan

ReturnTable ==
  /\ Running("Table", "lines") /\ Top.lines = <<>>
  /\ Return(Top.output, <<>>)
  /\ UNCHANGED scan

-----------------------------------------------------------------------------
(* executeSelect, executeProject and Rename.                               *)

\* Select and Project execute their child, then loop over its rows.
ExecuteChild ==
  /\ Running("Select", "begin") \/ Running("Project", "begin")
  /\ Call([Top EXCEPT !.pc = "loop", !.output.schema = Top.expr.schema], Top.expr.child)
  /\ UNCHANGED <<scan, plan, outcome>>

InputRow == Top.left.rows[Top.row]
MoreRows == Top.row <= Len(Top.left.rows)
NextRow == [Top EXCEPT !.row = @ + 1]

SelectRow ==
  /\ Running("Select", "loop") /\ MoreRows
  /\ IF Top.expr.condition.raw
     THEN Throw("raw")
     ELSE IF Evaluate(Top.expr.condition, Top.left.schema, InputRow)
     THEN AppendRow(NextRow, InputRow)
     ELSE Step(NextRow) /\ UNCHANGED <<plan, outcome>>
  /\ UNCHANGED scan

ReturnSelect ==
  /\ Running("Select", "loop") /\ ~MoreRows
  /\ Return(Top.output, << <<"Filter", Top.expr.condition>> >>)
  /\ UNCHANGED scan

ProjectRow ==
  /\ Running("Project", "loop") /\ MoreRows
  /\ IF AllColumnsIncluded(Top.expr.columns, Top.left.schema)
     THEN AppendRow(NextRow, ProjectedRow(Top.expr.columns, Top.left.schema, InputRow))
     ELSE Throw("column")
  /\ UNCHANGED scan

ReturnProject ==
  /\ Running("Project", "loop") /\ ~MoreRows
  /\ Return(Top.output, << <<"Project", Top.expr.columns>> >>)
  /\ UNCHANGED scan

\* The entry of a Rename comes before those of its child, whose result it returns.
ExecuteRename ==
  /\ Running("Rename", "begin")
  /\ plan' = Append(plan, <<"Rename", Top.expr.alias>>)
  /\ stack' = [stack EXCEPT ![Len(stack)] = Frame(Top.expr.child)]
  /\ UNCHANGED <<scan, outcome>>

-----------------------------------------------------------------------------
(* executeJoin.                                                            *)

ExecuteLeft ==
  /\ Running("Join", "begin")
  /\ Call([Top EXCEPT !.pc = "left"], Top.expr.left)
  /\ UNCHANGED <<scan, plan, outcome>>

ExecuteRight ==
  /\ Running("Join", "left")
  /\ Call([Top EXCEPT !.pc = "right"], Top.expr.right)
  /\ UNCHANGED <<scan, plan, outcome>>

FindKeys ==
  /\ Running("Join", "right")
  /\ IF /\ SequenceContains(Top.left.schema, Top.expr.leftColumn)
        /\ SequenceContains(Top.right.schema, Top.expr.rightColumn)
     THEN /\ Step([Top EXCEPT
                !.keys = << ColumnIndex(Top.left.schema, Top.expr.leftColumn),
                            ColumnIndex(Top.right.schema, Top.expr.rightColumn) >>,
                !.output.schema = Top.expr.schema, !.pc = "loop"])
          /\ UNCHANGED <<plan, outcome>>
     ELSE Throw("column")
  /\ UNCHANGED scan

MoreInner == Top.inner <= Len(Top.right.rows)

\* Mutated form of NextPair: the inner loop does not start over.
NextPairOnward ==
  IF MoreInner THEN [Top EXCEPT !.inner = @ + 1] ELSE [Top EXCEPT !.row = @ + 1]

NextPair ==
  IF MoreInner THEN [Top EXCEPT !.inner = @ + 1] ELSE [Top EXCEPT !.row = @ + 1, !.inner = 1]

JoinRows ==
  /\ Running("Join", "loop") /\ MoreRows
  /\ IF MoreInner /\ KeysMatch(InputRow[Top.keys[1]],
                               Top.right.rows[Top.inner][Top.keys[2]])
     THEN AppendRow(NextPair, InputRow \o Top.right.rows[Top.inner])
     ELSE Step(NextPair) /\ UNCHANGED <<plan, outcome>>
  /\ UNCHANGED scan

ReturnJoin ==
  /\ Running("Join", "loop") /\ ~MoreRows
  /\ Return(Top.output,
            << <<"Nested-loop join", Top.expr.leftColumn, Top.expr.rightColumn>> >>)
  /\ UNCHANGED scan

-----------------------------------------------------------------------------
ScanStep == Scan /\ UNCHANGED <<stack, plan, outcome>>

ReadSource == FindSource \/ ReadHeader \/ MapColumns \/ ReadLine \/ MapFields \/ ReturnTable

Loop == \/ ExecuteChild \/ SelectRow \/ ReturnSelect \/ ProjectRow \/ ReturnProject
        \/ ExecuteRename
        \/ ExecuteLeft \/ ExecuteRight \/ FindKeys \/ JoinRows \/ ReturnJoin

CsvStep == (ScanStep \/ ReadSource \/ Loop) /\ UNCHANGED <<catalog, query>>

-----------------------------------------------------------------------------
\* rows are those of a function, each as often.
SameRows(rows, f) ==
  \A row \in ToSet(rows) \cup {f[id] : id \in DOMAIN f} :
    Cardinality({k \in DOMAIN rows : rows[k] = row}) = Cardinality({id \in DOMAIN f : f[id] = row})

(* An execution that ends returned the schema and the rows the query means, *)
(* none lost, repeated or made up on the way through the activations, or   *)
(* threw the error the query means: there are no rows of a failed one.     *)
AnsweredAsMeant ==
  LET answer == query[1].answer IN
  /\ outcome.status = "returned" =>
       /\ answer.error = "none"
       /\ outcome.result.schema = answer.schema
       /\ SameRows(outcome.result.rows, answer.rows)
  /\ outcome.status = "thrown" => outcome.error # "none" /\ answer.error = outcome.error
=============================================================================
