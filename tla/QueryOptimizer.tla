----------------------------- MODULE QueryOptimizer -----------------------------
(***************************************************************************)
(* QueryOptimizer::optimize on the queries a DSL client builds.            *)
(*                                                                         *)
(* The client (dsl/query.cpp) keeps a workspace of expressions and builds  *)
(* on the last one, the way `Table(..) | Join(..) | Sigma(..)` does.       *)
(* optimizeExpr and the functions it calls are a machine with an explicit  *)
(* call stack: a frame is one activation of optimizeExpr, Descend is a     *)
(* recursive call, and each way a call can return is an action.  heap      *)
(* holds every node built so far; nodes never change.                      *)
(***************************************************************************)
EXTENDS RelationalAst

CONSTANTS
  Tables,          \* the <<name, schema>> pairs the client may write
  Conditions,      \* the conditions it may filter with
  ColumnLists,     \* the column lists it may project on
  JoinKeys,        \* the <<left, right>> key pairs it may join on
  MaxNodes,        \* bound on the nodes of the queries it builds
  MaxPending,      \* bound on the expressions it holds at a time
  MaxNotes         \* bound on notes() beyond which optimize is not called again

ASSUME QueryOptimizerAssumption ==
  /\ Tables \subseteq TableName \X Seq(Column)
  /\ Conditions \subseteq Condition
  /\ ColumnLists \subseteq Seq(Column)
  /\ JoinKeys \subseteq Column \X Column
  /\ MaxNodes \in Nat
  /\ MaxPending \in Nat
  /\ MaxNotes \in Nat

VARIABLES
  heap,        \* the nodes built so far
  workspace,   \* the client's expressions
  status,      \* "idle", "optimizing", "returned" or "thrown"
  root,        \* <<>> or <<e>>: OptimizationResult::original
  result,      \* <<>> or <<e>>: OptimizationResult::optimized
  stack,       \* the activations of optimizeExpr, the innermost last
  notes,       \* the notes of the OptimizationReport being written
  lastNotes    \* QueryOptimizer::last_notes_

vars == <<heap, workspace, status, root, result, stack, notes, lastNotes>>

Rule(name) == [kind |-> "rule", about |-> name]
Warning(name) == [kind |-> "warning", about |-> name]

(* The report's rules and warnings are the notes of that kind.             *)
Note == [kind : {"rule"}, about : {"SelectProject", "SelectJoinLeft",
                                   "SelectJoinRight", "ProjectProject", "Pruning"}]
        \cup
        [kind : {"warning"}, about : {"raw", "ambiguous column",
                                      "ambiguous left key", "ambiguous right key"}]

(* A frame: the expression being optimized, which child of its caller's    *)
(* expression it is, the children already optimized, and the locals of     *)
(* splitProjectColumnsForJoin while its loop runs: the columns scanned and *)
(* the two lists they went to.                                             *)
NoSplit == [scanned |-> 0, left |-> <<>>, right |-> <<>>]
Frame(expr, slot) == [expr |-> expr, slot |-> slot, done |-> <<>>, split |-> NoSplit]

Top == stack[Len(stack)]
Callers == SubSeq(stack, 1, Len(stack) - 1)

Slots(expr) == DOMAIN Children(expr)
Ready(kind) == /\ status = "optimizing"
               /\ Top.expr.kind = kind
               /\ DOMAIN Top.done = Slots(Top.expr)

Init == /\ heap = {}
        /\ workspace = <<>>
        /\ status = "idle"
        /\ root = <<>>
        /\ result = <<>>
        /\ stack = <<>>
        /\ notes = <<>>
        /\ lastNotes = <<>>

-----------------------------------------------------------------------------
(* The client.                                                             *)

\* consumed expressions of the workspace are replaced by the new node.
Build(expr, consumed) ==
  /\ status = "idle"
  /\ Cardinality(heap) < MaxNodes
  /\ Len(workspace) >= consumed /\ Len(workspace) - consumed < MaxPending
  /\ heap' = heap \cup {expr}
  /\ workspace' = Append(SubSeq(workspace, 1, Len(workspace) - consumed), expr)
  /\ UNCHANGED <<status, root, result, stack, notes, lastNotes>>

Last == workspace[Len(workspace)]

Table == \E t \in Tables : Build(TableExpr(t[1], t[2]), 0)

Sigma == /\ workspace # <<>>
         /\ \E c \in Conditions : Build(SelectExpr(c, Last), 1)

\* Mutated form of Pi: the constructor does not look the columns up.
PiUnchecked ==
  /\ workspace # <<>>
  /\ \E columns \in ColumnLists : Build(ProjectExpr(columns, Last), 1)

\* Pi on a column that is not in the schema throws; the client keeps its query.
Pi == /\ workspace # <<>>
      /\ \E columns \in ColumnLists :
           LET project == ProjectExpr(columns, Last)
           IN  Constructible(project) /\ Build(project, 1)

Rho == /\ workspace # <<>>
       /\ \E alias \in Alias : Build(RenameExpr(alias, Last), 1)

Join == /\ Len(workspace) >= 2
        /\ \E keys \in JoinKeys :
             Build(JoinExpr(workspace[Len(workspace) - 1], Last, keys[1], keys[2]), 2)

(* optimize(e): of the whole query, or again of what the call before gave. *)
Optimize(expr) ==
  /\ status \in {"idle", "returned"}
  /\ Len(lastNotes) <= MaxNotes
  /\ status' = "optimizing"
  /\ root' = <<expr>>
  /\ result' = <<>>
  /\ stack' = <<Frame(expr, 0)>>
  /\ notes' = <<>>
  /\ UNCHANGED <<heap, workspace, lastNotes>>

OptimizeQuery == Len(workspace) = 1 /\ Optimize(Last)

OptimizeAgain == /\ status = "returned"
                 /\ result # root
                 /\ Optimize(result[1])

-----------------------------------------------------------------------------
(* Calls and returns of optimizeExpr.                                      *)

\* A recursive call on a child.  The two calls of optimizeJoin are arguments of
\* one constructor call: C++ leaves open which is evaluated first.
Descend ==
  /\ status = "optimizing"
  /\ \E slot \in Slots(Top.expr) \ DOMAIN Top.done :
       stack' = Append(stack, Frame(Children(Top.expr)[slot], slot))
  /\ UNCHANGED <<heap, workspace, status, root, result, notes, lastNotes>>

\* Mutated form of Resumed: the result of the call is dropped.
ResumedWithout(frame, slot, expr) == frame

Resumed(frame, slot, expr) ==
  [frame EXCEPT !.done = [s \in DOMAIN frame.done \cup {slot} |->
                            IF s = slot THEN expr ELSE frame.done[s]]]

\* The innermost call returns expr; the outermost return is the end of optimize,
\* which appends the report to last_notes_.
Return(expr, report) ==
  /\ notes' = report
  /\ IF Callers = <<>>
     THEN /\ status' = "returned"
          /\ result' = <<expr>>
          /\ stack' = <<>>
          /\ lastNotes' = lastNotes \o report
     ELSE /\ stack' = [Callers EXCEPT ![Len(Callers)] = Resumed(@, Top.slot, expr)]
          /\ UNCHANGED <<status, result, lastNotes>>

\* An exception unwinds every activation and the report with them.
Throw == /\ status' = "thrown"
         /\ stack' = <<>>
         /\ notes' = <<>>
         /\ UNCHANGED <<heap, result, lastNotes>>

\* Build the nodes of built, note what was written, and return expr; or throw
\* when one of the constructors refuses.
Deliver(expr, built, written) ==
  /\ IF \A node \in built : Constructible(node)
     THEN heap' = heap \cup built /\ Return(expr, notes \o written)
     ELSE Throw
  /\ UNCHANGED <<workspace, root>>

FinishTable ==
  /\ Ready("Table")
  /\ LET table == TableExpr(Top.expr.name, Top.expr.schema)
     IN  Deliver(table, {table}, <<>>)

FinishRename ==
  /\ Ready("Rename")
  /\ LET rename == RenameExpr(Top.expr.alias, Top.done[1])
     IN  Deliver(rename, {rename}, <<>>)

\* Mutated form of FinishJoin: the optimized inputs change places.
FinishJoinSwapped ==
  /\ Ready("Join")
  /\ LET join == JoinExpr(Top.done[2], Top.done[1],
                          Top.expr.leftColumn, Top.expr.rightColumn)
     IN  Deliver(join, {join}, <<>>)

FinishJoin ==
  /\ Ready("Join")
  /\ LET join == JoinExpr(Top.done[1], Top.done[2],
                          Top.expr.leftColumn, Top.expr.rightColumn)
     IN  Deliver(join, {join}, <<>>)

-----------------------------------------------------------------------------
(* optimizeSelect: the child is optimized, then one rule is tried.         *)

\* Mutated form: the operand on the right is not looked at.
ConditionStartsWithProjectedColumn(condition, columns) ==
  ~condition.raw /\ SequenceContains(columns, condition.leftColumn)

ConditionUsesOnlyProjectedColumns(condition, columns) ==
  /\ ~condition.raw
  /\ SequenceContains(columns, condition.leftColumn)
  /\ condition.rightKind = "Column" => SequenceContains(columns, condition.rightColumn)

ConditionSide(condition, leftSchema, rightSchema) ==
  LET left  == LocateColumn(condition.leftColumn, leftSchema, rightSchema)
      right == IF condition.rightKind = "Column"
               THEN LocateColumn(condition.rightColumn, leftSchema, rightSchema)
               ELSE left
  IN  CASE condition.raw \/ ~({left, right} \subseteq {"Left", "Right"}) -> "Unknown"
        [] ~condition.raw /\ {left, right} = {"Left", "Right"} -> "Both"
        [] OTHER -> left

PushesBelowProject(condition, child) ==
  /\ child.kind = "Project"
  /\ ConditionUsesOnlyProjectedColumns(condition, child.columns)

PushesInto(side, condition, child) ==
  /\ child.kind = "Join"
  /\ ConditionSide(condition, child.left.schema, child.right.schema) = side

PushSelectBelowProject ==
  /\ Ready("Select")
  /\ LET condition == Top.expr.condition
         project == Top.done[1]
         pushed == SelectExpr(condition, project.child)
         moved == ProjectExpr(project.columns, pushed)
     IN  /\ PushesBelowProject(condition, project)
         /\ Deliver(moved, {pushed, moved}, <<Rule("SelectProject")>>)

\* Mutated form of PushSelectLeft: addRule is forgotten.
PushSelectLeftSilently ==
  /\ Ready("Select")
  /\ LET condition == Top.expr.condition
         join == Top.done[1]
         pushed == SelectExpr(condition, join.left)
         moved == JoinExpr(pushed, join.right, join.leftColumn, join.rightColumn)
     IN  /\ PushesInto("Left", condition, join)
         /\ Deliver(moved, {pushed, moved}, <<>>)

PushSelectLeft ==
  /\ Ready("Select")
  /\ LET condition == Top.expr.condition
         join == Top.done[1]
         pushed == SelectExpr(condition, join.left)
         moved == JoinExpr(pushed, join.right, join.leftColumn, join.rightColumn)
     IN  /\ PushesInto("Left", condition, join)
         /\ Deliver(moved, {pushed, moved}, <<Rule("SelectJoinLeft")>>)

PushSelectRight ==
  /\ Ready("Select")
  /\ LET condition == Top.expr.condition
         join == Top.done[1]
         pushed == SelectExpr(condition, join.right)
         moved == JoinExpr(join.left, pushed, join.leftColumn, join.rightColumn)
     IN  /\ PushesInto("Right", condition, join)
         /\ Deliver(moved, {pushed, moved}, <<Rule("SelectJoinRight")>>)

\* Mutated form of KeepSelect: the filter is lost when no rule applies.
KeepSelectLosingFilter ==
  /\ Ready("Select")
  /\ LET condition == Top.expr.condition
         child == Top.done[1]
     IN  /\ ~PushesBelowProject(condition, child)
         /\ ~PushesInto("Left", condition, child)
         /\ ~PushesInto("Right", condition, child)
         /\ Deliver(child, {child}, <<>>)

\* The condition is looked at, and a raw one reported, only above a Project or
\* a Join.
KeepSelect ==
  /\ Ready("Select")
  /\ LET condition == Top.expr.condition
         child == Top.done[1]
         kept == SelectExpr(condition, child)
     IN  /\ ~PushesBelowProject(condition, child)
         /\ ~PushesInto("Left", condition, child)
         /\ ~PushesInto("Right", condition, child)
         /\ Deliver(kept, {kept},
                    IF condition.raw /\ child.kind \in {"Project", "Join"}
                    THEN <<Warning("raw")>> ELSE <<>>)

-----------------------------------------------------------------------------
(* optimizeProject: collapse two projections, or prune the inputs of a     *)
(* join, which needs every column and both keys to be on one side only.    *)

CollapseProjects ==
  /\ Ready("Project")
  /\ LET project == Top.done[1]
         collapsed == ProjectExpr(Top.expr.columns, project.child)
     IN  /\ project.kind = "Project"
         /\ Deliver(collapsed, {collapsed}, <<Rule("ProjectProject")>>)

Splitting == Ready("Project") /\ Top.done[1].kind = "Join"

Located(column) ==
  LocateColumn(column, Top.done[1].left.schema, Top.done[1].right.schema)

Scanned == Top.split.scanned = Len(Top.expr.columns)
NextColumn == Top.expr.columns[Top.split.scanned + 1]

\* Mutated form of SplitColumn: the side of a column is not looked at.
SplitColumnLeft ==
  /\ Splitting
  /\ ~Scanned
  /\ Located(NextColumn) \in {"Left", "Right"}
  /\ stack' = [stack EXCEPT ![Len(stack)].split =
       [scanned |-> Top.split.scanned + 1,
        left    |-> AppendUnique(Top.split.left, NextColumn),
        right   |-> Top.split.right]]
  /\ UNCHANGED <<heap, workspace, status, root, result, notes, lastNotes>>

\* One iteration of the loop of splitProjectColumnsForJoin.
SplitColumn ==
  /\ Splitting
  /\ ~Scanned
  /\ Located(NextColumn) \in {"Left", "Right"}
  /\ LET split == Top.split IN
     stack' = [stack EXCEPT ![Len(stack)].split =
       [scanned |-> split.scanned + 1,
        left  |-> IF Located(NextColumn) = "Left"
                  THEN AppendUnique(split.left, NextColumn) ELSE split.left,
        right |-> IF Located(NextColumn) = "Right"
                  THEN AppendUnique(split.right, NextColumn) ELSE split.right]]
  /\ UNCHANGED <<heap, workspace, status, root, result, notes, lastNotes>>

\* The reasons to give pruning up, in the order they are found.
SplitFailure ==
  IF ~Scanned
  THEN IF Located(NextColumn) \in {"Left", "Right"} THEN {} ELSE {"ambiguous column"}
  ELSE CASE Located(Top.done[1].leftColumn) # "Left" -> {"ambiguous left key"}
         [] /\ Located(Top.done[1].leftColumn) = "Left"
            /\ Located(Top.done[1].rightColumn) # "Right" -> {"ambiguous right key"}
         [] OTHER -> {}

ProjectIfNeeded(expr, columns) ==
  IF SameColumns(expr.schema, columns) THEN expr ELSE ProjectExpr(columns, expr)

\* Mutated form of PruneProject: the join keys are not kept.
PruneProjectWithoutKeys ==
  /\ Splitting
  /\ Scanned
  /\ SplitFailure = {}
  /\ LET join   == Top.done[1]
         left   == ProjectIfNeeded(join.left, Top.split.left)
         right  == ProjectIfNeeded(join.right, Top.split.right)
         pruned == JoinExpr(left, right, join.leftColumn, join.rightColumn)
         kept   == ProjectExpr(Top.expr.columns, pruned)
     IN  Deliver(kept, {left, right, pruned, kept}, <<Rule("Pruning")>>)

PruneProject ==
  /\ Splitting
  /\ Scanned
  /\ SplitFailure = {}
  /\ LET join   == Top.done[1]
         left   == ProjectIfNeeded(join.left, AppendUnique(Top.split.left, join.leftColumn))
         right  == ProjectIfNeeded(join.right, AppendUnique(Top.split.right, join.rightColumn))
         pruned == JoinExpr(left, right, join.leftColumn, join.rightColumn)
         kept   == ProjectExpr(Top.expr.columns, pruned)
     IN  Deliver(kept, {left, right, pruned, kept}, <<Rule("Pruning")>>)

KeptProject == ProjectExpr(Top.expr.columns, Top.done[1])

GiveUpPruning ==
  /\ Splitting
  /\ \E reason \in SplitFailure :
       Deliver(KeptProject, {KeptProject}, <<Warning(reason)>>)

KeepProject ==
  /\ Ready("Project")
  /\ Top.done[1].kind \notin {"Project", "Join"}
  /\ Deliver(KeptProject, {KeptProject}, <<>>)

-----------------------------------------------------------------------------
Client == Table \/ Sigma \/ Pi \/ Rho \/ Join \/ OptimizeQuery \/ OptimizeAgain

Step ==
  \/ Descend
  \/ FinishTable \/ FinishRename \/ FinishJoin
  \/ PushSelectBelowProject \/ PushSelectLeft \/ PushSelectRight \/ KeepSelect
  \/ CollapseProjects \/ SplitColumn \/ PruneProject \/ GiveUpPruning \/ KeepProject

Next == Client \/ Step

Spec == Init /\ [][Next]_vars

\* optimize runs on the caller's thread: once called it keeps running.
FairSpec == Spec /\ WF_vars(Step)

-----------------------------------------------------------------------------
(* Properties.                                                             *)

DoneType(nodes) == UNION {[slots -> nodes] : slots \in SUBSET {1, 2}}

FrameType(nodes) ==
  [expr : nodes, slot : 0..2, done : DoneType(nodes),
   split : [scanned : Nat, left : Seq(Column), right : Seq(Column)]]

(* Every node is what its constructor made of its parts, its children are  *)
(* nodes too, and the other variables hold nodes, frames and notes.        *)
TypeOK ==
  /\ \A expr \in heap : NodeOK(expr, heap)
  /\ workspace \in Seq(heap)
  /\ status \in {"idle", "optimizing", "returned", "thrown"}
  /\ root \in {<<>>} \cup {<<e>> : e \in heap}
  /\ result \in {<<>>} \cup {<<e>> : e \in heap}
  /\ stack \in Seq(FrameType(heap))
  /\ \A i \in DOMAIN stack : DOMAIN stack[i].done \subseteq Slots(stack[i].expr)
  /\ status = "optimizing" <=> stack # <<>>
  /\ status = "returned" <=> result # <<>>
  /\ status # "idle" => root # <<>>
  /\ notes \in Seq(Note)
  /\ lastNotes \in Seq(Note)

(* QueryResult::append never refuses a row, and an execution that succeeds *)
(* answers with the schema the expression announced when it was built.     *)
AnswersFit == \A expr \in heap : Fits(expr.answer, expr.schema)

(* No rule builds a projection its constructor refuses: an expression that *)
(* could be built can be optimized.                                        *)
NeverThrows == status # "thrown"

(* What a call of optimizeExpr returned means what its argument means: the *)
(* same schema, and executed on the CSV backend the same rows in the same  *)
(* order, or the same kind of exception.                                   *)
AnswerPreserved ==
  /\ \A i \in DOMAIN stack : \A slot \in DOMAIN stack[i].done :
       SameMeaning(stack[i].done[slot], Children(stack[i].expr)[slot])
  /\ status = "returned" => SameMeaning(result[1], root[1])

(* A report without rules is the report of a plain copy.                   *)
NoRuleNoChange ==
  status = "returned" /\ (\A i \in DOMAIN notes : notes[i].kind # "rule") => result = root

(* What docs/iteration2_optimizer.md says of raw conditions: they stay in  *)
(* place and the report has a warning.                                     *)
RawReported ==
  status = "returned" /\ (\E expr \in heap : expr.kind = "Select" /\ expr.condition.raw)
    => \E i \in DOMAIN notes : notes[i] = Warning("raw")

(* The optimized query never compares more row pairs in its joins.         *)
JoinWorkNotIncreased ==
  status = "returned" => result[1].work <= root[1].work

-----------------------------------------------------------------------------
(* The strengthening of these invariants that every step preserves.        *)

\* A frame works on the child of its caller's expression the caller waits for.
CallsLinked ==
  /\ stack # <<>> => stack[1].expr = root[1]
  /\ \A i \in 2..Len(stack) :
       /\ stack[i].slot \in Slots(stack[i-1].expr) \ DOMAIN stack[i-1].done
       /\ stack[i].expr = Children(stack[i-1].expr)[stack[i].slot]

\* The columns of one list are columns of one side.
AllOnSide(columns, join, side) ==
  \A k \in DOMAIN columns :
    LocateColumn(columns[k], join.left.schema, join.right.schema) = side

(* The loop of splitProjectColumnsForJoin has put every column it scanned  *)
(* into the list of its side, and no other column into a list.             *)
SplitSound(frame) ==
  /\ frame.split.scanned = 0 => frame.split = NoSplit
  /\ frame.split.scanned > 0 =>
       /\ frame.expr.kind = "Project" /\ 1 \in DOMAIN frame.done
       /\ frame.split.scanned <= Len(frame.expr.columns)
       /\ frame.done[1].kind = "Join"
       /\ AllOnSide(frame.split.left, frame.done[1], "Left")
       /\ AllOnSide(frame.split.right, frame.done[1], "Right")
       /\ \A k \in 1..frame.split.scanned :
            \/ SequenceContains(frame.split.left, frame.expr.columns[k])
            \/ SequenceContains(frame.split.right, frame.expr.columns[k])

\* Every finished part means what the part it replaces means, and is that part
\* itself as long as no rule was noted.
NoRuleNoted == \A i \in DOMAIN notes : notes[i].kind # "rule"
PartsPreserved ==
  /\ \A i \in DOMAIN stack : \A slot \in DOMAIN stack[i].done :
       LET part == Children(stack[i].expr)[slot] IN
       /\ SameMeaning(stack[i].done[slot], part)
       /\ NoRuleNoted => stack[i].done[slot] = part
  /\ status = "returned" =>
       /\ SameMeaning(result[1], root[1])
       /\ NoRuleNoted => result = root

IInv == /\ TypeOK
        /\ AnswersFit
        /\ NeverThrows
        /\ CallsLinked
        /\ \A i \in DOMAIN stack : SplitSound(stack[i])
        /\ PartsPreserved

-----------------------------------------------------------------------------
(* The optimizer implements AbstractOptimizer; a client building a query   *)
(* and a call that has not returned are stuttering steps of it.            *)
Meanings(option) ==
  [i \in DOMAIN option |-> [schema |-> option[i].schema, answer |-> option[i].answer]]

Phase == CASE status = "optimizing" -> "busy"
           [] status = "returned"   -> "done"
           [] OTHER                 -> status

Abstract == INSTANCE AbstractOptimizer
              WITH phase <- Phase, asked <- Meanings(root), replied <- Meanings(result)

(* A query passed to optimize comes back, and means what it meant.         *)
ImplementsAbstract == Abstract!FairSpec
=============================================================================
