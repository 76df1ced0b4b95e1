---------------------------------- MODULE Demo ----------------------------------
(***************************************************************************)
(* The frame loop of the graphical demo (main.cpp).  A frame is drawn from *)
(* top to bottom: what a widget changes is seen by what is drawn after it. *)
(* Every frame of the Backends tab runs its query again.  Meanwhile the    *)
(* data files may be removed, restored, rewritten or broken from outside.  *)
(*                                                                         *)
(* A file is 0 while it is missing, else the number of its contents.  Its  *)
(* reader refuses some contents: of a CSV file those without a header or   *)
(* a column, with a row of another number of fields or with an open quote; *)
(* of demo.sqlite3 those that are no database, lack a table or a column,   *)
(* or are locked by another process.  At most one widget is clicked in a   *)
(* frame.  ImGui is external: a tab that is clicked, or given              *)
(* ImGuiTabItemFlags_SetSelected, is the one drawn from the next frame on. *)
(***************************************************************************)
EXTENDS Integers, Sequences

CONSTANTS
  MaxContents,   \* the contents a file may have
  Malformed,     \* those of them that its reader refuses
  MaxClicks,     \* bound on the clicks
  MaxChanges     \* bound on the changes of files from outside

ASSUME DemoAssumption ==
  /\ MaxContents \in Nat \ {0} /\ MaxClicks \in Nat /\ MaxChanges \in Nat
  /\ Malformed \subseteq 1..MaxContents

FileName == {"users.csv", "orders.csv", "demo.sqlite3"}
MainTab == {"DSL/AST", "Optimizer", "Backends"}
FlowTab == {"DSL and AST", "Optimization", "Execution"}
PreviewTab == {"users", "orders"}
Backend == {"CSV", "SQLite"}
Widget == MainTab \cup FlowTab \cup PreviewTab \cup Backend \cup
          {"optimizer", "run", "sources", "close"}

VARIABLES
  files,        \* the contents of each file
  program,      \* "running", "closed" or "terminated" (by an exception)
  pc,           \* what is drawn next, "loop" between two frames
  click,        \* the widget clicked in this frame, or "none"
  mainTab, flowTab, previewTab, sourcesOpen,   \* the state ImGui keeps
  selectBackends,                              \* a local of main
  backend, optimize, hasRun, selectExecution,  \* the statics of renderBackendsTab
  executable,   \* whether the AST of this frame is the optimized one
  read,         \* the contents the execution of this frame has met
  shown,        \* what the Execution tab shows: <<>> before the first execution
  clicks, changes

imgui == <<mainTab, flowTab, previewTab, sourcesOpen>>
statics == <<backend, optimize, hasRun, selectExecution>>
bounds == <<clicks, changes>>
vars == <<files, program, pc, click, imgui, selectBackends, statics, executable, read, shown, bounds>>

Init ==
  /\ files = [f \in FileName |-> 1]
  /\ program = "running" /\ pc = "loop" /\ click = "none"
  /\ mainTab = "DSL/AST" /\ flowTab = "DSL and AST" /\ previewTab = "users"
  /\ sourcesOpen = FALSE
  /\ selectBackends = TRUE
  /\ backend = "CSV" /\ optimize = TRUE /\ hasRun = TRUE /\ selectExecution = TRUE
  /\ executable = FALSE /\ read = <<>> /\ shown = <<>>
  /\ clicks = 0 /\ changes = 0

Drawing(part) == program = "running" /\ pc = part
Clicked(widget, old, new) == IF click = widget THEN new ELSE old
ClickedIn(widgets, old) == IF click \in widgets THEN click ELSE old

\* From outside, also while a frame is being drawn.
FilesChange ==
  /\ program = "running" /\ changes < MaxChanges
  /\ \E f \in FileName, contents \in 0..MaxContents :
       files[f] # contents /\ files' = [files EXCEPT ![f] = contents]
  /\ changes' = changes + 1
  /\ UNCHANGED <<program, pc, click, imgui, selectBackends, statics, executable, read, shown, clicks>>

\* glfwPollEvents.
PollEvents ==
  /\ Drawing("loop")
  /\ \/ click' = "none" /\ UNCHANGED clicks
     \/ /\ clicks < MaxClicks
        /\ click' \in Widget
        /\ clicks' = clicks + 1
  /\ pc' = "tabs"
  /\ UNCHANGED <<files, program, imgui, selectBackends, statics, executable, read, shown, changes>>

\* The main tab bar: one of the tabs is drawn.
MainTabs ==
  /\ Drawing("tabs")
  /\ pc' = IF mainTab = "Backends" THEN "backends" ELSE "end"
  /\ UNCHANGED <<files, program, click, imgui, selectBackends, statics, executable, read,
                 shown, bounds>>

\* Mutated form of ChooseExecutable: the AST is chosen once.
ChooseExecutableOnce ==
  /\ Drawing("backends")
  /\ executable' = IF shown = <<>> THEN optimize ELSE executable
  /\ pc' = "controls"
  /\ UNCHANGED <<files, program, click, imgui, selectBackends, statics, read, shown, bounds>>

\* The AST is chosen before the checkbox is drawn.
ChooseExecutable ==
  /\ Drawing("backends")
  /\ executable' = optimize
  /\ pc' = "controls"
  /\ UNCHANGED <<files, program, click, imgui, selectBackends, statics, read, shown, bounds>>

Controls ==
  /\ Drawing("controls")
  /\ backend' = ClickedIn(Backend, backend)
  /\ optimize' = Clicked("optimizer", optimize, ~optimize)
  /\ hasRun' = Clicked("run", hasRun, TRUE)
  /\ pc' = "flow"
  /\ UNCHANGED <<files, program, click, imgui, selectBackends, selectExecution, executable, read,
                 shown, bounds>>

\* Mutated form of FlowTabs: what the frame before has read is kept.
FlowTabsKeepingRead ==
  /\ Drawing("flow")
  /\ selectExecution' = FALSE
  /\ flowTab' = IF selectExecution THEN "Execution" ELSE ClickedIn(FlowTab, flowTab)
  /\ pc' = IF flowTab = "Execution" /\ hasRun THEN "execute" ELSE "sources"
  /\ UNCHANGED <<files, program, click, mainTab, previewTab, sourcesOpen, selectBackends,
                 backend, optimize, hasRun, executable, read, shown, bounds>>

\* Of the tab bar "backend-flow" only the Execution tab does something.
FlowTabs ==
  /\ Drawing("flow")
  /\ selectExecution' = FALSE
  /\ flowTab' = IF selectExecution THEN "Execution" ELSE ClickedIn(FlowTab, flowTab)
  /\ pc' = IF flowTab = "Execution" /\ hasRun THEN "execute" ELSE "sources"
  /\ read' = <<>>
  /\ UNCHANGED <<files, program, click, mainTab, previewTab, sourcesOpen, selectBackends, backend,
                 optimize, hasRun, executable, shown, bounds>>

\* The files an execution reads, in the order of the query.
Sources == IF backend = "CSV" THEN <<"users.csv", "orders.csv">> ELSE <<"demo.sqlite3">>

Show(error) ==
  /\ shown' = [backend |-> backend, optimized |-> executable, error |-> error, contents |-> read']
  /\ pc' = "sources"

\* A file that cannot be opened, or that its reader refuses.
Refused(file) == files[file] = 0 \/ files[file] \in Malformed

\* Mutated form of Execute: the exception is not caught.
ExecuteUncaught ==
  /\ Drawing("execute")
  /\ LET file == Sources[Len(read) + 1] IN
     IF Refused(file)
     THEN program' = "terminated" /\ UNCHANGED <<read, shown, pc>>
     ELSE /\ read' = Append(read, files[file])
          /\ IF Len(read') = Len(Sources) THEN Show(FALSE) ELSE UNCHANGED <<shown, pc>>
          /\ UNCHANGED program
  /\ UNCHANGED <<files, click, imgui, selectBackends, statics, executable, bounds>>

\* execute reads its next file.  An exception is caught here, and shown.
Execute ==
  /\ Drawing("execute")
  /\ LET file == Sources[Len(read) + 1] IN
     /\ read' = Append(read, files[file])
     /\ IF Refused(file) \/ Len(read') = Len(Sources)
        THEN Show(Refused(file)) ELSE UNCHANGED <<shown, pc>>
  /\ UNCHANGED <<files, program, click, imgui, selectBackends, statics, executable, bounds>>

\* The CSV file of the tab that is drawn.
Previewed == IF previewTab = "users" THEN "users.csv" ELSE "orders.csv"

\* renderSourcePreview reads a CSV file of its own, outside of any try.
SourcePreview ==
  /\ Drawing("sources")
  /\ sourcesOpen' = Clicked("sources", sourcesOpen, ~sourcesOpen)
  /\ IF sourcesOpen'
     THEN /\ previewTab' = ClickedIn(PreviewTab, previewTab)
          /\ program' = IF Refused(Previewed) THEN "terminated" ELSE program
     ELSE UNCHANGED <<previewTab, program>>
  /\ pc' = "end"
  /\ UNCHANGED <<files, click, mainTab, flowTab, selectBackends, statics, executable, read, shown, bounds>>

\* What the main tab bar draws from now on, and the condition of the loop.
EndFrame ==
  /\ Drawing("end")
  /\ mainTab' = IF selectBackends THEN "Backends" ELSE ClickedIn(MainTab, mainTab)
  /\ selectBackends' = FALSE
  /\ pc' = "loop"
  /\ program' = IF click = "close" THEN "closed" ELSE program
  /\ UNCHANGED <<files, click, flowTab, previewTab, sourcesOpen, statics,
                 executable, read, shown, bounds>>

Frame == \/ PollEvents \/ MainTabs \/ ChooseExecutable \/ Controls \/ FlowTabs
         \/ Execute \/ SourcePreview \/ EndFrame

Next == FilesChange \/ Frame

\* The loop goes on as long as the window is open.
Spec == Init /\ [][Next]_vars /\ WF_vars(Frame)

-----------------------------------------------------------------------------
(* The types of the variables; an execution starts with nothing read and   *)
(* ends with its last file.                                                *)
TypeOK ==
  /\ files \in [FileName -> 0..MaxContents]
  /\ program \in {"running", "closed", "terminated"}
  /\ pc \in {"loop", "tabs", "backends", "controls", "flow", "execute", "sources", "end"}
  /\ click \in Widget \cup {"none"}
  /\ mainTab \in MainTab /\ flowTab \in FlowTab /\ previewTab \in PreviewTab
  /\ backend \in Backend
  /\ {sourcesOpen, selectBackends, optimize, hasRun, selectExecution, executable} \subseteq BOOLEAN
  /\ read \in Seq(0..MaxContents)
  /\ pc = "execute" => Len(read) < Len(Sources)

(* A file that an execution does not find, or that its reader refuses, is  *)
(* an error on the screen.  The program ends by an exception only out of   *)
(* the open preview, which reads a CSV file of its own: when that file was *)
(* missing or malformed.                                                   *)
ErrorsAreShown ==
  program = "terminated" =>
    sourcesOpen /\ pc = "end" /\ \E file \in {"users.csv", "orders.csv"} : Refused(file)

\* What an execution with the controls and the files as they are shows: it
\* stops at the first file that is refused.
Failing == {k \in DOMAIN Sources : Refused(Sources[k])}
UpTo == IF Failing = {} THEN Len(Sources) ELSE CHOOSE k \in Failing : \A j \in Failing : k <= j
Chosen == [backend |-> backend, optimized |-> optimize, error |-> Failing # {},
           contents |-> [k \in 1..UpTo |-> files[Sources[k]]]]

(* Once nobody clicks and the files stay as they are, the Execution tab    *)
(* shows the query run the way the controls say over the files there are,  *)
(* although a frame runs the AST chosen before its checkbox was drawn, and *)
(* may read files while they change.                                       *)
SettlesOnChoice ==
  <>[](\/ program # "running"
       \/ mainTab # "Backends" \/ flowTab # "Execution"
       \/ shown = Chosen)
=============================================================================
