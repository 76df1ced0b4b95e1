------------------------------- MODULE DemoProofs -------------------------------
(***************************************************************************)
(* Proofs about Demo: its types, and that a missing or malformed file ends *)
(* the program nowhere but in the open preview of that file, for any       *)
(* contents of the files, whichever of them are malformed, and however     *)
(* often files change and widgets are clicked.                             *)
(***************************************************************************)
EXTENDS Demo, TLAPS

-----------------------------------------------------------------------------
(* Types.                                                                  *)

\* An execution reads one or two of the files.
LEMMA SourcesType ==
  ASSUME backend \in Backend
  PROVE  /\ Sources \in Seq(FileName)
         /\ Len(Sources) \in 1..2
         /\ \A k \in 1..Len(Sources) : Sources[k] \in FileName
<1>1. CASE backend = "CSV"
  BY <1>1 DEF Sources, FileName
<1>2. CASE backend # "CSV"
  BY <1>2 DEF Sources, FileName
<1> QED BY <1>1, <1>2

\* A click selects one of the widgets it is meant for.
LEMMA ClickedInType ==
  ASSUME NEW widgets, NEW old \in widgets
  PROVE  ClickedIn(widgets, old) \in widgets
BY DEF ClickedIn

LEMMA InitTypeOK == Init => TypeOK
<1> SUFFICES ASSUME Init PROVE TypeOK
  OBVIOUS
<1>1. files \in [FileName -> 0..MaxContents] /\ read \in Seq(0..MaxContents)
  <2>1. 1 \in 0..MaxContents
    BY DemoAssumption
  <2>2. files = [f \in FileName |-> 1]
    BY DEF Init
  <2>3. files \in [FileName -> 0..MaxContents]
    BY <2>1, <2>2
  <2>4. read = <<>>
    BY DEF Init
  <2> QED BY <2>3, <2>4
<1>2. mainTab \in MainTab /\ flowTab \in FlowTab /\ previewTab \in PreviewTab /\ backend \in Backend
  BY DEF Init, MainTab, FlowTab, PreviewTab, Backend
<1>3. {sourcesOpen, selectBackends, optimize, hasRun, selectExecution, executable} \subseteq BOOLEAN
  BY DEF Init
<1> QED BY <1>1, <1>2, <1>3 DEF Init, TypeOK

\* An execution reads the files there are, one by one.
LEMMA ExecuteTypeOK == TypeOK /\ Execute => TypeOK'
<1> SUFFICES ASSUME TypeOK, Execute PROVE TypeOK'
  OBVIOUS
<1> DEFINE file == Sources[Len(read) + 1]
<1>1. /\ Sources \in Seq(FileName) /\ \A k \in 1..Len(Sources) : Sources[k] \in FileName
      /\ Len(Sources) \in Nat
  BY SourcesType DEF TypeOK
<1>2. Len(read) < Len(Sources) /\ pc = "execute"
  BY DEF TypeOK, Execute, Drawing
<1>3. file \in FileName
  BY <1>1, <1>2 DEF TypeOK
<1>4. Sources' = Sources
  BY DEF Execute, Sources, statics
<1>5. read' \in Seq(0..MaxContents) /\ (pc' = "execute" => Len(read') < Len(Sources))
  <2>1. read' = Append(read, files[file]) /\ files[file] \in 0..MaxContents
    BY <1>3 DEF Execute, TypeOK
  <2>2. read' \in Seq(0..MaxContents) /\ Len(read') = Len(read) + 1
    BY <2>1 DEF TypeOK
  <2>3. Len(read') = Len(Sources) => pc' = "sources"
    BY DEF Execute, Show
  <2> QED BY <1>1, <1>2, <2>2, <2>3 DEF TypeOK
<1>6. pc' \in {"execute", "sources"}
  BY <1>2 DEF Execute, Show
<1>7. UNCHANGED <<files, program, click, imgui, selectBackends, statics, executable>>
  BY DEF Execute
<1> QED BY <1>4, <1>5, <1>6, <1>7 DEF TypeOK, imgui, statics

LEMMA StepTypeOK == TypeOK /\ [Next]_vars => TypeOK'
<1> SUFFICES ASSUME TypeOK, [Next]_vars PROVE TypeOK'
  OBVIOUS
<1>1. CASE FilesChange
  BY <1>1 DEF FilesChange, TypeOK, imgui, statics, Sources
<1>2. CASE PollEvents
  BY <1>2 DEF PollEvents, Drawing, TypeOK, imgui, statics
<1>3. CASE MainTabs
  BY <1>3 DEF MainTabs, Drawing, TypeOK, imgui, statics
<1>4. CASE ChooseExecutable
  BY <1>4 DEF ChooseExecutable, Drawing, TypeOK, imgui, statics
<1>5. CASE Controls
  <2>1. backend' \in Backend /\ {optimize', hasRun'} \subseteq BOOLEAN /\ pc' = "flow"
    BY <1>5 DEF Controls, Clicked, ClickedIn, TypeOK
  <2> QED BY <1>5, <2>1 DEF Controls, Drawing, TypeOK, imgui, statics
<1>6. CASE FlowTabs
  <2>1. flowTab' \in FlowTab /\ pc' \in {"execute", "sources"} /\ selectExecution' = FALSE
    BY <1>6, ClickedInType DEF FlowTabs, FlowTab, TypeOK
  <2>2. read' = <<>> /\ Sources' = Sources /\ Len(Sources) > 0
    BY <1>6, SourcesType DEF FlowTabs, Sources, TypeOK
  <2>3. read' \in Seq(0..MaxContents) /\ Len(read') < Len(Sources')
    BY <2>2
  <2> QED BY <1>6, <2>1, <2>3 DEF FlowTabs, Drawing, TypeOK
<1>7. CASE Execute
  BY <1>7, ExecuteTypeOK
<1>8. CASE SourcePreview
  <2>1. sourcesOpen' \in BOOLEAN /\ pc' = "end"
    BY <1>8 DEF SourcePreview, Clicked, TypeOK
  <2>2. previewTab' \in PreviewTab
    BY <1>8, ClickedInType DEF SourcePreview, TypeOK
  <2>3. program' \in {"running", "terminated"}
    BY <1>8 DEF SourcePreview, Drawing
  <2> QED BY <1>8, <2>1, <2>2, <2>3 DEF SourcePreview, TypeOK, statics
<1>9. CASE EndFrame
  <2>1. mainTab' \in MainTab
    BY <1>9, ClickedInType DEF EndFrame, MainTab, TypeOK
  <2>2. program' \in {"running", "closed"} /\ pc' = "loop" /\ selectBackends' = FALSE
    BY <1>9 DEF EndFrame, Drawing
  <2> QED BY <1>9, <2>1, <2>2 DEF EndFrame, TypeOK, statics
<1>10. CASE UNCHANGED vars
  BY <1>10 DEF vars, TypeOK, imgui, statics, Sources
<1> QED BY <1>1, <1>2, <1>3, <1>4, <1>5, <1>6, <1>7, <1>8, <1>9, <1>10 DEF Next, Frame

(* The types of the demo's state (main.cpp); an execution never looks for  *)
(* a file behind the last one of its query.                                *)
THEOREM DemoTypes == Spec => []TypeOK
<1> QED BY InitTypeOK, StepTypeOK, PTL DEF Spec

-----------------------------------------------------------------------------
(* Errors.  ErrorsAreShown speaks of the end of the program; until then    *)
(* nothing has to be remembered, and afterwards nothing happens.           *)

\* A program that ended does nothing more, and its files are not looked at.
LEMMA EndedStays ==
  ASSUME [Next]_vars, program # "running"
  PROVE  UNCHANGED vars
BY DEF Next, Frame, FilesChange, PollEvents, MainTabs, ChooseExecutable, Controls, FlowTabs,
       Execute, SourcePreview, EndFrame, Drawing

\* The one step that ends it by an exception.
LEMMA TerminatesInPreview ==
  ASSUME TypeOK, [Next]_vars, program = "running", program' = "terminated"
  PROVE  SourcePreview
<1>1. ~FilesChange /\ ~PollEvents /\ ~MainTabs /\ ~ChooseExecutable /\ ~Controls /\ ~FlowTabs
  BY DEF FilesChange, PollEvents, MainTabs, ChooseExecutable, Controls, FlowTabs
<1>2. ~Execute /\ ~EndFrame /\ ~UNCHANGED vars
  BY DEF Execute, EndFrame, vars
<1> QED BY <1>1, <1>2 DEF Next, Frame

LEMMA StepErrorsAreShown == TypeOK /\ ErrorsAreShown /\ [Next]_vars => ErrorsAreShown'
<1> SUFFICES ASSUME TypeOK, ErrorsAreShown, [Next]_vars, program' = "terminated"
             PROVE  (/\ sourcesOpen /\ pc = "end"
                      /\ \E file \in {"users.csv", "orders.csv"} : Refused(file))'
  BY DEF ErrorsAreShown
<1>1. CASE program # "running"
  BY <1>1, EndedStays DEF ErrorsAreShown, Refused, vars, imgui
<1>2. CASE program = "running"
  <2>1. SourcePreview
    BY <1>2, TerminatesInPreview
  <2>2. sourcesOpen' /\ pc' = "end" /\ files' = files
    BY <1>2, <2>1 DEF SourcePreview
  <2>3. Refused(Previewed) /\ Previewed \in {"users.csv", "orders.csv"}
    BY <1>2, <2>1 DEF SourcePreview, Previewed
  <2> QED BY <2>2, <2>3 DEF Refused
<1> QED BY <1>1, <1>2

(* A file that an execution does not find, or whose contents its reader    *)
(* refuses, never ends the program: it ends by an exception only out of    *)
(* the open preview of a missing or malformed CSV file (renderSourcePreview *)
(* in main.cpp, which nothing catches).                                    *)
THEOREM DemoErrorsAreShown == Spec => []ErrorsAreShown
<1>1. Init => TypeOK /\ ErrorsAreShown
  BY InitTypeOK DEF Init, ErrorsAreShown
<1>2. TypeOK /\ ErrorsAreShown /\ [Next]_vars => (TypeOK /\ ErrorsAreShown)'
  BY StepTypeOK, StepErrorsAreShown
<1> QED BY <1>1, <1>2, PTL DEF Spec
=============================================================================
