------------------------ MODULE WorkflowPanel_proofs ------------------------
(***************************************************************************)
(* Proofs about the panel of the web bench, for any inputs, tasks, outputs *)
(* and ports, any number of edges and any slips.                           *)
(***************************************************************************)
EXTENDS WorkflowPanel, FiniteSetTheorems, TLAPS

Configured(e) == data[e] # NoData

(***************************************************************************)
(* Dialogs and overlays exclude each other; while ports are asked for, the *)
(* selection does not move and the task has no record; a record belongs to *)
(* a task on the canvas that was asked for.                                *)
(***************************************************************************)
PageInv ==
  /\ overlay # "none" => dialog = "none"
  /\ overlay = "ports" => asked = selected /\ asked \in (Task \cap isInit) \ selectedTasks
  /\ selectedTasks \subseteq isInit \cap canvas

\* Edges end on the canvas; only they are configured, and a dialog is about one that is not.
EdgeInv ==
  /\ \A e \in edges : source[e] \in canvas /\ target[e] \in canvas
  /\ \A e \in Edge \ edges : ~Configured(e)
  /\ dialog # "none" => selected \in edges /\ ~Configured(selected) /\ dialog = DialogOf(selected)

\* Settings of inputs never name an output of the workflow, those of outputs never an input.
PeersInv ==
  /\ \A s \in inSettings : s.peer \in Input \cup Task
  /\ \A s \in outSettings : s.peer \in Task \cup Output

CapturedInv == CleanOf({"taskDeleted"}) => shared /\ selectedTasks \subseteq captured

\* An edge is used up when it has been configured or deleted.
Used == {e \in 1 .. drawn : e \notin edges \/ Configured(e)}
ConfirmedInv == confirmed <= Cardinality(Used)

IInv == TypeOK /\ PageInv /\ EdgeInv /\ PeersInv /\ SettingsOnCanvas /\ RecordsOfTheirTasks /\ CapturedInv /\ ConfirmedInv

-----------------------------------------------------------------------------
\* Edges are numbers, no vertex is, and Nothing is neither.
CellsApart ==
  /\ edges \subseteq Edge /\ Edge \subseteq Nat
  /\ edges \cap Vertex = {} /\ Edge \cap Vertex = {} /\ Nothing \notin Edge \cup Vertex
  /\ canvas \subseteq Vertex /\ fileList \subseteq Vertex

\* The type invariant and the assumption keep edges and vertices apart.
LEMMA Apart == TypeOK => CellsApart
<1> HAVE TypeOK
<1>1. Edge \subseteq Nat /\ edges \subseteq Edge
  BY CellAssumption DEF TypeOK, Edge
<1>2. canvas \subseteq Vertex /\ fileList \subseteq Vertex
  BY CellAssumption DEF TypeOK
<1>3. QED
  BY <1>1, <1>2, CellAssumption DEF CellsApart

\* No step breaks what is known of the dialog and the overlay.
LEMMA PageStep == IInv /\ [Next]_vars => PageInv'
<1> SUFFICES ASSUME IInv, [Next]_vars PROVE PageInv'
  OBVIOUS
<1> USE CellAssumption DEF IInv, TypeOK, PageInv, selectedTasks, Vertex
<1>1. CASE UNCHANGED vars
  BY <1>1 DEF vars, drawing, books, waiting
<1>2. ASSUME NEW v \in Vertex, Drop(v) PROVE PageInv'
  BY <1>2 DEF Drop, HandleSelectionChange, Free, books, Edge
<1>3. ASSUME NEW c \in canvas \cup edges \cup {Nothing}, Select(c) PROVE PageInv'
  BY <1>3 DEF Select, HandleSelectionChange, Free, drawing, books, Edge
<1>4. ASSUME NEW e \in Edge, NEW s \in canvas, NEW t \in canvas, Connect(e, s, t) PROVE PageInv'
  BY <1>4 DEF Connect, HandleSelectionChange, Free, books, Edge
<1>5. ASSUME NEW e \in Edge, NEW s \in canvas, NEW t \in canvas, MoveEnd(e, s, t) PROVE PageInv'
  BY <1>5 DEF MoveEnd, Free, books, waiting
<1>6. ASSUME NEW f \in DOMAIN NoChoice, NEW p \in Port, Choose(f, p) PROVE PageInv'
  BY <1>6 DEF Choose, drawing, books, waiting
<1>7. CASE FinishedSelectPort \/ FinishedInputOutMatch \/ TaskToOutConfirmedHandler
  BY <1>7 DEF FinishedSelectPort, FinishedInputOutMatch, TaskToOutConfirmedHandler, Confirm, waiting
<1>8. CASE CancelSelectPort
  BY <1>8 DEF CancelSelectPort, books, waiting
<1>9. CASE CancelInputOutMatch \/ TaskToOutputCancelHandler \/ CloseDialog
  BY <1>9 DEF CancelInputOutMatch, TaskToOutputCancelHandler, CloseDialog, drawing, books, waiting
<1>10. ASSUME NEW e \in Edge, DeleteEdge(e) PROVE PageInv'
  BY <1>10 DEF DeleteEdge, Free, waiting
<1>11. ASSUME NEW v \in Vertex, DeleteVertex(v) PROVE PageInv'
  BY <1>11 DEF DeleteVertex, Free
<1>12. CASE PortsAnswered
  <2>1. selected \in Task \cap isInit /\ overlay' = "none" /\ dialog = "none"
    BY <1>12 DEF PortsAnswered, Closes
  <2>2. selected \in canvas
    BY <2>1, Apart DEF CellsApart
  <2>3. selectedTasks' \subseteq selectedTasks \cup {selected}
    BY <1>12, <2>1 DEF PortsAnswered, books
  <2>4. UNCHANGED <<canvas, isInit, dialog>>
    BY <1>12 DEF PortsAnswered, drawing
  <2>5. QED
    BY <2>1, <2>2, <2>3, <2>4
<1>13. CASE RunWithSave \/ SaveAnswered \/ RunAnswered \/ ShowOutput \/ OutputAnswered \/ RequestFails
  BY <1>13 DEF RunWithSave, SaveAnswered, RunAnswered, ShowOutput, OutputAnswered, RequestFails, Closes, Free, books, drawing
<1>14. CASE Reload
  BY <1>14 DEF Reload
<1>15. QED
  BY <1>1, <1>2, <1>3, <1>4, <1>5, <1>6, <1>7, <1>8, <1>9, <1>10, <1>11, <1>12, <1>13, <1>14 DEF Next

-----------------------------------------------------------------------------
\* After every step edges end on the canvas, and a dialog is about an edge that is not configured.
LEMMA EdgeStep == IInv /\ [Next]_vars => EdgeInv'
<1> SUFFICES ASSUME IInv, [Next]_vars PROVE EdgeInv'
  OBVIOUS
<1> USE DEF EdgeInv, Configured, CellsApart
<1>0. /\ EdgeInv /\ PageInv /\ CellsApart
      /\ edges \subseteq 1 .. drawn /\ drawn \in 0 .. MaxEdges
      /\ source \in [Edge -> Vertex \cup {Nothing}] /\ target \in [Edge -> Vertex \cup {Nothing}]
      /\ DOMAIN data = Edge
      /\ selected \in canvas \cup edges \cup {Nothing}
  BY Apart DEF IInv, TypeOK
<1>1. CASE UNCHANGED vars
  BY <1>0, <1>1 DEF vars, drawing, books, DialogOf, InputEdge, Channel, OutputEdge, selectedTasks
<1>2. ASSUME NEW v \in Vertex, Drop(v) PROVE EdgeInv'
  BY <1>0, <1>2 DEF Drop, HandleSelectionChange
<1>3. ASSUME NEW c \in canvas \cup edges \cup {Nothing}, Select(c) PROVE EdgeInv'
  BY <1>0, <1>3 DEF Select, HandleSelectionChange, drawing
<1>4. ASSUME NEW e \in Edge, NEW s \in canvas, NEW t \in canvas, Connect(e, s, t) PROVE EdgeInv'
  BY <1>0, <1>4 DEF Connect, HandleSelectionChange, Free
<1>5. ASSUME NEW e \in Edge, NEW s \in canvas, NEW t \in canvas, MoveEnd(e, s, t) PROVE EdgeInv'
  BY <1>0, <1>5 DEF MoveEnd, Free
<1>6. ASSUME NEW f \in DOMAIN NoChoice, NEW p \in Port, Choose(f, p) PROVE EdgeInv'
  BY <1>0, <1>6 DEF Choose, drawing, books, DialogOf, InputEdge, Channel, OutputEdge, selectedTasks
<1>7. CASE FinishedSelectPort \/ FinishedInputOutMatch \/ TaskToOutConfirmedHandler
  BY <1>0, <1>7 DEF FinishedSelectPort, FinishedInputOutMatch, TaskToOutConfirmedHandler, Confirm
<1>8. CASE CancelSelectPort
  BY <1>0, <1>8 DEF CancelSelectPort, RemoveEdges
<1>9. CASE CancelInputOutMatch \/ TaskToOutputCancelHandler \/ CloseDialog
  BY <1>0, <1>9 DEF CancelInputOutMatch, TaskToOutputCancelHandler, CloseDialog, drawing
<1>10. ASSUME NEW e \in Edge, DeleteEdge(e) PROVE EdgeInv'
  BY <1>0, <1>10 DEF DeleteEdge, RemoveEdges, Free
<1>11. ASSUME NEW v \in Vertex, DeleteVertex(v) PROVE EdgeInv'
  BY <1>0, <1>11 DEF DeleteVertex, RemoveEdges, Free
<1>12. CASE PortsAnswered
  BY <1>0, <1>12 DEF PortsAnswered, Closes, drawing, PageInv
<1>13. CASE RunWithSave \/ SaveAnswered \/ RunAnswered \/ ShowOutput \/ OutputAnswered \/ RequestFails
  BY <1>0, <1>13 DEF RunWithSave, SaveAnswered, RunAnswered, ShowOutput, OutputAnswered, RequestFails, drawing, books,
     DialogOf, InputEdge, Channel, OutputEdge, selectedTasks
<1>14. CASE Reload
  BY <1>0, <1>14 DEF Reload
<1>15. QED
  BY <1>1, <1>2, <1>3, <1>4, <1>5, <1>6, <1>7, <1>8, <1>9, <1>10, <1>11, <1>12, <1>13, <1>14 DEF Next

-----------------------------------------------------------------------------
\* The selected edge of a dialog, and the records and cells at its ends.
LEMMA DialogEnds ==
  ASSUME EdgeInv, TypeOK
  PROVE  /\ dialog = "selectPort" => InputEdge(selected) /\ target[selected] \in selectedTasks
         /\ dialog = "inputOutMatch" => Channel(selected) /\ {source[selected], target[selected]} \subseteq selectedTasks
         /\ dialog = "taskToOut" => OutputEdge(selected) /\ source[selected] \in selectedTasks
         /\ dialog # "none" => {source[selected], target[selected]} \subseteq canvas
  BY DEF EdgeInv, DialogOf

(***************************************************************************)
(* The settings change by the confirmation of a dialog, the deletion of a  *)
(* cell and with the page.                                                 *)
(***************************************************************************)
LEMMA SettingFrame ==
  ASSUME [Next]_vars,
         ~(FinishedSelectPort \/ FinishedInputOutMatch \/ TaskToOutConfirmedHandler),
         \A v \in Vertex : ~DeleteVertex(v), ~Reload
  PROVE  UNCHANGED <<inSettings, outSettings, confirmed>>
  BY ZenonT(60) DEF Next, vars, drawing, books, Drop, Select, Connect, MoveEnd, Choose, CancelSelectPort, CancelInputOutMatch,
         TaskToOutputCancelHandler, CloseDialog, DeleteEdge, PortsAnswered, RunWithSave, SaveAnswered, RunAnswered,
         ShowOutput, OutputAnswered, RequestFails

\* No step leaves a setting with a peer of the wrong kind.
LEMMA PeersStep == IInv /\ [Next]_vars => PeersInv'
<1> SUFFICES ASSUME IInv, [Next]_vars PROVE PeersInv'
  OBVIOUS
<1>0. PeersInv /\ EdgeInv /\ TypeOK
  BY DEF IInv
<1>1. CASE FinishedSelectPort \/ FinishedInputOutMatch \/ TaskToOutConfirmedHandler
  <2>1. CASE FinishedSelectPort
    <3>1. source[selected] \in Input
      BY <1>0, <2>1, DialogEnds DEF FinishedSelectPort, Confirm, InputEdge
    <3>2. QED
      BY <1>0, <2>1, <3>1 DEF PeersInv, FinishedSelectPort, TakeIn, Setting
  <2>2. CASE FinishedInputOutMatch
    <3>1. source[selected] \in Task /\ target[selected] \in Task
      BY <1>0, <2>2, DialogEnds DEF FinishedInputOutMatch, Confirm, Channel
    <3>2. QED
      BY <1>0, <2>2, <3>1 DEF PeersInv, FinishedInputOutMatch, TakeIn, TakeOut, Setting
  <2>3. CASE TaskToOutConfirmedHandler
    <3>1. target[selected] \in Output
      BY <1>0, <2>3, DialogEnds DEF TaskToOutConfirmedHandler, Confirm, OutputEdge
    <3>2. QED
      BY <1>0, <2>3, <3>1 DEF PeersInv, TaskToOutConfirmedHandler, TakeOut, Setting
  <2>4. QED
    BY <1>1, <2>1, <2>2, <2>3
<1>2. ASSUME NEW v \in Vertex, DeleteVertex(v) PROVE PeersInv'
  <2>1. inSettings' \subseteq inSettings /\ outSettings' \subseteq outSettings
    BY <1>2 DEF DeleteVertex, Without
  <2>2. QED
    BY <1>0, <2>1 DEF PeersInv
<1>3. CASE Reload
  BY <1>3 DEF Reload, PeersInv
<1>4. QED
  BY <1>0, <1>1, <1>2, <1>3, SettingFrame DEF PeersInv

-----------------------------------------------------------------------------
\* What goes with a vertex, if its deletion does not fail.
LEMMA DeleteVertexGone ==
  ASSUME NEW v \in Vertex, DeleteVertex(v), IInv
  PROVE  \/ /\ canvas' = canvas \ {v} /\ edges' = {e \in edges : v \notin {source[e], target[e]}}
            /\ selectedTasks' = selectedTasks \ {v}
            /\ inSettings' = {s \in inSettings : s.task # v /\ s.peer # v}
            /\ outSettings' = {s \in outSettings : s.task # v /\ s.peer # v}
         \/ /\ canvas' = canvas /\ edges' = edges /\ selectedTasks' = selectedTasks
            /\ inSettings' \subseteq inSettings /\ outSettings' \subseteq outSettings
<1> DEFINE passIn == v \notin Output
           stopIn == passIn /\ \E t \in Task : Throws(inSettings, inPorts, t, v)
           passOut == v \notin Input /\ ~stopIn
           stopOut == passOut /\ \E t \in Task : Throws(outSettings, outPorts, t, v)
           done == ~stopIn /\ ~stopOut
<1>1. CASE ~done
  <2>1. canvas' = canvas /\ edges' = edges /\ loadNr' = loadNr
    BY <1>1 DEF DeleteVertex, RemoveEdges
  <2>2. inSettings' \subseteq inSettings /\ outSettings' \subseteq outSettings
    BY DEF DeleteVertex, Without
  <2>3. QED
    BY <2>1, <2>2 DEF selectedTasks
<1>2. CASE done
  <2>1. /\ canvas' = canvas \ {v} /\ edges' = {e \in edges : v \notin {source[e], target[e]}}
        /\ inSettings' = {s \in (IF passIn THEN Without(inSettings, inPorts, v) ELSE inSettings) : v \in Task => s.task # v}
        /\ outSettings' = {s \in (IF passOut THEN Without(outSettings, outPorts, v) ELSE outSettings) : v \in Task => s.task # v}
        /\ loadNr' = IF v \in Task THEN [loadNr EXCEPT ![v] = 0] ELSE loadNr
    BY <1>2 DEF DeleteVertex, RemoveEdges
  <2>2. selectedTasks' = selectedTasks \ {v}
    BY <2>1 DEF selectedTasks, IInv, TypeOK
  <2>3. ASSUME NEW s \in inSettings PROVE s \in inSettings' <=> s.task # v /\ s.peer # v
    <3>1. s.task \in selectedTasks /\ s.peer \in Input \cup Task
      BY DEF IInv, PeersInv, SettingsOnCanvas
    <3>2. passIn => Reached(inSettings, inPorts, v) = selectedTasks
      BY <1>2 DEF Reached, selectedTasks
    <3>3. ~passIn => s.peer # v
      BY <3>1, CellAssumption
    <3>4. QED
      BY <2>1, <3>1, <3>2, <3>3 DEF Without, selectedTasks
  <2>4. ASSUME NEW s \in outSettings PROVE s \in outSettings' <=> s.task # v /\ s.peer # v
    <3>1. s.task \in selectedTasks /\ s.peer \in Task \cup Output
      BY DEF IInv, PeersInv, SettingsOnCanvas
    <3>2. passOut => Reached(outSettings, outPorts, v) = selectedTasks
      BY <1>2 DEF Reached, selectedTasks
    <3>3. ~passOut => s.peer # v
      BY <1>2, <3>1, CellAssumption
    <3>4. QED
      BY <2>1, <3>1, <3>2, <3>3 DEF Without, selectedTasks
  <2>5. inSettings' \subseteq inSettings /\ outSettings' \subseteq outSettings
    BY <2>1 DEF Without
  <2>6. QED
    BY <2>1, <2>2, <2>3, <2>4, <2>5
<1>3. QED
  BY <1>1, <1>2

\* Records are entered with an answer and go with their tasks; cells go with their deletion.
LEMMA RecordFrame ==
  ASSUME [Next]_vars, ~PortsAnswered, \A v \in Vertex : ~DeleteVertex(v), ~Reload
  PROVE  canvas \subseteq canvas' /\ UNCHANGED <<loadNr, recordOf, captured, shared>>
  BY ZenonT(60) DEF Next, vars, drawing, books, Drop, Select, Connect, MoveEnd, Choose, FinishedSelectPort, FinishedInputOutMatch,
         TaskToOutConfirmedHandler, Confirm, CancelSelectPort, CancelInputOutMatch, TaskToOutputCancelHandler, CloseDialog,
         DeleteEdge, RunWithSave, SaveAnswered, RunAnswered, ShowOutput, OutputAnswered, RequestFails

\* The answer is entered for the task it is about, whose place is not 0.
LEMMA AnswerEntered ==
  ASSUME PortsAnswered, IInv
  PROVE  /\ selected \in (Task \cap canvas) \ selectedTasks /\ asked = selected
         /\ asked \notin NoSpec => selectedTasks' = selectedTasks \cup {selected}
         /\ asked \in NoSpec => UNCHANGED books
         /\ loadNr' \in [Task -> 0 .. Cardinality(Task)]
<1>1. /\ asked = selected /\ selected \in (Task \cap isInit) \ selectedTasks
      /\ selected \in canvas /\ loadNr \in [Task -> 0 .. Cardinality(Task)]
  BY Apart DEF CellsApart, PortsAnswered, Closes, IInv, PageInv, TypeOK, Vertex
<1>2. Cardinality(isInit \cap Task) \in 1 .. Cardinality(Task)
  <2>1. IsFiniteSet(Task)
    BY CellAssumption, FS_Subset DEF Vertex
  <2>2. IsFiniteSet(isInit \cap Task) /\ Cardinality(isInit \cap Task) <= Cardinality(Task)
    BY <2>1, FS_Subset
  <2>3. Cardinality(isInit \cap Task) \in Nat /\ Cardinality(Task) \in Nat
    BY <2>1, <2>2, FS_CardinalityType
  <2>4. Cardinality(isInit \cap Task) # 0
    BY <1>1, <2>2, FS_EmptySet
  <2>5. QED
    BY <2>2, <2>3, <2>4
<1>3. CASE asked \in NoSpec
  BY <1>1, <1>3 DEF PortsAnswered, books
<1>4. CASE asked \notin NoSpec
  <2>1. loadNr' = [loadNr EXCEPT ![selected] = Cardinality(isInit \cap Task)]
    BY <1>4 DEF PortsAnswered
  <2>2. QED
    BY <1>1, <1>2, <1>4, <2>1 DEF selectedTasks
<1>5. QED
  BY <1>3, <1>4

\* A task finds its own record after every step.
LEMMA RecordsStep == IInv /\ [Next]_vars => RecordsOfTheirTasks'
<1> SUFFICES ASSUME IInv, [Next]_vars PROVE RecordsOfTheirTasks'
  OBVIOUS
<1>0. RecordsOfTheirTasks /\ recordOf \in [Task -> Task \cup {Nothing}] /\ loadNr \in [Task -> 0 .. Cardinality(Task)]
  BY DEF IInv, TypeOK
<1>1. CASE PortsAnswered
  <2>1. CASE asked \in NoSpec
    BY <1>0, <1>1, <2>1, AnswerEntered DEF RecordsOfTheirTasks, books, selectedTasks
  <2>2. CASE asked \notin NoSpec
    <3>1. recordOf' = [recordOf EXCEPT ![selected] = asked]
      BY <1>1, <2>2 DEF PortsAnswered
    <3>2. QED
      BY <1>0, <1>1, <2>2, <3>1, AnswerEntered DEF RecordsOfTheirTasks
  <2>3. QED
    BY <2>1, <2>2
<1>2. ASSUME NEW v \in Vertex, DeleteVertex(v) PROVE RecordsOfTheirTasks'
  BY <1>0, <1>2 DEF DeleteVertex, RecordsOfTheirTasks, selectedTasks
<1>3. CASE Reload
  BY <1>3 DEF Reload, RecordsOfTheirTasks, selectedTasks
<1>4. QED
  BY <1>0, <1>1, <1>2, <1>3, RecordFrame DEF RecordsOfTheirTasks, selectedTasks

\* After every step the settings are of tasks that have records, with peers on the canvas.
LEMMA SettingsStep == IInv /\ [Next]_vars => SettingsOnCanvas'
<1> SUFFICES ASSUME IInv, [Next]_vars PROVE SettingsOnCanvas'
  OBVIOUS
<1>0. SettingsOnCanvas /\ EdgeInv /\ TypeOK
  BY DEF IInv
<1>1. CASE FinishedSelectPort \/ FinishedInputOutMatch \/ TaskToOutConfirmedHandler
  <2>1. UNCHANGED <<canvas, loadNr>>
    BY <1>1 DEF FinishedSelectPort, FinishedInputOutMatch, TaskToOutConfirmedHandler, Confirm
  <2>2. CASE FinishedSelectPort
    BY <1>0, <2>1, <2>2, DialogEnds DEF SettingsOnCanvas, FinishedSelectPort, Confirm, TakeIn, Setting, selectedTasks
  <2>3. CASE FinishedInputOutMatch
    BY <1>0, <2>1, <2>3, DialogEnds DEF SettingsOnCanvas, FinishedInputOutMatch, Confirm, TakeIn, TakeOut, Setting, selectedTasks
  <2>4. CASE TaskToOutConfirmedHandler
    BY <1>0, <2>1, <2>4, DialogEnds DEF SettingsOnCanvas, TaskToOutConfirmedHandler, Confirm, TakeOut, Setting, selectedTasks
  <2>5. QED
    BY <1>1, <2>2, <2>3, <2>4
<1>2. ASSUME NEW v \in Vertex, DeleteVertex(v) PROVE SettingsOnCanvas'
  BY <1>0, <1>2, DeleteVertexGone DEF SettingsOnCanvas
<1>3. CASE Reload
  BY <1>3 DEF Reload, SettingsOnCanvas
<1>4. CASE PortsAnswered
  <2>1. UNCHANGED <<canvas, inSettings, outSettings>> /\ selectedTasks \subseteq selectedTasks'
    BY <1>4, AnswerEntered DEF PortsAnswered, drawing, books, selectedTasks
  <2>2. QED
    BY <1>0, <2>1 DEF SettingsOnCanvas
<1>5. QED
  BY <1>0, <1>1, <1>2, <1>3, <1>4, SettingFrame, RecordFrame DEF SettingsOnCanvas, selectedTasks

\* As long as no task is deleted, the array that was captured at the start has all tasks with records.
LEMMA CapturedStep == IInv /\ [Next]_vars => CapturedInv'
<1> SUFFICES ASSUME IInv, [Next]_vars PROVE CapturedInv'
  OBVIOUS
<1>0. CapturedInv /\ TypeOK
  BY DEF IInv
<1>1. CASE Reload
  BY <1>1 DEF Reload, CapturedInv, selectedTasks
<1>2. CASE ~Reload
  <2>1. slips \subseteq slips'
    BY <1>2, ZenonT(60) DEF Next, vars, drawing, books, Drop, Select, Connect, MoveEnd, Choose, FinishedSelectPort,
       FinishedInputOutMatch, TaskToOutConfirmedHandler, Confirm, CancelSelectPort, CancelInputOutMatch,
       TaskToOutputCancelHandler, CloseDialog, DeleteEdge, DeleteVertex, PortsAnswered, RunWithSave, SaveAnswered, RunAnswered,
       ShowOutput, OutputAnswered, RequestFails, Slips
  <2>2. CASE PortsAnswered
    <3>1. asked \notin NoSpec => shared' = shared /\ captured' = IF shared THEN captured \cup {selected} ELSE captured
      BY <2>2 DEF PortsAnswered
    <3>2. QED
      BY <1>0, <2>1, <2>2, <3>1, AnswerEntered DEF CapturedInv, CleanOf, books, selectedTasks
  <2>3. ASSUME NEW v \in Vertex, DeleteVertex(v) PROVE CapturedInv'
    <3>1. captured' = captured /\ (shared => shared' \/ "taskDeleted" \in slips')
      BY <2>3 DEF DeleteVertex, Slips, When
    <3>2. selectedTasks' \subseteq selectedTasks
      BY <2>3, DeleteVertexGone
    <3>3. QED
      BY <1>0, <2>1, <3>1, <3>2 DEF CapturedInv, CleanOf
  <2>4. QED
    BY <1>0, <1>2, <2>1, <2>2, <2>3, RecordFrame DEF CapturedInv, CleanOf, selectedTasks
<1>3. QED
  BY <1>1, <1>2

-----------------------------------------------------------------------------
\* What the handlers of the OK buttons do to the edge of their dialog.
LEMMA ConfirmedEdge ==
  ASSUME IInv, FinishedSelectPort \/ FinishedInputOutMatch \/ TaskToOutConfirmedHandler
  PROVE  /\ selected \in edges /\ ~Configured(selected)
         /\ \E ports \in [in : Choice \cup {Nothing}, out : Choice \cup {Nothing}] :
               ports # NoData /\ data' = [data EXCEPT ![selected] = ports]
         /\ UNCHANGED <<edges, drawn>> /\ confirmed' = confirmed + 1
<1>1. choice \in [DOMAIN NoChoice -> Choice]
  BY DEF IInv, TypeOK
<1>2. /\ choice.selectPort \in Choice /\ choice.matchedInput \in Choice
      /\ choice.matchedOutput \in Choice /\ choice.taskToOut \in Choice
  BY <1>1 DEF NoChoice
<1>3. Nothing \notin Choice
  BY CellAssumption
<1>4. PICK handler \in Dialog, p \in [in : Choice \cup {Nothing}, out : Choice \cup {Nothing}] :
        p # NoData /\ \E fields : Confirm(handler, p, fields)
  BY <1>2, <1>3, Zenon DEF FinishedSelectPort, FinishedInputOutMatch, TaskToOutConfirmedHandler, NoData, Dialog
<1>5. QED
  BY <1>4 DEF IInv, EdgeInv, Confirm, Dialog

\* A used-up edge stays used up until the page is loaded again.
LEMMA UsedGrows ==
  ASSUME IInv, [Next]_vars, ~Reload
  PROVE  Used \subseteq Used' /\ drawn' \in Nat
<1> USE DEF Configured, Used
<1>0. /\ drawn \in Nat /\ edges \subseteq 1 .. drawn /\ DOMAIN data = Edge /\ 1 .. drawn \subseteq Edge
  BY CellAssumption DEF IInv, TypeOK, Edge
<1>1. CASE FinishedSelectPort \/ FinishedInputOutMatch \/ TaskToOutConfirmedHandler
  BY <1>0, <1>1, ConfirmedEdge
<1>2. ASSUME NEW e \in Edge, NEW s \in canvas, NEW t \in canvas, Connect(e, s, t)
      PROVE  Used \subseteq Used' /\ drawn' \in Nat
  BY <1>0, <1>2 DEF Connect
<1>3. CASE CancelSelectPort
  BY <1>0, <1>3 DEF CancelSelectPort, RemoveEdges
<1>4. ASSUME NEW e \in Edge, DeleteEdge(e) PROVE Used \subseteq Used' /\ drawn' \in Nat
  BY <1>0, <1>4 DEF DeleteEdge, RemoveEdges
<1>5. ASSUME NEW v \in Vertex, DeleteVertex(v) PROVE Used \subseteq Used' /\ drawn' \in Nat
  BY <1>0, <1>5 DEF DeleteVertex, RemoveEdges
<1>6. CASE UNCHANGED <<drawn, edges, data>>
  BY <1>0, <1>6
<1>7. QED
  BY <1>1, <1>2, <1>3, <1>4, <1>5, <1>6
  DEF Next, vars, drawing, Drop, Select, MoveEnd, Choose, CancelInputOutMatch, TaskToOutputCancelHandler,
      CloseDialog, PortsAnswered, RunWithSave, SaveAnswered, RunAnswered, ShowOutput, OutputAnswered, RequestFails

\* There are at most as many used-up edges as have been drawn.
LEMMA UsedFinite ==
  ASSUME drawn \in Nat
  PROVE  IsFiniteSet(Used) /\ Cardinality(Used) \in 0 .. drawn
<1>1. IsFiniteSet(1 .. drawn) /\ Cardinality(1 .. drawn) = drawn
  BY FS_Interval
<1>2. IsFiniteSet(Used) /\ Cardinality(Used) <= Cardinality(1 .. drawn)
  BY <1>1, FS_Subset DEF Used
<1>3. QED
  BY <1>1, <1>2, FS_CardinalityType

\* A dialog uses up an edge that was not used up before.
LEMMA ConfirmedStep == IInv /\ [Next]_vars => confirmed' \in 0 .. drawn' /\ ConfirmedInv'
<1> SUFFICES ASSUME IInv, [Next]_vars PROVE confirmed' \in 0 .. drawn' /\ ConfirmedInv'
  OBVIOUS
<1>0. /\ ConfirmedInv /\ drawn \in Nat /\ confirmed \in Nat
      /\ IsFiniteSet(Used) /\ Cardinality(Used) \in Nat
  BY CellAssumption, UsedFinite DEF IInv, TypeOK
<1>1. CASE Reload
  BY <1>1, FS_EmptySet DEF Reload, ConfirmedInv, Used
<1>2. CASE ~Reload
  <2>1. Used \subseteq Used' /\ drawn' \in Nat
    BY <1>2, UsedGrows
  <2>2. IsFiniteSet(Used)' /\ (Cardinality(Used) \in 0 .. drawn)'
    <3>1. (drawn \in Nat => IsFiniteSet(Used) /\ Cardinality(Used) \in 0 .. drawn)'
      BY UsedFinite, PTL
    <3>2. QED
      BY <2>1, <3>1
  <2>3. CASE FinishedSelectPort \/ FinishedInputOutMatch \/ TaskToOutConfirmedHandler
    <3>1. selected \in Used' \ Used /\ confirmed' = confirmed + 1
      <4>1. selected \in 1 .. drawn /\ DOMAIN data = Edge /\ selected \in Edge
        BY <2>3, ConfirmedEdge, Apart DEF IInv, TypeOK, CellsApart
      <4>2. QED
        BY <2>3, <4>1, ConfirmedEdge DEF Used, Configured
    <3>2. /\ IsFiniteSet(Used \cup {selected}) /\ Cardinality(Used \cup {selected}) = Cardinality(Used) + 1
      BY <1>0, <3>1, FS_AddElement
    <3>3. Used \cup {selected} \subseteq Used'
      BY <2>1, <3>1
    <3>4. Cardinality(Used \cup {selected}) <= Cardinality(Used')
      BY <2>2, <3>3, FS_Subset
    <3>5. QED
      BY <1>0, <2>1, <2>2, <3>1, <3>2, <3>4 DEF ConfirmedInv
  <2>4. CASE confirmed' = confirmed
    <3>1. Cardinality(Used) <= Cardinality(Used')
      BY <2>1, <2>2, FS_Subset
    <3>2. QED
      BY <1>0, <2>1, <2>2, <2>4, <3>1 DEF ConfirmedInv
  <2>5. QED
    <3>1. ASSUME NEW v \in Vertex, DeleteVertex(v) PROVE confirmed' = confirmed
      BY <3>1 DEF DeleteVertex
    <3>2. QED
      BY <1>2, <2>3, <2>4, <3>1, SettingFrame
<1>3. QED
  BY <1>1, <1>2

-----------------------------------------------------------------------------
(***************************************************************************)
(* The type invariant, taken apart into the drawing, the selection, the    *)
(* ports, the settings and the page.                                       *)
(***************************************************************************)
DrawingType ==
  /\ canvas \subseteq dropped /\ dropped \subseteq fileList /\ fileList \in FileLists
  /\ drawn \in 0 .. MaxEdges /\ edges \subseteq 1 .. drawn
  /\ source \in [Edge -> Vertex \cup {Nothing}] /\ target \in [Edge -> Vertex \cup {Nothing}]

DataType == data \in [Edge -> [in : Choice \cup {Nothing}, out : Choice \cup {Nothing}]]

SelectionType == selected \in canvas \cup edges \cup {Nothing} /\ isInit \subseteq dropped

BookType ==
  /\ loadNr \in [Task -> 0 .. Cardinality(Task)] /\ recordOf \in [Task -> Task \cup {Nothing}]
  /\ captured \subseteq Task /\ shared \in BOOLEAN
  /\ availIn \in [Task -> SUBSET Port] /\ availOut \in [Task -> SUBSET Port]

SettingType == inSettings \cup outSettings \subseteq [task : Task, peer : Vertex, port : Choice, nr : 1 .. MaxEdges]

PageType ==
  /\ dialog \in Dialog \cup {"none"} /\ choice \in [DOMAIN NoChoice -> Choice]
  /\ overlay \in {"none", "ports", "saving", "running", "output", "stuck"}
  /\ asked \in Task \cup {Nothing} /\ hasOutPut \in BOOLEAN
  /\ slips \subseteq Slip

\* The type invariant, part by part
LEMMA TypeParts ==
  TypeOK <=> DrawingType /\ DataType /\ SelectionType /\ BookType /\ SettingType /\ PageType /\ confirmed \in 0 .. drawn
  BY DEF TypeOK, DrawingType, DataType, SelectionType, BookType, SettingType, PageType

\* The drawing keeps its types.
LEMMA DrawingStep == IInv /\ [Next]_vars => DrawingType'
<1> SUFFICES ASSUME IInv, [Next]_vars PROVE DrawingType'
  OBVIOUS
<1> USE DEF DrawingType
<1>0. DrawingType /\ CellsApart /\ MaxEdges \in Nat
  BY TypeParts, Apart, CellAssumption DEF IInv
<1>1. CASE UNCHANGED drawing
  BY <1>0, <1>1 DEF drawing
<1>2. ASSUME NEW v \in Vertex, Drop(v) PROVE DrawingType'
  BY <1>0, <1>2 DEF Drop
<1>3. ASSUME NEW e \in Edge, NEW s \in canvas, NEW t \in canvas, Connect(e, s, t) PROVE DrawingType'
  BY <1>0, <1>3 DEF Connect, CellsApart, Edge
<1>4. ASSUME NEW e \in Edge, NEW s \in canvas, NEW t \in canvas, MoveEnd(e, s, t) PROVE DrawingType'
  BY <1>0, <1>4 DEF MoveEnd, CellsApart
<1>5. CASE FinishedSelectPort \/ FinishedInputOutMatch \/ TaskToOutConfirmedHandler
  BY <1>0, <1>5 DEF FinishedSelectPort, FinishedInputOutMatch, TaskToOutConfirmedHandler, Confirm
<1>6. CASE CancelSelectPort
  BY <1>0, <1>6 DEF CancelSelectPort, RemoveEdges
<1>7. ASSUME NEW e \in Edge, DeleteEdge(e) PROVE DrawingType'
  BY <1>0, <1>7 DEF DeleteEdge, RemoveEdges
<1>8. ASSUME NEW v \in Vertex, DeleteVertex(v) PROVE DrawingType'
  BY <1>0, <1>8 DEF DeleteVertex, RemoveEdges
<1>9. CASE Reload
  BY <1>0, <1>9 DEF Reload
<1>10. QED
  BY <1>1, <1>2, <1>3, <1>4, <1>5, <1>6, <1>7, <1>8, <1>9
  DEF Next, vars, Select, Choose, CancelInputOutMatch, TaskToOutputCancelHandler, CloseDialog, PortsAnswered,
      RunWithSave, SaveAnswered, RunAnswered, ShowOutput, OutputAnswered, RequestFails

\* The data of the edges keep their types.
LEMMA DataStep == IInv /\ [Next]_vars => DataType'
<1> SUFFICES ASSUME IInv, [Next]_vars PROVE DataType'
  OBVIOUS
<1> USE DEF DataType
<1>0. DataType /\ NoData \in [in : Choice \cup {Nothing}, out : Choice \cup {Nothing}]
  BY TypeParts DEF IInv, NoData
<1>1. CASE FinishedSelectPort \/ FinishedInputOutMatch \/ TaskToOutConfirmedHandler
  BY <1>0, <1>1, ConfirmedEdge
<1>2. CASE CancelSelectPort
  BY <1>0, <1>2 DEF CancelSelectPort, RemoveEdges
<1>3. ASSUME NEW e \in Edge, DeleteEdge(e) PROVE DataType'
  BY <1>0, <1>3 DEF DeleteEdge, RemoveEdges
<1>4. ASSUME NEW v \in Vertex, DeleteVertex(v) PROVE DataType'
  BY <1>0, <1>4 DEF DeleteVertex, RemoveEdges
<1>5. CASE Reload
  BY <1>0, <1>5 DEF Reload
<1>6. QED
  BY <1>0, <1>1, <1>2, <1>3, <1>4, <1>5
  DEF Next, vars, drawing, Drop, Select, Connect, MoveEnd, Choose, CancelInputOutMatch, TaskToOutputCancelHandler,
      CloseDialog, PortsAnswered, RunWithSave, SaveAnswered, RunAnswered, ShowOutput, OutputAnswered, RequestFails

\* The selection keeps its types.
LEMMA SelectionStep == IInv /\ [Next]_vars => SelectionType'
<1> SUFFICES ASSUME IInv, [Next]_vars PROVE SelectionType'
  OBVIOUS
<1> USE DEF SelectionType
<1>0. SelectionType /\ canvas \subseteq dropped
  BY TypeParts DEF IInv, DrawingType
<1>1. ASSUME NEW v \in Vertex, Drop(v) PROVE SelectionType'
  BY <1>0, <1>1 DEF Drop, HandleSelectionChange
<1>2. ASSUME NEW c \in canvas \cup edges \cup {Nothing}, Select(c) PROVE SelectionType'
  BY <1>0, <1>2, Apart DEF Select, HandleSelectionChange, drawing, IInv, CellsApart
<1>3. ASSUME NEW e \in Edge, NEW s \in canvas, NEW t \in canvas, Connect(e, s, t) PROVE SelectionType'
  BY <1>0, <1>3, Apart DEF Connect, HandleSelectionChange, IInv, CellsApart
<1>4. CASE CancelSelectPort
  BY <1>0, <1>4 DEF CancelSelectPort
<1>5. ASSUME NEW e \in Edge, DeleteEdge(e) PROVE SelectionType'
  BY <1>0, <1>5 DEF DeleteEdge, RemoveEdges
<1>6. ASSUME NEW v \in Vertex, DeleteVertex(v) PROVE SelectionType'
  BY <1>0, <1>6 DEF DeleteVertex, RemoveEdges
<1>7. CASE Reload
  BY <1>7 DEF Reload
<1>8. CASE UNCHANGED <<canvas, edges, dropped, selected, isInit>>
  BY <1>0, <1>8
<1>9. QED
  BY <1>1, <1>2, <1>3, <1>4, <1>5, <1>6, <1>7, <1>8
  DEF Next, vars, drawing, MoveEnd, Choose, FinishedSelectPort, FinishedInputOutMatch, TaskToOutConfirmedHandler,
      Confirm, CancelInputOutMatch, TaskToOutputCancelHandler, CloseDialog, PortsAnswered, RunWithSave, SaveAnswered,
      RunAnswered, ShowOutput, OutputAnswered, RequestFails

\* A port that is given back is one of the task's.
LEMMA GivenBack ==
  ASSUME NEW avail \in [Task -> SUBSET Port], NEW settings, NEW ports \in [Task -> SUBSET Port], NEW t \in Task, NEW c,
         ~Fails(settings, ports, t, c)
  PROVE  GiveBack(avail, settings, t, c) \in [Task -> SUBSET Port]
<1>1. t \in selectedTasks => FirstPort(Of(settings, t, c)) \in Port
  BY DEF Fails
<1>2. QED
  BY <1>1 DEF GiveBack

\* Giving ports back leaves sets of ports.
LEMMA FreedPorts ==
  ASSUME NEW avail \in [Task -> SUBSET Port], NEW settings, NEW ports \in [Task -> SUBSET Port], NEW v
  PROVE  Freed(avail, settings, ports, v) \in [Task -> SUBSET Port]
  BY DEF Freed

\* The records and the free ports keep their types.
LEMMA BookStep == IInv /\ [Next]_vars => BookType'
<1> SUFFICES ASSUME IInv, [Next]_vars PROVE BookType'
  OBVIOUS
<1> USE DEF BookType
<1>0. /\ BookType /\ CellsApart
      /\ inPorts \in [Task -> SUBSET Port] /\ outPorts \in [Task -> SUBSET Port]
  BY TypeParts, Apart, CellAssumption DEF IInv
<1>1. CASE FinishedSelectPort \/ FinishedInputOutMatch \/ TaskToOutConfirmedHandler
  <2>1. UNCHANGED <<loadNr, recordOf, captured, shared>>
    BY <1>1 DEF FinishedSelectPort, FinishedInputOutMatch, TaskToOutConfirmedHandler, Confirm
  <2>2. availIn' \in [Task -> SUBSET Port]
    BY <1>0, <1>1 DEF FinishedSelectPort, FinishedInputOutMatch, TaskToOutConfirmedHandler, TakeIn
  <2>3. availOut' \in [Task -> SUBSET Port]
    BY <1>0, <1>1 DEF FinishedSelectPort, FinishedInputOutMatch, TaskToOutConfirmedHandler, TakeOut
  <2>4. QED
    BY <1>0, <2>1, <2>2, <2>3
<1>2. ASSUME NEW e \in Edge, DeleteEdge(e) PROVE BookType'
  <2>1. UNCHANGED <<loadNr, recordOf, captured, shared>>
    BY <1>2 DEF DeleteEdge
  <2>2. availOut' \in [Task -> SUBSET Port]
    BY <1>0, <1>2, GivenBack DEF DeleteEdge
  <2>3. availIn' \in [Task -> SUBSET Port]
    BY <1>0, <1>2, GivenBack DEF DeleteEdge, InputEdge, Channel
  <2>4. QED
    BY <1>0, <2>1, <2>2, <2>3
<1>3. ASSUME NEW v \in Vertex, DeleteVertex(v) PROVE BookType'
  <2>1. /\ loadNr' \in [Task -> 0 .. Cardinality(Task)] /\ recordOf' \in [Task -> Task \cup {Nothing}]
        /\ captured' \subseteq Task /\ shared' \in BOOLEAN
    <3>1. 0 \in 0 .. Cardinality(Task)
      BY CellAssumption, FS_Subset, FS_CardinalityType DEF Vertex
    <3>2. QED
      BY <1>0, <1>3, <3>1 DEF DeleteVertex
  <2>2. availIn' \in [Task -> SUBSET Port] /\ availOut' \in [Task -> SUBSET Port]
    <3>1. /\ Freed(availIn, inSettings, inPorts, v) \in [Task -> SUBSET Port]
          /\ Freed(availOut, outSettings, outPorts, v) \in [Task -> SUBSET Port]
      BY <1>0, FreedPorts
    <3>2. QED
      BY <1>0, <1>3, <3>1 DEF DeleteVertex
  <2>3. QED
    BY <2>1, <2>2
<1>4. CASE PortsAnswered
  <2>1. CASE asked \in NoSpec
    BY <1>0, <1>4, <2>1, AnswerEntered DEF books
  <2>2. CASE asked \notin NoSpec
    <3>1. selected \in Task /\ asked = selected /\ loadNr' \in [Task -> 0 .. Cardinality(Task)]
      BY <1>4, AnswerEntered
    <3>2. QED
      BY <1>0, <1>4, <2>2, <3>1 DEF PortsAnswered
  <2>3. QED
    BY <2>1, <2>2
<1>5. CASE Reload
  <2>1. 0 \in 0 .. Cardinality(Task)
    BY CellAssumption, FS_Subset, FS_CardinalityType DEF Vertex
  <2>2. QED
    BY <1>5, <2>1 DEF Reload
<1>6. CASE UNCHANGED <<loadNr, recordOf, captured, shared, availIn, availOut>>
  BY <1>0, <1>6
<1>7. QED
  BY <1>1, <1>2, <1>3, <1>4, <1>5, <1>6
  DEF Next, vars, books, Drop, Select, Connect, MoveEnd, Choose, CancelSelectPort, CancelInputOutMatch,
      TaskToOutputCancelHandler, CloseDialog, RunWithSave, SaveAnswered, RunAnswered, ShowOutput, OutputAnswered, RequestFails

\* The settings keep their types.
LEMMA SettingTypeStep == IInv /\ [Next]_vars => SettingType'
<1> SUFFICES ASSUME IInv, [Next]_vars PROVE SettingType'
  OBVIOUS
<1>0. SettingType /\ CellsApart /\ TypeOK /\ EdgeInv
  BY TypeParts, Apart DEF IInv
<1>1. CASE FinishedSelectPort \/ FinishedInputOutMatch \/ TaskToOutConfirmedHandler
  <2>1. choice \in [DOMAIN NoChoice -> Choice]
    BY TypeParts DEF IInv, PageType
  <2>2. /\ choice.selectPort \in Choice /\ choice.matchedInput \in Choice
        /\ choice.matchedOutput \in Choice /\ choice.taskToOut \in Choice
    BY <2>1 DEF NoChoice
  <2>3. confirmed + 1 \in 1 .. MaxEdges
    BY <1>1, ConfirmedEdge, ConfirmedStep, CellAssumption DEF IInv, TypeOK
  <2>4. ASSUME NEW t \in Task, NEW c \in Vertex, NEW q \in Choice
        PROVE  Setting(t, c, q) \in [task : Task, peer : Vertex, port : Choice, nr : 1 .. MaxEdges]
    BY <2>3 DEF Setting
  <2>5. CASE FinishedSelectPort
    <3>1. target[selected] \in Task /\ source[selected] \in Vertex
      BY <1>0, <2>5, DialogEnds DEF FinishedSelectPort, Confirm, InputEdge, Vertex
    <3>2. QED
      BY <1>0, <2>2, <2>4, <2>5, <3>1 DEF FinishedSelectPort, TakeIn, SettingType
  <2>6. CASE FinishedInputOutMatch
    <3>1. target[selected] \in Task /\ source[selected] \in Task /\ Task \subseteq Vertex
      BY <1>0, <2>6, DialogEnds DEF FinishedInputOutMatch, Confirm, Channel, Vertex
    <3>2. QED
      BY <1>0, <2>2, <2>4, <2>6, <3>1 DEF FinishedInputOutMatch, TakeIn, TakeOut, SettingType
  <2>7. CASE TaskToOutConfirmedHandler
    <3>1. source[selected] \in Task /\ target[selected] \in Vertex
      BY <1>0, <2>7, DialogEnds DEF TaskToOutConfirmedHandler, Confirm, OutputEdge, Vertex
    <3>2. QED
      BY <1>0, <2>2, <2>4, <2>7, <3>1 DEF TaskToOutConfirmedHandler, TakeOut, SettingType
  <2>8. QED
    BY <1>1, <2>5, <2>6, <2>7
<1>2. ASSUME NEW v \in Vertex, DeleteVertex(v) PROVE SettingType'
  <2>1. inSettings' \subseteq inSettings /\ outSettings' \subseteq outSettings
    BY <1>2, DeleteVertexGone
  <2>2. QED
    BY <1>0, <2>1 DEF SettingType
<1>3. CASE Reload
  BY <1>3 DEF Reload, SettingType
<1>4. QED
  BY <1>0, <1>1, <1>2, <1>3, SettingFrame DEF SettingType

\* The dialog and the overlay keep their types.
LEMMA PageTypeStep == IInv /\ [Next]_vars => PageType'
<1> SUFFICES ASSUME IInv, [Next]_vars PROVE PageType'
  OBVIOUS
<1> USE DEF PageType
<1>0. PageType /\ CellsApart
  BY TypeParts, Apart DEF IInv
<1>1. choice' \in [DOMAIN NoChoice -> Choice]
  <2>1. choice \in [DOMAIN NoChoice -> Choice] /\ NoChoice \in [DOMAIN NoChoice -> Choice] /\ Port \subseteq Choice
    BY <1>0 DEF NoChoice, Choice
  <2>2. QED
    BY <2>1, ZenonT(60)
    DEF Next, vars, Drop, Select, Connect, MoveEnd, Choose, FinishedSelectPort, FinishedInputOutMatch,
        TaskToOutConfirmedHandler, Confirm, CancelSelectPort, CancelInputOutMatch, TaskToOutputCancelHandler,
        CloseDialog, DeleteEdge, DeleteVertex, PortsAnswered, RunWithSave, SaveAnswered, RunAnswered, ShowOutput,
        OutputAnswered, RequestFails, Reload, Choice
<1>2. ASSUME NEW c, HandleSelectionChange(c)
      PROVE  /\ dialog' \in Dialog \cup {"none"} /\ overlay' \in {overlay, "ports"}
             /\ asked' \in Task \cup {Nothing}
  <2>1. dialog' \in Dialog \cup {"none"}
    BY <1>2 DEF HandleSelectionChange, DialogOf, Dialog
  <2>2. overlay' \in {overlay, "ports"} /\ asked' \in Task \cup {Nothing}
    BY <1>0, <1>2 DEF HandleSelectionChange
  <2>3. QED
    BY <2>1, <2>2
<1>3. /\ dialog' \in Dialog \cup {"none"}
      /\ overlay' \in {"none", "ports", "saving", "running", "output", "stuck"}
      /\ asked' \in Task \cup {Nothing}
  <2>1. ASSUME NEW c, HandleSelectionChange(c) 
        PROVE  /\ dialog' \in Dialog \cup {"none"}
               /\ overlay' \in {"none", "ports", "saving", "running", "output", "stuck"}
               /\ asked' \in Task \cup {Nothing}
    BY <1>0, <1>2, <2>1
  <2>2. CASE UNCHANGED <<dialog, waiting>> \/ (dialog' = "none" /\ UNCHANGED waiting) \/ (UNCHANGED <<dialog, asked, overlay>>)
    BY <1>0, <2>2 DEF waiting
  <2>3. CASE PortsAnswered \/ RunWithSave \/ SaveAnswered \/ RunAnswered \/ ShowOutput \/ OutputAnswered \/ RequestFails
    BY <1>0, <2>3 DEF PortsAnswered, RunWithSave, SaveAnswered, RunAnswered, ShowOutput, OutputAnswered, RequestFails, Closes
  <2>4. CASE Reload
    BY <2>4 DEF Reload
  <2>5. QED
    BY <2>1, <2>2, <2>3, <2>4, ZenonT(60)
    DEF Next, vars, Drop, Select, Connect, MoveEnd, Choose, FinishedSelectPort, FinishedInputOutMatch,
        TaskToOutConfirmedHandler, Confirm, CancelSelectPort, CancelInputOutMatch, TaskToOutputCancelHandler,
        CloseDialog, DeleteEdge, DeleteVertex
<1>4. hasOutPut' \in BOOLEAN
  BY <1>0, ZenonT(60)
  DEF Next, vars, waiting, Drop, Select, Connect, MoveEnd, Choose, FinishedSelectPort, FinishedInputOutMatch,
      TaskToOutConfirmedHandler, Confirm, CancelSelectPort, CancelInputOutMatch, TaskToOutputCancelHandler,
      CloseDialog, DeleteEdge, DeleteVertex, PortsAnswered, RunWithSave, SaveAnswered, RunAnswered, ShowOutput,
      OutputAnswered, RequestFails, Reload
<1>5. slips' \subseteq Slip
  BY <1>0, ZenonT(60)
  DEF Next, vars, Drop, Select, Connect, MoveEnd, Choose, FinishedSelectPort, FinishedInputOutMatch, Slips, Slip, When,
      TaskToOutConfirmedHandler, Confirm, CancelSelectPort, CancelInputOutMatch, TaskToOutputCancelHandler,
      CloseDialog, DeleteEdge, DeleteVertex, PortsAnswered, RunWithSave, SaveAnswered, RunAnswered, ShowOutput,
      OutputAnswered, RequestFails, Reload
<1>6. QED
  BY <1>1, <1>3, <1>4, <1>5

-----------------------------------------------------------------------------
(***************************************************************************)
(* The panel keeps its books in order: records, settings, dialogs and the  *)
(* edges they are about belong together in every state it reaches.         *)
(***************************************************************************)
THEOREM Invariance == Spec => []IInv
<1>1. Init => IInv
  <2> SUFFICES ASSUME Init PROVE IInv
    OBVIOUS
  <2>1. 0 \in 0 .. Cardinality(Task) /\ 0 \in 0 .. MaxEdges
    BY CellAssumption, FS_Subset, FS_CardinalityType DEF Vertex
  <2>2. TypeOK
    <3>1. DrawingType /\ SelectionType /\ SettingType /\ confirmed \in 0 .. drawn
      BY <2>1, CellAssumption DEF Init, DrawingType, SelectionType, SettingType
    <3>2. BookType
      BY <2>1 DEF Init, BookType
    <3>3. DataType
      BY DEF Init, DataType, NoData
    <3>4. PageType
      <4>1. NoChoice \in [DOMAIN NoChoice -> Choice]
        BY DEF NoChoice, Choice
      <4>2. QED
        BY <4>1 DEF Init, PageType
    <3>5. QED
      BY <3>1, <3>2, <3>3, <3>4, TypeParts
  <2>3. selectedTasks = {} /\ Used = {}
    BY DEF Init, selectedTasks, Used
  <2>4. ConfirmedInv
    BY <2>3, FS_EmptySet DEF Init, ConfirmedInv
  <2>5. QED
    BY <2>2, <2>3, <2>4
    DEF Init, IInv, PageInv, EdgeInv, Configured, PeersInv, SettingsOnCanvas, RecordsOfTheirTasks, CapturedInv
<1>2. IInv /\ [Next]_vars => IInv'
  <2> SUFFICES ASSUME IInv, [Next]_vars PROVE IInv'
    OBVIOUS
  <2>1. TypeOK'
    <3>1. (TypeOK <=> DrawingType /\ DataType /\ SelectionType /\ BookType /\ SettingType /\ PageType
                      /\ confirmed \in 0 .. drawn)'
      BY TypeParts, PTL
    <3>2. QED
      BY <3>1, DrawingStep, DataStep, SelectionStep, BookStep, SettingTypeStep, PageTypeStep, ConfirmedStep
  <2>2. QED
    BY <2>1, PageStep, EdgeStep, PeersStep, SettingsStep, RecordsStep, CapturedStep, ConfirmedStep DEF IInv
<1>3. QED
  BY <1>1, <1>2, PTL DEF Spec

\* The type invariant holds whatever inputs, tasks, outputs and ports there are.
THEOREM TypeCorrect == Spec => []TypeOK
<1>1. IInv => TypeOK
  BY DEF IInv
<1>2. QED
  BY <1>1, Invariance, PTL

\* The answer of the server is always entered in the record of the task it is about.
THEOREM AnswersToTheirTasks == Spec => []RecordsOfTheirTasks
<1>1. IInv => RecordsOfTheirTasks
  BY DEF IInv
<1>2. QED
  BY <1>1, Invariance, PTL

\* No setting outlives its task or its cell, also when a deletion fails halfway.
THEOREM SettingsGoWithCells == Spec => []SettingsOnCanvas
<1>1. IInv => SettingsOnCanvas
  BY DEF IInv
<1>2. QED
  BY <1>1, Invariance, PTL

\* Until a task is deleted, the array of isValidConnection has the records there are.
THEOREM RefusedWithReason == Spec => []RefusedOnlyWhenFull
<1>1. IInv => RefusedOnlyWhenFull
  BY CellAssumption DEF IInv, CapturedInv, RefusedOnlyWhenFull, IsValidConnection, selectedTasks
<1>2. QED
  BY <1>1, Invariance, PTL

-----------------------------------------------------------------------------
\* A page without the slips that the books do not survive has none in its past either.
LEMMA SlipsStay == [Next]_vars /\ ~Reload => slips \subseteq slips'
  BY ZenonT(60) DEF Next, vars, Drop, Select, Connect, MoveEnd, Choose, FinishedSelectPort, FinishedInputOutMatch,
         TaskToOutConfirmedHandler, Confirm, CancelSelectPort, CancelInputOutMatch, TaskToOutputCancelHandler, CloseDialog,
         DeleteEdge, DeleteVertex, PortsAnswered, RunWithSave, SaveAnswered, RunAnswered, ShowOutput, OutputAnswered,
         RequestFails, Slips

\* A task that is set to a cell once only gets that port back.
LEMMA OnlySetting ==
  ASSUME IInv, NEW v \in Vertex, ~HasPair(v), NEW t \in selectedTasks
  PROVE  /\ \/ Of(inSettings, t, v) = {}
            \/ \E s \in inSettings : s.task = t /\ s.peer = v /\ Of(inSettings, t, v) = {s} /\ LastPort({s}) = s.port
         /\ \/ Of(outSettings, t, v) = {}
            \/ \E s \in outSettings : s.task = t /\ s.peer = v /\ Of(outSettings, t, v) = {s} /\ LastPort({s}) = s.port
<1>1. ASSUME NEW settings \in {inSettings, outSettings}, NEW s \in Of(settings, t, v)
      PROVE  s \in settings /\ s.task = t /\ s.peer = v /\ Of(settings, t, v) = {s} /\ LastPort({s}) = s.port
  <2>1. s \in settings /\ s.task = t /\ s.peer = v
    BY <1>1 DEF Of
  <2>2. s.nr \in Nat
    BY <1>1, <2>1, CellAssumption DEF IInv, TypeOK
  <2>3. \A r \in Of(settings, t, v) : r = s
    BY <1>1 DEF HasPair
  <2>4. (CHOOSE x \in {s} : \A r \in {s} : r.nr <= x.nr) = s
    BY <2>2
  <2>5. QED
    BY <1>1, <2>1, <2>3, <2>4 DEF LastPort
<1>2. QED
  BY <1>1

\* No step loses an input port that is taken.
LEMMA NoInputLostStep == IInv /\ NoInputLost /\ [Next]_vars => NoInputLost'
<1> SUFFICES ASSUME IInv, NoInputLost, [Next]_vars, CleanOf({"pairDeleted"})', NEW t \in selectedTasks'
             PROVE  (inPorts[t] \ availIn[t] \subseteq {s.port : s \in {r \in inSettings : r.task = t}})'
  BY DEF NoInputLost
<1> DEFINE Kept == {s.port : s \in {r \in inSettings : r.task = t}}
<1>0. CASE Reload
  BY <1>0 DEF Reload, selectedTasks
<1> SUFFICES ASSUME ~Reload PROVE inPorts[t] \ availIn'[t] \subseteq Kept'
  BY <1>0
<1>1. /\ t \in Task /\ availIn \in [Task -> SUBSET Port] /\ TypeOK /\ EdgeInv
      /\ t \in selectedTasks => inPorts[t] \ availIn[t] \subseteq Kept
  BY SlipsStay DEF IInv, TypeOK, NoInputLost, CleanOf, selectedTasks
<1>2. CASE FinishedSelectPort \/ FinishedInputOutMatch
  <2>1. PICK p : TakeIn(p)
    BY <1>2 DEF FinishedSelectPort, FinishedInputOutMatch
  <2>2. t \in selectedTasks
    BY <1>2 DEF FinishedSelectPort, FinishedInputOutMatch, Confirm, selectedTasks
  <2>3. QED
    <3>1. ASSUME NEW x \in inPorts[t] \ availIn'[t] PROVE x \in Kept'
      <4>1. CASE x \in availIn[t]
        <5>1. t = target[selected] /\ x = p
          BY <1>1, <2>1, <3>1, <4>1 DEF TakeIn
        <5>2. Setting(t, source[selected], p) \in inSettings'
          BY <2>1, <5>1 DEF TakeIn
        <5>3. QED
          BY <5>1, <5>2 DEF Setting
      <4>2. CASE x \notin availIn[t]
        BY <1>1, <2>1, <2>2, <3>1, <4>2 DEF TakeIn
      <4>3. QED
        BY <4>1, <4>2
    <3>2. QED
      BY <3>1
<1>3. ASSUME NEW e \in Edge, DeleteEdge(e) PROVE inPorts[t] \ availIn'[t] \subseteq Kept'
  <2>1. inSettings' = inSettings /\ t \in selectedTasks
    BY <1>3 DEF DeleteEdge, selectedTasks
  <2>2. availIn[t] \subseteq availIn'[t]
    BY <1>1, <1>3 DEF DeleteEdge, GiveBack
  <2>3. QED
    BY <1>1, <2>1, <2>2
<1>4. ASSUME NEW v \in Vertex, DeleteVertex(v) PROVE inPorts[t] \ availIn'[t] \subseteq Kept'
  <2>1. ~HasPair(v)
    BY <1>4 DEF DeleteVertex, Slips, When, CleanOf
  <2>2. t \in selectedTasks
    BY <1>4, DeleteVertexGone
  <2>3. PICK own \in BOOLEAN :
           /\ loadNr' = IF own THEN [loadNr EXCEPT ![v] = 0] ELSE loadNr
           /\ own => v \in Task
           /\ inSettings' = LET S == IF v \notin Output THEN Without(inSettings, inPorts, v) ELSE inSettings
                            IN  IF own THEN {s \in S : s.task # v} ELSE S
           /\ availIn' = LET A == IF v \notin Output THEN Freed(availIn, inSettings, inPorts, v) ELSE availIn
                         IN  IF own THEN [A EXCEPT ![v] = {}] ELSE A
    BY <1>4 DEF DeleteVertex
  <2>4. own => t # v
    BY <1>1, <2>3 DEF IInv, TypeOK, selectedTasks
  <2>5. /\ availIn'[t] = IF v \notin Output THEN Freed(availIn, inSettings, inPorts, v)[t] ELSE availIn[t]
        /\ \A s \in inSettings : s.task = t /\ (v \in Output \/ s \in Without(inSettings, inPorts, v)) => s \in inSettings'
    BY <1>1, <2>3, <2>4, FreedPorts, CellAssumption DEF Without
  <2>6. CASE v \in Output \/ t \notin Reached(inSettings, inPorts, v)
    BY <1>1, <2>2, <2>5, <2>6 DEF Freed, Without
  <2>7. CASE v \notin Output /\ t \in Reached(inSettings, inPorts, v) /\ Of(inSettings, t, v) = {}
    <3>1. \A s \in inSettings : s.task = t => s \in inSettings'
      BY <2>5, <2>7 DEF Of, Without
    <3>2. availIn'[t] = availIn[t]
      BY <1>1, <2>5, <2>7 DEF Freed
    <3>3. QED
      BY <1>1, <2>2, <3>1, <3>2
  <2>8. CASE v \notin Output /\ t \in Reached(inSettings, inPorts, v) /\ Of(inSettings, t, v) # {}
    <3>1. PICK s \in inSettings : s.task = t /\ s.peer = v /\ Of(inSettings, t, v) = {s} /\ LastPort({s}) = s.port
      <4>1. Of(inSettings, t, v) # {}
        BY <2>8
      <4>2. QED
        BY <2>1, <2>2, <4>1, OnlySetting, SMT
    <3>2. availIn'[t] = availIn[t] \cup ({s.port} \cap inPorts[t])
      BY <1>1, <2>5, <2>8, <3>1 DEF Freed
    <3>3. \A r \in inSettings : r.task = t /\ r # s => r \in inSettings'
      BY <2>5, <3>1 DEF Of, Without
    <3>4. QED
      BY <1>1, <2>2, <3>1, <3>2, <3>3
  <2>9. QED
    BY <2>6, <2>7, <2>8
<1>5. CASE PortsAnswered
  <2>1. inSettings' = inSettings
    BY <1>5 DEF PortsAnswered, books
  <2>2. CASE t \in selectedTasks
    BY <1>1, <1>5, <2>1, <2>2, AnswerEntered DEF PortsAnswered, books
  <2>3. CASE t \notin selectedTasks
    <3>1. asked \notin NoSpec /\ t = selected /\ asked = selected
      BY <1>5, <2>3, AnswerEntered DEF selectedTasks, books
    <3>2. availIn'[t] = inPorts[t]
      BY <1>1, <1>5, <3>1 DEF PortsAnswered
    <3>3. QED
      BY <3>2
  <2>4. QED
    BY <2>2, <2>3
<1>6. CASE UNCHANGED <<loadNr, availIn, inSettings>>
  BY <1>1, <1>6 DEF selectedTasks
<1>7. QED
  BY <1>2, <1>3, <1>4, <1>5, <1>6, ZenonT(60)
  DEF Next, vars, drawing, books, Drop, Select, Connect, MoveEnd, Choose, TaskToOutConfirmedHandler, Confirm,
      CancelSelectPort, CancelInputOutMatch, TaskToOutputCancelHandler, CloseDialog, RunWithSave, SaveAnswered,
      RunAnswered, ShowOutput, OutputAnswered, RequestFails

(***************************************************************************)
(* A port that is not available can be had back by deleting the cell its   *)
(* setting names, whatever was chosen, moved or deleted before, unless a   *)
(* cell was deleted that a task had two ports set to.                      *)
(***************************************************************************)
THEOREM InputsAreNotLost == Spec => []NoInputLost
<1>1. Init => NoInputLost
  BY DEF Init, NoInputLost, selectedTasks
<1>2. QED
  BY <1>1, NoInputLostStep, Invariance, PTL DEF Spec

-----------------------------------------------------------------------------
(***************************************************************************)
(* The books of the ports.  That available ports are right depends on the  *)
(* settings, which say what is given back when a cell goes: there is one   *)
(* for each end of a configured edge at a task, and none besides.          *)
(***************************************************************************)
Clean == CleanOf({"edgeDeleted", "endMoved", "badChoice", "pairDeleted"})

ConfiguredEdges == {e \in edges : Configured(e)}
InEdges == {e \in ConfiguredEdges : target[e] \in Task}
OutEdges == {e \in ConfiguredEdges : source[e] \in Task}

InBook ==
  /\ \A e \in InEdges :
       /\ target[e] \in selectedTasks /\ data[e].in \in inPorts[target[e]] \ availIn[target[e]]
       /\ \E s \in inSettings : s.task = target[e] /\ s.peer = source[e] /\ s.port = data[e].in
  /\ \A e, f \in InEdges : target[e] = target[f] /\ data[e].in = data[f].in => e = f
  /\ \A s \in inSettings : \E e \in InEdges : s.task = target[e] /\ s.peer = source[e] /\ s.port = data[e].in
  /\ \A t \in selectedTasks :
       /\ availIn[t] \subseteq inPorts[t]
       /\ \A p \in inPorts[t] \ availIn[t] : \E e \in InEdges : target[e] = t /\ data[e].in = p

OutBook ==
  /\ \A e \in OutEdges :
       /\ source[e] \in selectedTasks /\ data[e].out \in outPorts[source[e]] \ availOut[source[e]]
       /\ \E s \in outSettings : s.task = source[e] /\ s.peer = target[e] /\ s.port = data[e].out
  /\ \A e, f \in OutEdges : source[e] = source[f] /\ data[e].out = data[f].out => e = f
  /\ \A s \in outSettings : \E e \in OutEdges : s.task = source[e] /\ s.peer = target[e] /\ s.port = data[e].out
  /\ \A t \in selectedTasks : availOut[t] \subseteq outPorts[t]

Kinds == \A e \in ConfiguredEdges : InputEdge(e) \/ Channel(e) \/ OutputEdge(e)

BooksInv == Clean => InBook /\ OutBook /\ Kinds

\* The books do not change when the configured edges, the records and the settings do not.
LEMMA BooksFrame ==
  ASSUME InBook, OutBook, Kinds,
         UNCHANGED <<loadNr, availIn, availOut, inSettings, outSettings>>,
         ConfiguredEdges' = ConfiguredEdges,
         \A e \in ConfiguredEdges : source'[e] = source[e] /\ target'[e] = target[e] /\ data'[e] = data[e]
  PROVE  InBook' /\ OutBook' /\ Kinds'
<1>1. /\ InEdges' = InEdges /\ OutEdges' = OutEdges /\ selectedTasks' = selectedTasks
      /\ InEdges \subseteq ConfiguredEdges /\ OutEdges \subseteq ConfiguredEdges
  BY DEF InEdges, OutEdges, selectedTasks
<1>2. InBook'
  BY <1>1 DEF InBook
<1>3. OutBook'
  BY <1>1 DEF OutBook
<1>4. Kinds'
  BY DEF Kinds, InputEdge, Channel, OutputEdge
<1>5. QED
  BY <1>2, <1>3, <1>4

\* A port that was available is given to the edge of the dialog and to no other.
LEMMA InTaken ==
  ASSUME IInv, InBook, NEW p, TakeIn(p), p \in availIn[target[selected]],
         selected \in edges, ~Configured(selected), target[selected] \in selectedTasks,
         NEW d, d # NoData, d.in = p, data' = [data EXCEPT ![selected] = d],
         UNCHANGED <<edges, source, target, loadNr>>
  PROVE  InBook'
<1> DEFINE t0 == target[selected]
           s0 == Setting(t0, source[selected], p)
<1>1. /\ selectedTasks' = selectedTasks /\ t0 \in Task /\ t0 \in selectedTasks
      /\ DOMAIN data = Edge /\ edges \subseteq Edge /\ DOMAIN availIn = Task
  BY Apart DEF selectedTasks, IInv, TypeOK, CellsApart
<1>2. /\ InEdges' = InEdges \cup {selected} /\ selected \notin InEdges /\ selected \in Edge /\ InEdges \subseteq Edge
      /\ data'[selected].in = p /\ \A e \in InEdges : data'[e] = data[e]
  BY <1>1 DEF InEdges, ConfiguredEdges, Configured
<1>3. /\ availIn'[t0] = availIn[t0] \ {p} /\ \A t \in Task : t # t0 => availIn'[t] = availIn[t]
      /\ inSettings' = inSettings \cup {s0}
      /\ s0.task = t0 /\ s0.peer = source[selected] /\ s0.port = p
  BY <1>1 DEF TakeIn, Setting
<1>4. /\ \A e \in InEdges : target[e] \in selectedTasks /\ data[e].in \in inPorts[target[e]] \ availIn[target[e]]
      /\ p \in inPorts[t0] /\ selectedTasks \subseteq Task
  BY <1>1 DEF InBook, selectedTasks
<1> HIDE DEF t0, s0
<1>5. ASSUME NEW e \in InEdges'
      PROVE  /\ target[e] \in selectedTasks /\ data'[e].in \in inPorts[target[e]] \ availIn'[target[e]]
             /\ \E s \in inSettings' : s.task = target[e] /\ s.peer = source[e] /\ s.port = data'[e].in
  <2>1. CASE e = selected
    BY <1>1, <1>2, <1>3, <1>4, <2>1 DEF t0
  <2>2. CASE e \in InEdges
    <3>1. \E s \in inSettings : s.task = target[e] /\ s.peer = source[e] /\ s.port = data[e].in
      BY <2>2 DEF InBook
    <3>2. QED
      BY <1>2, <1>3, <1>4, <2>2, <3>1
  <2>3. QED
    BY <1>2, <2>1, <2>2
<1>6. ASSUME NEW e \in InEdges', NEW f \in InEdges', target[e] = target[f], data'[e].in = data'[f].in
      PROVE  e = f
  <2>1. ASSUME NEW g \in InEdges, target[g] = t0 PROVE data[g].in # p
    BY <1>4, <2>1 DEF t0
  <2>2. CASE e \in InEdges /\ f \in InEdges
    BY <1>2, <1>6, <2>2 DEF InBook
  <2>3. QED
    BY <1>2, <1>6, <2>1, <2>2 DEF t0
<1>7. ASSUME NEW s \in inSettings'
      PROVE  \E e \in InEdges' : s.task = target[e] /\ s.peer = source[e] /\ s.port = data'[e].in
  <2>1. CASE s = s0
    BY <1>2, <1>3, <2>1 DEF t0
  <2>2. CASE s \in inSettings
    <3>1. PICK e \in InEdges : s.task = target[e] /\ s.peer = source[e] /\ s.port = data[e].in
      BY <2>2 DEF InBook
    <3>2. QED
      BY <1>2, <3>1
  <2>3. QED
    BY <1>3, <2>1, <2>2
<1>8. ASSUME NEW t \in selectedTasks
      PROVE  /\ availIn'[t] \subseteq inPorts[t]
             /\ \A q \in inPorts[t] \ availIn'[t] : \E e \in InEdges' : target[e] = t /\ data'[e].in = q
  <2>1. availIn'[t] \subseteq inPorts[t]
    BY <1>3, <1>4 DEF InBook
  <2>2. ASSUME NEW q \in inPorts[t] \ availIn'[t]
        PROVE  \E e \in InEdges' : target[e] = t /\ data'[e].in = q
    <3>1. CASE q \in availIn[t]
      BY <1>2, <1>3, <1>4, <2>2, <3>1 DEF t0
    <3>2. CASE q \notin availIn[t]
      <4>1. PICK e \in InEdges : target[e] = t /\ data[e].in = q
        BY <2>2, <3>2 DEF InBook
      <4>2. QED
        BY <1>2, <4>1
    <3>3. QED
      BY <3>1, <3>2
  <2>3. QED
    BY <2>1, <2>2
<1>9. QED
  BY <1>1, <1>5, <1>6, <1>7, <1>8 DEF InBook

\* Configuring an edge at an output port that is free keeps the book of outputs.
LEMMA OutTaken ==
  ASSUME IInv, OutBook, NEW p, TakeOut(p), p \in availOut[source[selected]],
         selected \in edges, ~Configured(selected), source[selected] \in selectedTasks,
         NEW d, d # NoData, d.out = p, data' = [data EXCEPT ![selected] = d],
         UNCHANGED <<edges, source, target, loadNr>>
  PROVE  OutBook'
<1> DEFINE t0 == source[selected]
           s0 == Setting(t0, target[selected], p)
<1>1. /\ selectedTasks' = selectedTasks /\ t0 \in Task /\ t0 \in selectedTasks
      /\ DOMAIN data = Edge /\ edges \subseteq Edge /\ DOMAIN availOut = Task
  BY Apart DEF selectedTasks, IInv, TypeOK, CellsApart
<1>2. /\ OutEdges' = OutEdges \cup {selected} /\ selected \notin OutEdges /\ selected \in Edge /\ OutEdges \subseteq Edge
      /\ data'[selected].out = p /\ \A e \in OutEdges : data'[e] = data[e]
  BY <1>1 DEF OutEdges, ConfiguredEdges, Configured
<1>3. /\ availOut'[t0] = {} /\ \A t \in Task : t # t0 => availOut'[t] = availOut[t]
      /\ outSettings' = outSettings \cup {s0}
      /\ s0.task = t0 /\ s0.peer = target[selected] /\ s0.port = p
  BY <1>1 DEF TakeOut, Setting
<1>4. /\ \A e \in OutEdges : source[e] \in selectedTasks /\ data[e].out \in outPorts[source[e]] \ availOut[source[e]]
      /\ p \in outPorts[t0] /\ selectedTasks \subseteq Task
  BY <1>1 DEF OutBook, selectedTasks
<1> HIDE DEF t0, s0
<1>5. ASSUME NEW e \in OutEdges'
      PROVE  /\ source[e] \in selectedTasks /\ data'[e].out \in outPorts[source[e]] \ availOut'[source[e]]
             /\ \E s \in outSettings' : s.task = source[e] /\ s.peer = target[e] /\ s.port = data'[e].out
  <2>1. CASE e = selected
    BY <1>1, <1>2, <1>3, <1>4, <2>1 DEF t0
  <2>2. CASE e \in OutEdges
    <3>1. \E s \in outSettings : s.task = source[e] /\ s.peer = target[e] /\ s.port = data[e].out
      BY <2>2 DEF OutBook
    <3>2. QED
      BY <1>2, <1>3, <1>4, <2>2, <3>1
  <2>3. QED
    BY <1>2, <2>1, <2>2
<1>6. ASSUME NEW e \in OutEdges', NEW f \in OutEdges', source[e] = source[f], data'[e].out = data'[f].out
      PROVE  e = f
  <2>1. ASSUME NEW g \in OutEdges, source[g] = t0 PROVE data[g].out # p
    BY <1>4, <2>1 DEF t0
  <2>2. CASE e \in OutEdges /\ f \in OutEdges
    BY <1>2, <1>6, <2>2 DEF OutBook
  <2>3. QED
    BY <1>2, <1>6, <2>1, <2>2 DEF t0
<1>7. ASSUME NEW s \in outSettings'
      PROVE  \E e \in OutEdges' : s.task = source[e] /\ s.peer = target[e] /\ s.port = data'[e].out
  <2>1. CASE s = s0
    BY <1>2, <1>3, <2>1 DEF t0
  <2>2. CASE s \in outSettings
    <3>1. PICK e \in OutEdges : s.task = source[e] /\ s.peer = target[e] /\ s.port = data[e].out
      BY <2>2 DEF OutBook
    <3>2. QED
      BY <1>2, <3>1
  <2>3. QED
    BY <1>3, <2>1, <2>2
<1>8. ASSUME NEW t \in selectedTasks PROVE availOut'[t] \subseteq outPorts[t]
  BY <1>3, <1>4 DEF OutBook
<1>9. QED
  BY <1>1, <1>5, <1>6, <1>7, <1>8 DEF OutBook

(***************************************************************************)
(* Without slips the deletion of a vertex does not fail, and the tasks it  *)
(* was connected to get back the ports that their settings name.           *)
(***************************************************************************)
LEMMA DeletedCleanly ==
  ASSUME NEW v \in Vertex, DeleteVertex(v), IInv, InBook, OutBook, Clean'
  PROVE  /\ canvas' = canvas \ {v} /\ edges' = {e \in edges : v \notin {source[e], target[e]}}
         /\ selectedTasks' = selectedTasks \ {v}
         /\ inSettings' = {s \in inSettings : s.task # v /\ s.peer # v}
         /\ outSettings' = {s \in outSettings : s.task # v /\ s.peer # v}
         /\ \A t \in selectedTasks \ {v} :
              /\ availIn'[t] = availIn[t] \cup {s.port : s \in Of(inSettings, t, v)}
              /\ availOut'[t] = availOut[t] \cup {s.port : s \in Of(outSettings, t, v)}
         /\ \A e \in edges' : source'[e] = source[e] /\ target'[e] = target[e] /\ data'[e] = data[e]
<1>1. ~HasPair(v)
  BY DEF DeleteVertex, Slips, When, Clean, CleanOf
<1>2. /\ \A s \in inSettings : s.task \in selectedTasks /\ s.port \in inPorts[s.task] /\ s.peer \in Input \cup Task
      /\ \A s \in outSettings : s.task \in selectedTasks /\ s.port \in outPorts[s.task] /\ s.peer \in Task \cup Output
  BY DEF InBook, OutBook, IInv, SettingsOnCanvas, PeersInv
<1>3. ASSUME NEW t \in Task
      PROVE  ~Throws(inSettings, inPorts, t, v) /\ ~Throws(outSettings, outPorts, t, v)
  <2>1. CASE t \in selectedTasks
    <3>1. ASSUME Of(inSettings, t, v) # {} PROVE LastPort(Of(inSettings, t, v)) \in inPorts[t]
      <4>1. PICK s \in inSettings : s.task = t /\ s.peer = v /\ Of(inSettings, t, v) = {s} /\ LastPort({s}) = s.port
        BY <1>1, <2>1, <3>1, OnlySetting
      <4>2. QED
        BY <1>2, <4>1
    <3>2. ASSUME Of(outSettings, t, v) # {} PROVE LastPort(Of(outSettings, t, v)) \in outPorts[t]
      <4>1. PICK s \in outSettings : s.task = t /\ s.peer = v /\ Of(outSettings, t, v) = {s} /\ LastPort({s}) = s.port
        BY <1>1, <2>1, <3>2, OnlySetting
      <4>2. QED
        BY <1>2, <4>1
    <3>3. QED
      BY <3>1, <3>2 DEF Throws
  <2>2. QED
    BY <2>1 DEF Throws
<1>4. /\ Reached(inSettings, inPorts, v) = selectedTasks
      /\ Reached(outSettings, outPorts, v) = selectedTasks
  BY <1>3 DEF Reached, selectedTasks
<1>5. /\ canvas' = canvas \ {v} /\ RemoveEdges({e \in edges : v \in {source[e], target[e]}})
      /\ loadNr' = IF v \in Task THEN [loadNr EXCEPT ![v] = 0] ELSE loadNr
      /\ inSettings' = LET S == IF v \notin Output THEN Without(inSettings, inPorts, v) ELSE inSettings
                       IN  IF v \in Task THEN {s \in S : s.task # v} ELSE S
      /\ outSettings' = LET S == IF v \notin Input THEN Without(outSettings, outPorts, v) ELSE outSettings
                        IN  IF v \in Task THEN {s \in S : s.task # v} ELSE S
      /\ availIn' = LET A == IF v \notin Output THEN Freed(availIn, inSettings, inPorts, v) ELSE availIn
                    IN  IF v \in Task THEN [A EXCEPT ![v] = {}] ELSE A
      /\ availOut' = LET A == IF v \notin Input THEN Freed(availOut, outSettings, outPorts, v) ELSE availOut
                     IN  IF v \in Task THEN [A EXCEPT ![v] = {}] ELSE A
  BY <1>3 DEF DeleteVertex
<1>6. selectedTasks' = selectedTasks \ {v}
  BY <1>5 DEF selectedTasks, IInv, TypeOK
<1>7. inSettings' = {s \in inSettings : s.task # v /\ s.peer # v}
  <2>1. ASSUME NEW s \in inSettings PROVE s \in inSettings' <=> s.task # v /\ s.peer # v
    BY <1>2, <1>4, <1>5, CellAssumption DEF Without, selectedTasks
  <2>2. QED
    BY <1>5, <2>1 DEF Without
<1>8. outSettings' = {s \in outSettings : s.task # v /\ s.peer # v}
  <2>1. ASSUME NEW s \in outSettings PROVE s \in outSettings' <=> s.task # v /\ s.peer # v
    BY <1>2, <1>4, <1>5, CellAssumption DEF Without, selectedTasks
  <2>2. QED
    BY <1>5, <2>1 DEF Without
<1>9. ASSUME NEW t \in selectedTasks \ {v}
      PROVE  /\ availIn'[t] = availIn[t] \cup {s.port : s \in Of(inSettings, t, v)}
             /\ availOut'[t] = availOut[t] \cup {s.port : s \in Of(outSettings, t, v)}
  <2>1. t \in Task /\ availIn \in [Task -> SUBSET Port] /\ availOut \in [Task -> SUBSET Port]
    BY DEF IInv, TypeOK, selectedTasks
  <2>2. availIn'[t] = availIn[t] \cup {s.port : s \in Of(inSettings, t, v)}
    <3>1. CASE v \in Output
      <4>1. Of(inSettings, t, v) = {}
        BY <1>2, <3>1, CellAssumption DEF Of
      <4>2. availIn'[t] = availIn[t]
        BY <1>5, <2>1, <3>1
      <4>3. QED
        BY <4>1, <4>2
    <3>2. CASE v \notin Output
      <4>1. availIn'[t] = Freed(availIn, inSettings, inPorts, v)[t]
        BY <1>5, <2>1, <3>2, FreedPorts, CellAssumption
      <4>2. CASE Of(inSettings, t, v) = {}
        BY <2>1, <4>1, <4>2 DEF Freed
      <4>3. CASE Of(inSettings, t, v) # {}
        <5>1. PICK s \in inSettings : s.task = t /\ s.peer = v /\ Of(inSettings, t, v) = {s} /\ LastPort({s}) = s.port
          BY <1>1, <4>3, OnlySetting
        <5>2. LastPort(Of(inSettings, t, v)) = s.port /\ s.port \in inPorts[t]
          BY <1>2, <5>1
        <5>3. availIn'[t] = availIn[t] \cup {s.port}
          BY <1>4, <2>1, <4>1, <4>3, <5>2 DEF Freed
        <5>4. {r.port : r \in Of(inSettings, t, v)} = {s.port}
          BY <5>1
        <5>5. QED
          BY <5>3, <5>4
      <4>4. QED
        BY <4>2, <4>3
    <3>3. QED
      BY <3>1, <3>2
  <2>3. availOut'[t] = availOut[t] \cup {s.port : s \in Of(outSettings, t, v)}
    <3>1. CASE v \in Input
      <4>1. Of(outSettings, t, v) = {}
        BY <1>2, <3>1, CellAssumption DEF Of
      <4>2. availOut'[t] = availOut[t]
        BY <1>5, <2>1, <3>1
      <4>3. QED
        BY <4>1, <4>2
    <3>2. CASE v \notin Input
      <4>1. availOut'[t] = Freed(availOut, outSettings, outPorts, v)[t]
        BY <1>5, <2>1, <3>2, FreedPorts, CellAssumption
      <4>2. CASE Of(outSettings, t, v) = {}
        BY <2>1, <4>1, <4>2 DEF Freed
      <4>3. CASE Of(outSettings, t, v) # {}
        <5>1. PICK s \in outSettings : s.task = t /\ s.peer = v /\ Of(outSettings, t, v) = {s} /\ LastPort({s}) = s.port
          BY <1>1, <4>3, OnlySetting
        <5>2. LastPort(Of(outSettings, t, v)) = s.port /\ s.port \in outPorts[t]
          BY <1>2, <5>1
        <5>3. availOut'[t] = availOut[t] \cup {s.port}
          BY <1>4, <2>1, <4>1, <4>3, <5>2 DEF Freed
        <5>4. {r.port : r \in Of(outSettings, t, v)} = {s.port}
          BY <5>1
        <5>5. QED
          BY <5>3, <5>4
      <4>4. QED
        BY <4>2, <4>3
    <3>3. QED
      BY <3>1, <3>2
  <2>4. QED
    BY <2>2, <2>3
<1>10. /\ edges' = {e \in edges : v \notin {source[e], target[e]}}
       /\ \A e \in edges' : source'[e] = source[e] /\ target'[e] = target[e] /\ data'[e] = data[e]
  BY <1>5, Apart DEF RemoveEdges, IInv, CellsApart
<1>11. QED
  BY <1>5, <1>6, <1>7, <1>8, <1>9, <1>10

\* Deleting a vertex with its edges keeps the books, as long as the slips they rule out do not happen.
LEMMA BooksDeleted ==
  ASSUME NEW v \in Vertex, DeleteVertex(v), IInv, InBook, OutBook, Kinds, Clean'
  PROVE  InBook' /\ OutBook' /\ Kinds'
<1>1. /\ edges' = {e \in edges : v \notin {source[e], target[e]}}
      /\ selectedTasks' = selectedTasks \ {v}
      /\ inSettings' = {s \in inSettings : s.task # v /\ s.peer # v}
      /\ outSettings' = {s \in outSettings : s.task # v /\ s.peer # v}
      /\ \A e \in edges' : source'[e] = source[e] /\ target'[e] = target[e] /\ data'[e] = data[e]
  BY DeletedCleanly
<1>2. /\ ConfiguredEdges' = {e \in ConfiguredEdges : v \notin {source[e], target[e]}}
      /\ InEdges' = {e \in InEdges : v \notin {source[e], target[e]}}
      /\ OutEdges' = {e \in OutEdges : v \notin {source[e], target[e]}}
      /\ InEdges' \subseteq edges' /\ OutEdges' \subseteq edges'
  BY <1>1 DEF ConfiguredEdges, InEdges, OutEdges, Configured
<1>3. Kinds'
  BY <1>1, <1>2 DEF Kinds, InputEdge, Channel, OutputEdge, ConfiguredEdges
<1>4. InBook'
  <2>1. ASSUME NEW t \in selectedTasks \ {v} PROVE availIn'[t] = availIn[t] \cup {s.port : s \in Of(inSettings, t, v)}
    BY DeletedCleanly
  <2>2. ASSUME NEW e \in InEdges'
        PROVE  /\ target[e] \in selectedTasks' /\ data[e].in \in inPorts[target[e]] \ availIn'[target[e]]
               /\ \E s \in inSettings' : s.task = target[e] /\ s.peer = source[e] /\ s.port = data[e].in
    <3>1. /\ e \in InEdges /\ target[e] \in selectedTasks \ {v} /\ source[e] # v
          /\ data[e].in \in inPorts[target[e]] \ availIn[target[e]]
      BY <1>2 DEF InBook
    <3>2. ASSUME NEW s \in Of(inSettings, target[e], v) PROVE s.port # data[e].in
      <4>1. PICK f \in InEdges : s.task = target[f] /\ s.peer = source[f] /\ s.port = data[f].in
        BY <3>2 DEF InBook, Of
      <4>2. source[f] = v /\ target[f] = target[e]
        BY <3>2, <4>1 DEF Of
      <4>3. QED
        BY <3>1, <4>1, <4>2 DEF InBook
    <3>3. \E s \in inSettings' : s.task = target[e] /\ s.peer = source[e] /\ s.port = data[e].in
      <4>1. PICK s \in inSettings : s.task = target[e] /\ s.peer = source[e] /\ s.port = data[e].in
        BY <3>1 DEF InBook
      <4>2. QED
        BY <1>1, <3>1, <4>1
    <3>4. QED
      BY <1>1, <2>1, <3>1, <3>2, <3>3
  <2>3. ASSUME NEW e \in InEdges', NEW f \in InEdges', target[e] = target[f], data[e].in = data[f].in PROVE e = f
    BY <1>2, <2>3 DEF InBook
  <2>4. ASSUME NEW s \in inSettings'
        PROVE  \E e \in InEdges' : s.task = target[e] /\ s.peer = source[e] /\ s.port = data[e].in
    <3>1. PICK e \in InEdges : s.task = target[e] /\ s.peer = source[e] /\ s.port = data[e].in
      BY <1>1, <2>4 DEF InBook
    <3>2. QED
      BY <1>1, <1>2, <2>4, <3>1
  <2>5. ASSUME NEW t \in selectedTasks'
        PROVE  /\ availIn'[t] \subseteq inPorts[t]
               /\ \A p \in inPorts[t] \ availIn'[t] : \E e \in InEdges' : target[e] = t /\ data[e].in = p
    <3>1. t \in selectedTasks \ {v} /\ availIn[t] \subseteq inPorts[t]
      BY <1>1 DEF InBook
    <3>2. ASSUME NEW s \in Of(inSettings, t, v) PROVE s.port \in inPorts[t]
      <4>1. PICK f \in InEdges : s.task = target[f] /\ s.peer = source[f] /\ s.port = data[f].in
        BY <3>2 DEF InBook, Of
      <4>2. QED
        BY <3>2, <4>1 DEF InBook, Of
    <3>3. ASSUME NEW p \in inPorts[t] \ availIn'[t] PROVE \E e \in InEdges' : target[e] = t /\ data[e].in = p
      <4>1. p \notin availIn[t] /\ \A s \in Of(inSettings, t, v) : s.port # p
        BY <2>1, <3>1, <3>3
      <4>2. PICK e \in InEdges : target[e] = t /\ data[e].in = p
        BY <3>1, <3>3, <4>1 DEF InBook
      <4>3. PICK s \in inSettings : s.task = target[e] /\ s.peer = source[e] /\ s.port = data[e].in
        BY DEF InBook
      <4>4. source[e] # v
        BY <4>1, <4>2, <4>3 DEF Of
      <4>5. QED
        BY <1>2, <3>1, <4>2, <4>4
    <3>4. QED
      BY <2>1, <3>1, <3>2, <3>3
  <2>6. \A e \in InEdges' : source'[e] = source[e] /\ target'[e] = target[e] /\ data'[e] = data[e]
    BY <1>1, <1>2
  <2>7. QED
    BY <2>2, <2>3, <2>4, <2>5, <2>6 DEF InBook
<1>5. OutBook'
  <2>1. ASSUME NEW t \in selectedTasks \ {v} PROVE availOut'[t] = availOut[t] \cup {s.port : s \in Of(outSettings, t, v)}
    BY DeletedCleanly
  <2>2. ASSUME NEW e \in OutEdges'
        PROVE  /\ source[e] \in selectedTasks' /\ data[e].out \in outPorts[source[e]] \ availOut'[source[e]]
               /\ \E s \in outSettings' : s.task = source[e] /\ s.peer = target[e] /\ s.port = data[e].out
    <3>1. /\ e \in OutEdges /\ source[e] \in selectedTasks \ {v} /\ target[e] # v
          /\ data[e].out \in outPorts[source[e]] \ availOut[source[e]]
      BY <1>2 DEF OutBook
    <3>2. ASSUME NEW s \in Of(outSettings, source[e], v) PROVE s.port # data[e].out
      <4>1. PICK f \in OutEdges : s.task = source[f] /\ s.peer = target[f] /\ s.port = data[f].out
        BY <3>2 DEF OutBook, Of
      <4>2. target[f] = v /\ source[f] = source[e]
        BY <3>2, <4>1 DEF Of
      <4>3. QED
        BY <3>1, <4>1, <4>2 DEF OutBook
    <3>3. \E s \in outSettings' : s.task = source[e] /\ s.peer = target[e] /\ s.port = data[e].out
      <4>1. PICK s \in outSettings : s.task = source[e] /\ s.peer = target[e] /\ s.port = data[e].out
        BY <3>1 DEF OutBook
      <4>2. QED
        BY <1>1, <3>1, <4>1
    <3>4. QED
      BY <1>1, <2>1, <3>1, <3>2, <3>3
  <2>3. ASSUME NEW e \in OutEdges', NEW f \in OutEdges', source[e] = source[f], data[e].out = data[f].out PROVE e = f
    BY <1>2, <2>3 DEF OutBook
  <2>4. ASSUME NEW s \in outSettings'
        PROVE  \E e \in OutEdges' : s.task = source[e] /\ s.peer = target[e] /\ s.port = data[e].out
    <3>1. PICK e \in OutEdges : s.task = source[e] /\ s.peer = target[e] /\ s.port = data[e].out
      BY <1>1, <2>4 DEF OutBook
    <3>2. QED
      BY <1>1, <1>2, <2>4, <3>1
  <2>5. ASSUME NEW t \in selectedTasks' PROVE availOut'[t] \subseteq outPorts[t]
    <3>1. t \in selectedTasks \ {v} /\ availOut[t] \subseteq outPorts[t]
      BY <1>1 DEF OutBook
    <3>2. ASSUME NEW s \in Of(outSettings, t, v) PROVE s.port \in outPorts[t]
      <4>1. PICK f \in OutEdges : s.task = source[f] /\ s.peer = target[f] /\ s.port = data[f].out
        BY <3>2 DEF OutBook, Of
      <4>2. QED
        BY <3>2, <4>1 DEF OutBook, Of
    <3>3. QED
      BY <2>1, <3>1, <3>2
  <2>6. \A e \in OutEdges' : source'[e] = source[e] /\ target'[e] = target[e] /\ data'[e] = data[e]
    BY <1>1, <1>2
  <2>7. QED
    BY <2>2, <2>3, <2>4, <2>5, <2>6 DEF OutBook
<1>6. QED
  BY <1>3, <1>4, <1>5

\* A task that is entered had no edge configured.
LEMMA BooksEntered ==
  ASSUME PortsAnswered, IInv, InBook, OutBook, Kinds
  PROVE  InBook' /\ OutBook' /\ Kinds'
<1>1. CASE asked \in NoSpec
  BY <1>1, AnswerEntered, BooksFrame DEF PortsAnswered, books, drawing, ConfiguredEdges, Configured
<1>2. CASE asked \notin NoSpec
  <2>1. /\ selected \in Task \ selectedTasks /\ selectedTasks' = selectedTasks \cup {selected}
        /\ UNCHANGED <<inSettings, outSettings, edges, source, target, data>>
        /\ availIn \in [Task -> SUBSET Port] /\ availOut \in [Task -> SUBSET Port]
        /\ availIn' = [availIn EXCEPT ![selected] = inPorts[selected]]
        /\ availOut' = [availOut EXCEPT ![selected] = outPorts[selected]]
    BY <1>2, AnswerEntered DEF PortsAnswered, drawing, IInv, TypeOK
  <2>2. ConfiguredEdges' = ConfiguredEdges /\ InEdges' = InEdges /\ OutEdges' = OutEdges
    BY <2>1 DEF ConfiguredEdges, InEdges, OutEdges, Configured
  <2>3. /\ availIn'[selected] = inPorts[selected] /\ availOut'[selected] = outPorts[selected]
        /\ \A t \in selectedTasks : availIn'[t] = availIn[t] /\ availOut'[t] = availOut[t]
    BY <2>1 DEF selectedTasks
  <2>4. InBook'
    BY <2>1, <2>2, <2>3 DEF InBook
  <2>5. OutBook'
    BY <2>1, <2>2, <2>3 DEF OutBook
  <2>6. Kinds'
    BY <2>1, <2>2 DEF Kinds, InputEdge, Channel, OutputEdge
  <2>7. QED
    BY <2>4, <2>5, <2>6
<1>3. QED
  BY <1>1, <1>2

\* Only an edge that was never configured is deleted without giving back a port.
LEMMA BooksWithoutEdge ==
  ASSUME NEW e \in Edge, DeleteEdge(e), IInv, InBook, OutBook, Kinds, Clean'
  PROVE  InBook' /\ OutBook' /\ Kinds'
<1> DEFINE s == source[e]
           t == target[e]
           gaveOut == ~InputEdge(e) /\ s \in Task /\ ~Fails(outSettings, outPorts, s, t)
           tryIn == InputEdge(e) \/ (Channel(e) /\ gaveOut)
           gaveIn == tryIn /\ ~Fails(inSettings, inPorts, t, s)
           done == CASE InputEdge(e) \/ Channel(e) -> gaveIn [] OutputEdge(e) -> gaveOut [] OTHER -> TRUE
<1>1. ~(gaveOut /\ s \in selectedTasks) /\ ~(gaveIn /\ t \in selectedTasks)
  BY DEF DeleteEdge, Slips, When, Clean, CleanOf
<1>2. /\ availOut' = IF gaveOut THEN GiveBack(availOut, outSettings, s, t) ELSE availOut
      /\ availIn' = IF gaveIn THEN GiveBack(availIn, inSettings, t, s) ELSE availIn
      /\ RemoveEdges(IF done THEN {e} ELSE {})
      /\ UNCHANGED <<loadNr, inSettings, outSettings>>
      /\ e \in edges
  BY DEF DeleteEdge
<1>3. availOut' = availOut /\ availIn' = availIn
  BY <1>1, <1>2 DEF GiveBack, IInv, TypeOK
<1>4. done => e \notin ConfiguredEdges
  <2>1. SUFFICES ASSUME done, e \in ConfiguredEdges PROVE FALSE
    OBVIOUS
  <2>2. /\ t \in Task => t \in selectedTasks
        /\ s \in Task => s \in selectedTasks
    BY <2>1 DEF InBook, OutBook, InEdges, OutEdges
  <2>3. InputEdge(e) \/ Channel(e) \/ OutputEdge(e)
    BY <2>1 DEF Kinds
  <2>4. CASE InputEdge(e) \/ Channel(e)
    BY <1>1, <2>1, <2>2, <2>4 DEF InputEdge, Channel
  <2>5. CASE OutputEdge(e) /\ ~(InputEdge(e) \/ Channel(e))
    BY <1>1, <2>1, <2>2, <2>5 DEF OutputEdge
  <2>6. QED
    BY <2>3, <2>4, <2>5
<1> HIDE DEF done
<1>5. /\ ConfiguredEdges' = ConfiguredEdges
      /\ \A f \in ConfiguredEdges : source'[f] = source[f] /\ target'[f] = target[f] /\ data'[f] = data[f]
  <2>1. edges \subseteq Edge
    BY Apart DEF IInv, CellsApart
  <2>2. QED
    BY <1>2, <1>4, <2>1 DEF RemoveEdges, ConfiguredEdges, Configured
<1>6. QED
  BY <1>2, <1>3, <1>5, BooksFrame

\* A dialog confirmed with ports it offered takes them from the tasks at the ends of its edge.
LEMMA BooksConfirmed ==
  ASSUME FinishedSelectPort \/ FinishedInputOutMatch \/ TaskToOutConfirmedHandler,
         IInv, InBook, OutBook, Kinds, Clean'
  PROVE  InBook' /\ OutBook' /\ Kinds'
<1>1. /\ UNCHANGED <<edges, source, target, loadNr>> /\ selectedTasks' = selectedTasks
      /\ selected \in edges /\ ~Configured(selected) /\ EdgeInv /\ TypeOK /\ edges \subseteq Edge /\ DOMAIN data = Edge
  BY ConfirmedEdge, Apart, ZenonT(60)
  DEF FinishedSelectPort, FinishedInputOutMatch, TaskToOutConfirmedHandler, Confirm, selectedTasks, IInv, TypeOK, CellsApart
<1>2. Nothing \notin Choice /\ choice \in [DOMAIN NoChoice -> Choice]
  BY CellAssumption DEF IInv, TypeOK
<1>3. ASSUME NEW d, data' = [data EXCEPT ![selected] = d],
             InputEdge(selected) \/ Channel(selected) \/ OutputEdge(selected)
      PROVE  Kinds'
  <2>1. ConfiguredEdges' \subseteq ConfiguredEdges \cup {selected}
    BY <1>1, <1>3 DEF ConfiguredEdges, Configured
  <2>2. QED
    BY <1>1, <1>3, <2>1 DEF Kinds, InputEdge, Channel, OutputEdge
<1>4. CASE FinishedSelectPort
  <2> DEFINE p == choice.selectPort
             d == [in |-> p, out |-> Nothing]
  <2>1. /\ data' = [data EXCEPT ![selected] = d] /\ p \in Offered("selectPort") /\ TakeIn(p)
        /\ dialog = "selectPort" /\ UNCHANGED <<availOut, outSettings>>
    BY <1>4 DEF FinishedSelectPort, Confirm, Slips, When, Clean, CleanOf
  <2>2. InputEdge(selected) /\ target[selected] \in selectedTasks
    BY <1>1, <2>1, DialogEnds
  <2>3. p \in availIn[target[selected]] /\ d # NoData /\ d.in = p
    BY <1>2, <2>1 DEF Offered, NoData, NoChoice
  <2> HIDE DEF d, p
  <2>4. InBook'
    BY <1>1, <2>1, <2>2, <2>3, InTaken
  <2>5. OutEdges' = OutEdges /\ selected \notin OutEdges /\ OutEdges \subseteq edges
    BY <1>1, <2>1, <2>2, CellAssumption DEF OutEdges, ConfiguredEdges, Configured, InputEdge
  <2>6. OutBook'
    BY <1>1, <2>1, <2>5 DEF OutBook
  <2>7. QED
    BY <1>3, <2>1, <2>2, <2>4, <2>6
<1>5. CASE FinishedInputOutMatch
  <2> DEFINE p == choice.matchedOutput
             q == choice.matchedInput
             d == [in |-> p, out |-> q]
  <2>1. /\ data' = [data EXCEPT ![selected] = d] /\ p \in Offered("matchedOutput") /\ q \in Offered("matchedInput")
        /\ TakeIn(p) /\ TakeOut(q) /\ dialog = "inputOutMatch"
    BY <1>5 DEF FinishedInputOutMatch, Confirm, Slips, When, Clean, CleanOf
  <2>2. Channel(selected) /\ {source[selected], target[selected]} \subseteq selectedTasks
    BY <1>1, <2>1, DialogEnds
  <2>3. /\ p \in availIn[target[selected]] /\ q \in availOut[source[selected]]
        /\ d # NoData /\ d.in = p /\ d.out = q
    BY <1>2, <2>1 DEF Offered, NoData, NoChoice
  <2> HIDE DEF d, p, q
  <2>4. InBook'
    BY <1>1, <2>1, <2>2, <2>3, InTaken
  <2>5. OutBook'
    BY <1>1, <2>1, <2>2, <2>3, OutTaken
  <2>6. QED
    BY <1>3, <2>1, <2>2, <2>4, <2>5
<1>6. CASE TaskToOutConfirmedHandler
  <2> DEFINE q == choice.taskToOut
             d == [in |-> Nothing, out |-> q]
  <2>1. /\ data' = [data EXCEPT ![selected] = d] /\ q \in Offered("taskToOut") /\ TakeOut(q)
        /\ dialog = "taskToOut" /\ UNCHANGED <<availIn, inSettings>>
    BY <1>6 DEF TaskToOutConfirmedHandler, Confirm, Slips, When, Clean, CleanOf
  <2>2. OutputEdge(selected) /\ source[selected] \in selectedTasks
    BY <1>1, <2>1, DialogEnds
  <2>3. q \in availOut[source[selected]] /\ d # NoData /\ d.out = q
    BY <1>2, <2>1 DEF Offered, NoData, NoChoice
  <2> HIDE DEF d, q
  <2>4. OutBook'
    BY <1>1, <2>1, <2>2, <2>3, OutTaken
  <2>5. InEdges' = InEdges /\ selected \notin InEdges /\ InEdges \subseteq edges
    BY <1>1, <2>1, <2>2, CellAssumption DEF InEdges, ConfiguredEdges, Configured, OutputEdge
  <2>6. InBook'
    BY <1>1, <2>1, <2>5 DEF InBook
  <2>7. QED
    BY <1>3, <2>1, <2>2, <2>4, <2>6
<1>7. QED
  BY <1>4, <1>5, <1>6

\* No step breaks the books of a clean history.
LEMMA BooksStep == IInv /\ BooksInv /\ [Next]_vars => BooksInv'
<1> SUFFICES ASSUME IInv, BooksInv, [Next]_vars, Clean' PROVE InBook' /\ OutBook' /\ Kinds'
  BY DEF BooksInv
<1>0. CASE Reload
  BY <1>0 DEF Reload, InBook, OutBook, Kinds, ConfiguredEdges, InEdges, OutEdges, selectedTasks
<1> SUFFICES ASSUME ~Reload PROVE InBook' /\ OutBook' /\ Kinds'
  BY <1>0
<1>1. /\ InBook /\ OutBook /\ Kinds /\ EdgeInv /\ TypeOK
      /\ edges \subseteq Edge /\ DOMAIN data = Edge
  BY SlipsStay, Apart DEF BooksInv, Clean, CleanOf, IInv, TypeOK, CellsApart
<1>2. CASE FinishedSelectPort \/ FinishedInputOutMatch \/ TaskToOutConfirmedHandler
  BY <1>1, <1>2, BooksConfirmed
<1>3. ASSUME NEW e \in Edge, NEW s \in canvas, NEW t \in canvas, Connect(e, s, t)
      PROVE  InBook' /\ OutBook' /\ Kinds'
  <2>1. e \notin edges /\ ~Configured(e)
    BY <1>1, <1>3 DEF Connect, TypeOK, EdgeInv
  <2>2. /\ UNCHANGED <<loadNr, availIn, availOut, inSettings, outSettings, data>> /\ edges' = edges \cup {e}
        /\ source' = [source EXCEPT ![e] = s] /\ target' = [target EXCEPT ![e] = t]
    BY <1>3 DEF Connect, books
  <2>3. QED
    BY <1>1, <2>1, <2>2, BooksFrame DEF ConfiguredEdges, Configured, TypeOK
<1>4. ASSUME NEW e \in Edge, NEW s \in canvas, NEW t \in canvas, MoveEnd(e, s, t)
      PROVE  InBook' /\ OutBook' /\ Kinds'
  <2>1. ~Configured(e)
    BY <1>4 DEF MoveEnd, Slips, When, Clean, CleanOf, Configured
  <2>2. /\ UNCHANGED <<loadNr, availIn, availOut, inSettings, outSettings, data, edges>>
        /\ source' = [source EXCEPT ![e] = s] /\ target' = [target EXCEPT ![e] = t]
    BY <1>4 DEF MoveEnd, books
  <2>3. QED
    BY <1>1, <2>1, <2>2, BooksFrame DEF ConfiguredEdges, Configured, TypeOK
<1>5. CASE CancelSelectPort
  <2>1. ~Configured(selected)
    BY <1>1, <1>5 DEF CancelSelectPort, EdgeInv
  <2>2. UNCHANGED <<loadNr, availIn, availOut, inSettings, outSettings>> /\ RemoveEdges({selected})
    BY <1>5 DEF CancelSelectPort, books
  <2>3. QED
    BY <1>1, <2>1, <2>2, BooksFrame DEF RemoveEdges, ConfiguredEdges, Configured
<1>6. ASSUME NEW e \in Edge, DeleteEdge(e) PROVE InBook' /\ OutBook' /\ Kinds'
  BY <1>1, <1>6, BooksWithoutEdge
<1>7. ASSUME NEW v \in Vertex, DeleteVertex(v) PROVE InBook' /\ OutBook' /\ Kinds'
  BY <1>1, <1>7, BooksDeleted
<1>8. CASE PortsAnswered
  BY <1>1, <1>8, BooksEntered
<1>9. CASE UNCHANGED <<loadNr, availIn, availOut, inSettings, outSettings, edges, source, target, data>>
  BY <1>1, <1>9, BooksFrame DEF ConfiguredEdges, Configured
<1>10. QED
  BY <1>2, <1>3, <1>4, <1>5, <1>6, <1>7, <1>8, <1>9
  DEF Next, vars, drawing, books, Drop, Select, Choose, CancelInputOutMatch, TaskToOutputCancelHandler, CloseDialog,
      RunWithSave, SaveAnswered, RunAnswered, ShowOutput, OutputAnswered, RequestFails

\* The books are right in all states of a clean history.
LEMMA BooksInvariance == Spec => []BooksInv
<1>1. Init => BooksInv
  BY DEF Init, BooksInv, InBook, OutBook, Kinds, ConfiguredEdges, InEdges, OutEdges, selectedTasks
<1>2. QED
  BY <1>1, BooksStep, Invariance, PTL DEF Spec

(***************************************************************************)
(* On a page without slips the input ports that are available are those    *)
(* that no edge has been given, and no port is given twice.                *)
(***************************************************************************)
THEOREM InputPortsInOrder == Spec => []InputBooks
<1>1. IInv /\ BooksInv => InputBooks
  <2> SUFFICES ASSUME IInv, Clean, InBook, NEW t \in selectedTasks
               PROVE  LET into == {e \in edges : target[e] = t /\ data[e] # NoData}
                      IN  /\ availIn[t] = inPorts[t] \ {data[e].in : e \in into}
                          /\ \A e, f \in into : data[e].in = data[f].in => e = f
    BY DEF BooksInv, InputBooks, Clean
  <2>1. {e \in edges : target[e] = t /\ data[e] # NoData} = {e \in InEdges : target[e] = t}
    BY DEF InEdges, ConfiguredEdges, Configured, selectedTasks
  <2>2. /\ \A e \in InEdges : target[e] = t => data[e].in \in inPorts[t] \ availIn[t]
        /\ \A e, f \in InEdges : target[e] = t /\ target[f] = t /\ data[e].in = data[f].in => e = f
        /\ availIn[t] \subseteq inPorts[t]
        /\ \A p \in inPorts[t] \ availIn[t] : \E e \in InEdges : target[e] = t /\ data[e].in = p
    BY DEF InBook
  <2>3. availIn[t] = inPorts[t] \ {data[e].in : e \in {f \in InEdges : target[f] = t}}
    BY <2>2
  <2>4. QED
    BY <2>1, <2>2, <2>3
<1>2. QED
  BY <1>1, Invariance, BooksInvariance, PTL

\* On such a page no output port is given twice, nor offered once it is given.
THEOREM OutputPortsInOrder == Spec => []OutputBooks
<1>1. BooksInv => OutputBooks
  BY DEF BooksInv, OutputBooks, OutBook, OutEdges, ConfiguredEdges, Configured, Clean, selectedTasks
<1>2. QED
  BY <1>1, BooksInvariance, PTL

(***************************************************************************)
(* Under the overlay the user can change nothing.  Most handlers test it,  *)
(* those of the dialogs need PageInv: there is no dialog under an overlay. *)
(***************************************************************************)
LEMMA CoveredStep ==
  ASSUME IInv, Next, overlay # "none"
  PROVE  \/ /\ UNCHANGED <<drawing, selected, dialog, choice>>
            /\ overlay' = "stuck" => overlay = "stuck" \/ "requestFailed" \in slips'
         \/ Reload
<1>1. dialog = "none"
  BY DEF IInv, PageInv
<1>2. ~\E v \in Vertex : Drop(v) \/ DeleteVertex(v)
  BY DEF Drop, DeleteVertex, Free
<1>3. ~\E c \in canvas \cup edges \cup {Nothing} : Select(c)
  BY DEF Select, Free
<1>4. ~\E e \in Edge, s, t \in canvas : Connect(e, s, t) \/ MoveEnd(e, s, t)
  BY DEF Connect, MoveEnd, Free
<1>5. ~\E field \in DOMAIN NoChoice, p \in Port : Choose(field, p)
  BY <1>1 DEF Choose, NoChoice
<1>6. ~(FinishedSelectPort \/ FinishedInputOutMatch \/ TaskToOutConfirmedHandler)
  BY <1>1 DEF FinishedSelectPort, FinishedInputOutMatch, TaskToOutConfirmedHandler, Confirm
<1>7. ~(CancelSelectPort \/ CancelInputOutMatch \/ TaskToOutputCancelHandler \/ CloseDialog)
  BY <1>1 DEF CancelSelectPort, CancelInputOutMatch, TaskToOutputCancelHandler, CloseDialog
<1>8. ~(\E e \in Edge : DeleteEdge(e)) /\ ~RunWithSave /\ ~ShowOutput
  BY DEF DeleteEdge, RunWithSave, ShowOutput, Free
<1>9. CASE PortsAnswered \/ SaveAnswered \/ RunAnswered \/ OutputAnswered
  BY <1>9 DEF PortsAnswered, SaveAnswered, RunAnswered, OutputAnswered, Closes
<1>10. CASE RequestFails
  BY <1>10 DEF RequestFails, Slips
<1>11. QED
  BY <1>2, <1>3, <1>4, <1>5, <1>6, <1>7, <1>8, <1>9, <1>10 DEF Next

(***************************************************************************)
(* The diagram does not change between the click on run and the answer of  *)
(* the server, nor the selection while the ports of a task are asked for.  *)
(***************************************************************************)
THEOREM CoveredIsFrozen == Spec => CoveredPageIsFrozen
<1>1. IInv /\ [Next]_vars =>
        [overlay # "none" =>
           \/ /\ UNCHANGED <<drawing, selected, dialog, choice>>
              /\ overlay' = "stuck" => overlay = "stuck" \/ "requestFailed" \in slips'
           \/ Reload]_vars
  BY CoveredStep
<1>2. QED
  BY <1>1, Invariance, PTL DEF Spec, CoveredPageIsFrozen
=============================================================================
