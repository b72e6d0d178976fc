--------------------------- MODULE WorkflowPanel ---------------------------
(***************************************************************************)
(* The panel of the web bench on which a user draws a workflow (AppCanvas) *)
(* and the books it keeps about it.  The canvas holds inputs, tasks and    *)
(* outputs, and edges between them.  selectedTasks has a record for each   *)
(* task whose ports the server has told: the ports that are still          *)
(* available, and the settings, which say of a port which cell it is       *)
(* connected to.  A new edge is configured in a dialog that takes the      *)
(* ports from the records of the tasks at its ends.                        *)
(*                                                                         *)
(* A request to the server covers the page with an overlay until its       *)
(* answer closes it; a dialog leaves only its own buttons to be clicked.   *)
(***************************************************************************)
EXTENDS Integers, FiniteSets

CONSTANTS
  Input, Task, Output, \* what may be dropped on the canvas, each of them once
  FileLists,     \* the sets of them that the panel may list
  Port,          \* the names of ports
  inPorts,       \* the input ports in the specification of each task
  outPorts,      \* its output ports
  NoSpec,        \* tasks whose class, and so their specification, the server does not find
  Nothing,       \* no cell, no data
  NoPort,        \* the empty choice in a dialog
  MaxEdges,      \* bound on the edges drawn
  MaxSlips       \* bound on the kinds of slips, see below

Vertex == Input \cup Task \cup Output
Edge == 1 .. MaxEdges
Choice == Port \cup {NoPort}

ASSUME CellAssumption ==
  /\ Input \cap Task = {} /\ Input \cap Output = {} /\ Task \cap Output = {}
  /\ Vertex \cap Nat = {} /\ Nothing \notin Vertex \cup Nat \cup Choice /\ NoPort \notin Port
  /\ IsFiniteSet(Vertex)
  /\ inPorts \in [Task -> SUBSET Port] /\ outPorts \in [Task -> SUBSET Port]
  /\ FileLists \subseteq SUBSET Vertex /\ NoSpec \subseteq Task /\ MaxEdges \in Nat /\ MaxSlips \in Nat

VARIABLES
  fileList,   \* fileList, and the outputs
  dropped,    \* the vertices that have been dropped
  canvas,     \* those that are on the canvas
  drawn,      \* how many edges have been drawn
  edges,      \* the edges on the canvas
  source,     \* the ends of each edge
  target,
  data,       \* edge.data: the ports it has been given, or NoData
  selected,   \* the one of selectVertex and selectEdge that is not empty
  isInit,     \* the vertices whose data says that their ports were asked for
  asked,      \* the task whose ports are being asked for
  loadNr,     \* the place of the record of a task in selectedTasks, 0 if it has none
  recordOf,   \* the task whose specification is in the record of a task
  captured,   \* the tasks in the array that isValidConnection looks at
  shared,     \* whether selectedTasks still is that array
  availIn,    \* availableInputPorts
  availOut,   \* availableOutputPorts
  inSettings, \* inputPortsSetting of all records
  outSettings,\* outputPortsSetting of all records
  confirmed,  \* how many dialogs have been confirmed
  dialog,     \* the dialog that is open
  choice,     \* the ports chosen in the dialogs
  overlay,    \* what the overlay waits for
  hasOutPut,  \* whether outputs may be looked at
  slips       \* history: what went wrong, as far as properties depend on it

drawing == <<fileList, dropped, canvas, drawn, edges, source, target, data>>
books == <<loadNr, recordOf, captured, shared, availIn, availOut, inSettings, outSettings, confirmed>>
waiting == <<asked, overlay, hasOutPut>>
vars == <<drawing, books, waiting, selected, isInit, dialog, choice, slips>>

NoData == [in |-> Nothing, out |-> Nothing]

(***************************************************************************)
(* A dialog is named after its handler.  confirmedInputName, matchedOutput *)
(* and taskToOutputConfirmedInputPort are the ports chosen in each; the    *)
(* dialog of two tasks has the field matchedInput for its second choice.   *)
(***************************************************************************)
Dialog == {"selectPort", "inputOutMatch", "taskToOut"}
NoChoice == [selectPort |-> NoPort, matchedOutput |-> NoPort, matchedInput |-> NoPort, taskToOut |-> NoPort]

(***************************************************************************)
(* What the books do not survive:                                          *)
(*   edgeDeleted    an edge is deleted, which gives back a port            *)
(*   endMoved       the end of a configured edge is moved to another cell  *)
(*   badChoice      a dialog is confirmed with no port chosen, or closed   *)
(*                  with one, which the next dialog starts from            *)
(*   pairDeleted    a cell is deleted to which a task has two ports set    *)
(*   taskDeleted    a task is deleted                                      *)
(*   requestFailed  a request is not answered, or not as it should be      *)
(***************************************************************************)
Slip == {"edgeDeleted", "endMoved", "badChoice", "pairDeleted", "taskDeleted", "requestFailed"}

Slips(new) ==
  /\ slips' = slips \cup new
  /\ Cardinality(slips') <= MaxSlips

When(condition, slip) == IF condition THEN {slip} ELSE {}

Init ==
  /\ fileList \in FileLists
  /\ dropped = {} /\ canvas = {}
  /\ drawn = 0 /\ edges = {}
  /\ source = [e \in Edge |-> Nothing] /\ target = [e \in Edge |-> Nothing]
  /\ data = [e \in Edge |-> NoData]
  /\ selected = Nothing /\ isInit = {} /\ asked = Nothing
  /\ loadNr = [t \in Task |-> 0] /\ recordOf = [t \in Task |-> Nothing]
  /\ captured = {} /\ shared = TRUE
  /\ availIn = [t \in Task |-> {}] /\ availOut = [t \in Task |-> {}]
  /\ inSettings = {} /\ outSettings = {} /\ confirmed = 0
  /\ dialog = "none" /\ choice = NoChoice
  /\ overlay = "none" /\ hasOutPut = FALSE
  /\ slips = {}

-----------------------------------------------------------------------------
selectedTasks == {t \in Task : loadNr[t] > 0}

\* A mutant: the page can be used while the server is asked.
FreeOfDialogs == dialog = "none"

\* Neither an overlay nor a dialog is in the user's way.
Free == overlay = "none" /\ dialog = "none"

InputEdge(e) == source[e] \in Input /\ target[e] \in Task
Channel(e) == source[e] \in Task /\ target[e] \in Task
OutputEdge(e) == source[e] \in Task /\ target[e] \in Output

\* The dialog an unconfigured edge opens; a missing record is a TypeError, and no dialog opens.
DialogOf(e) ==
  CASE InputEdge(e) /\ target[e] \in selectedTasks -> "selectPort"
    [] Channel(e) /\ {source[e], target[e]} \subseteq selectedTasks -> "inputOutMatch"
    [] OutputEdge(e) /\ source[e] \in selectedTasks -> "taskToOut"
    [] OTHER -> "none"

(***************************************************************************)
(* handleSelectionChange, for the cell that is selected now: a task that   *)
(* was never selected has its ports asked for; an edge without data opens  *)
(* its dialog.                                                             *)
(***************************************************************************)
HandleSelectionChange(c) ==
  /\ selected' = c
  /\ isInit' = isInit \cup ({c} \cap Vertex)
  /\ IF c \in Task \ isInit THEN asked' = c /\ overlay' = "ports" ELSE UNCHANGED <<asked, overlay>>
  /\ dialog' = IF c \in Edge /\ data'[c] = NoData THEN DialogOf(c)' ELSE "none"

\* Zt: what is dropped on the canvas is selected.
Drop(v) ==
  /\ Free /\ v \in fileList \ dropped
  /\ dropped' = dropped \cup {v} /\ canvas' = canvas \cup {v}
  /\ UNCHANGED <<fileList, drawn, edges, source, target, data, books, hasOutPut, choice, slips>>
  /\ HandleSelectionChange(v)

\* A click on a cell, or beside all of them.
Select(c) ==
  /\ Free /\ c \in (canvas \cup edges \cup {Nothing}) \ {selected}
  /\ UNCHANGED <<drawing, books, hasOutPut, choice, slips>>
  /\ HandleSelectionChange(c)

-----------------------------------------------------------------------------
\* A mutant: a task takes one input only.
IsValidConnectionOnce(s, t) ==
  /\ s # t
  /\ s \in Input => t \in captured /\ availIn[t] = inPorts[t]
  /\ s \in Task => t \notin Input

(***************************************************************************)
(* isValidConnection, as mxGraph asks it: no loops.  The record of the     *)
(* target is looked up in the array that selectedTasks was when the panel  *)
(* was mounted; if it is not there the connection fails with a TypeError.  *)
(***************************************************************************)
IsValidConnection(s, t) ==
  /\ s # t
  /\ s \in Input => t \in captured /\ availIn[t] # {}
  /\ s \in Task => t \notin Input

\* Edges leave the canvas; nothing refers to them any more.
RemoveEdges(gone) ==
  LET keep(f, null) == [e \in Edge |-> IF e \in gone THEN null ELSE f[e]]
  IN  /\ edges' = edges \ gone
      /\ source' = keep(source, Nothing)
      /\ target' = keep(target, Nothing)
      /\ data' = keep(data, NoData)

\* A new edge is selected.
Connect(e, s, t) ==
  /\ Free /\ e = drawn + 1
  /\ {s, t} \subseteq canvas /\ IsValidConnection(s, t)
  /\ drawn' = e /\ edges' = edges \cup {e}
  /\ source' = [source EXCEPT ![e] = s]
  /\ target' = [target EXCEPT ![e] = t]
  /\ UNCHANGED <<fileList, dropped, canvas, data, books, hasOutPut, choice, slips>>
  /\ HandleSelectionChange(e)

\* An end of the selected edge is dragged to another cell: nothing is told to the books.
MoveEnd(e, s, t) ==
  /\ Free /\ selected = e /\ e \in edges
  /\ {s, t} \subseteq canvas /\ IsValidConnection(s, t)
  /\ (source[e] = s) # (target[e] = t)
  /\ source' = [source EXCEPT ![e] = s]
  /\ target' = [target EXCEPT ![e] = t]
  /\ Slips(When(data[e] # NoData, "endMoved"))
  /\ UNCHANGED <<fileList, dropped, canvas, drawn, edges, data, books, waiting, selected, isInit, dialog, choice>>

-----------------------------------------------------------------------------
Setting(t, c, p) == [task |-> t, peer |-> c, port |-> p, nr |-> confirmed + 1]

\* The ports a dialog offers for each of its choices.
Offered(field) ==
  IF field \in {"selectPort", "matchedOutput"} THEN availIn[target[selected]] ELSE availOut[source[selected]]

Choose(field, p) ==
  /\ IF dialog = "inputOutMatch" THEN field \in {"matchedInput", "matchedOutput"} ELSE field = dialog
  /\ p \in Offered(field) /\ choice' = [choice EXCEPT ![field] = p]
  /\ UNCHANGED <<drawing, books, waiting, selected, isInit, dialog, slips>>

\* The input port chosen is taken from the task, and the setting kept.
TakeIn(p) ==
  LET t == target[selected]
  IN  /\ availIn' = [availIn EXCEPT ![t] = @ \ {p}]
      /\ inSettings' = inSettings \cup {Setting(t, source[selected], p)}

\* A mutant: an output port may be taken again.
TakeOutAgain(p) ==
  /\ UNCHANGED availOut
  /\ outSettings' = outSettings \cup {Setting(source[selected], target[selected], p)}

(***************************************************************************)
(* The filter of the output ports returns nothing for the ports that were  *)
(* not chosen, so it keeps none of them.                                   *)
(***************************************************************************)
TakeOut(p) ==
  LET t == source[selected]
  IN  /\ availOut' = [availOut EXCEPT ![t] = {}]
      /\ outSettings' = outSettings \cup {Setting(t, target[selected], p)}

\* What the three handlers of the OK buttons have in common.
Confirm(handler, ports, fields) ==
  /\ dialog = handler /\ dialog' = "none"
  /\ data' = [data EXCEPT ![selected] = ports]
  /\ choice' = [f \in DOMAIN choice |-> IF f \in fields THEN NoPort ELSE choice[f]]
  /\ confirmed' = confirmed + 1
  /\ Slips(When(\E f \in fields : choice[f] \notin Offered(f), "badChoice"))
  /\ UNCHANGED <<fileList, dropped, canvas, drawn, edges, source, target, loadNr, recordOf, captured, shared,
                 waiting, selected, isInit>>

FinishedSelectPort ==
  /\ Confirm("selectPort", [in |-> choice.selectPort, out |-> Nothing], {"selectPort"})
  /\ TakeIn(choice.selectPort)
  /\ UNCHANGED <<availOut, outSettings>>

\* A mutant: matchedInput, the output port of the source, is taken for an input port.
FinishedInputOutMatchSwapped ==
  /\ Confirm("inputOutMatch", [in |-> choice.matchedOutput, out |-> choice.matchedInput],
             {"matchedInput", "matchedOutput"})
  /\ TakeIn(choice.matchedInput)
  /\ TakeOut(choice.matchedOutput)

FinishedInputOutMatch ==
  /\ Confirm("inputOutMatch", [in |-> choice.matchedOutput, out |-> choice.matchedInput],
             {"matchedInput", "matchedOutput"})
  /\ TakeIn(choice.matchedOutput)
  /\ TakeOut(choice.matchedInput)

TaskToOutConfirmedHandler ==
  /\ Confirm("taskToOut", [in |-> Nothing, out |-> choice.taskToOut], {"taskToOut"})
  /\ TakeOut(choice.taskToOut)
  /\ UNCHANGED <<availIn, inSettings>>

\* A mutant: the edge that is gone is still selected.
CancelSelectPortSelected ==
  /\ dialog = "selectPort" /\ dialog' = "none"
  /\ RemoveEdges({selected})
  /\ choice' = [choice EXCEPT !.selectPort = NoPort]
  /\ UNCHANGED <<fileList, dropped, canvas, drawn, books, waiting, selected, isInit, slips>>

\* The cancel button of the first dialog deletes the edge.
CancelSelectPort ==
  /\ dialog = "selectPort" /\ dialog' = "none"
  /\ RemoveEdges({selected}) /\ selected' = Nothing
  /\ choice' = [choice EXCEPT !.selectPort = NoPort]
  /\ UNCHANGED <<fileList, dropped, canvas, drawn, books, waiting, isInit, slips>>

\* The others leave it on the canvas, without data.
CancelInputOutMatch ==
  /\ dialog = "inputOutMatch" /\ dialog' = "none"
  /\ choice' = [choice EXCEPT !.matchedInput = NoPort, !.matchedOutput = NoPort]
  /\ UNCHANGED <<drawing, books, waiting, selected, isInit, slips>>

TaskToOutputCancelHandler ==
  /\ dialog = "taskToOut" /\ dialog' = "none"
  /\ choice' = [choice EXCEPT !.taskToOut = NoPort]
  /\ UNCHANGED <<drawing, books, waiting, selected, isInit, slips>>

\* A dialog that is closed by its cross keeps what was chosen in it.
CloseDialog ==
  /\ dialog # "none" /\ dialog' = "none"
  /\ Slips(When(choice # NoChoice, "badChoice"))
  /\ UNCHANGED <<drawing, books, waiting, selected, isInit, choice>>

-----------------------------------------------------------------------------
(***************************************************************************)
(* del, for an edge: the first setting with the cell at the other end is   *)
(* looked up, its port is available again, and the setting stays.  It is a *)
(* TypeError if there is none or its port is not one of the task's; the    *)
(* edge then stays too.                                                    *)
(***************************************************************************)
Of(settings, t, c) == {s \in settings : s.task = t /\ s.peer = c}
FirstPort(S) == (CHOOSE s \in S : \A r \in S : s.nr <= r.nr).port
LastPort(S) == (CHOOSE s \in S : \A r \in S : r.nr <= s.nr).port

Fails(settings, ports, t, c) ==
  /\ t \in selectedTasks
  /\ Of(settings, t, c) = {} \/ FirstPort(Of(settings, t, c)) \notin ports[t]

GiveBack(avail, settings, t, c) ==
  [avail EXCEPT ![t] = IF t \in selectedTasks THEN @ \cup {FirstPort(Of(settings, t, c))} ELSE @]

DeleteEdge(e) ==
  LET s == source[e]
      t == target[e]
      gaveOut == ~InputEdge(e) /\ s \in Task /\ ~Fails(outSettings, outPorts, s, t)
      tryIn == InputEdge(e) \/ (Channel(e) /\ gaveOut)
      gaveIn == tryIn /\ ~Fails(inSettings, inPorts, t, s)
      done == CASE InputEdge(e) \/ Channel(e) -> gaveIn [] OutputEdge(e) -> gaveOut [] OTHER -> TRUE
  IN  /\ Free /\ selected = e /\ e \in edges
      /\ availOut' = IF gaveOut THEN GiveBack(availOut, outSettings, s, t) ELSE availOut
      /\ availIn' = IF gaveIn THEN GiveBack(availIn, inSettings, t, s) ELSE availIn
      /\ RemoveEdges(IF done THEN {e} ELSE {})
      /\ selected' = IF done THEN Nothing ELSE e
      /\ Slips(When((gaveOut /\ s \in selectedTasks) \/ (gaveIn /\ t \in selectedTasks), "edgeDeleted"))
      /\ UNCHANGED <<fileList, dropped, canvas, drawn, loadNr, recordOf, captured, shared,
                     inSettings, outSettings, confirmed, waiting, isInit, dialog, choice>>

(***************************************************************************)
(* del, for a vertex: each record, one after the other, loses its settings *)
(* with that cell and gets the port of the last of them back.  If that is  *)
(* not a port of the task it is a TypeError, which leaves the records      *)
(* after it as they were, and the cell on the canvas.                      *)
(***************************************************************************)
Throws(settings, ports, t, v) ==
  /\ t \in selectedTasks /\ Of(settings, t, v) # {}
  /\ LastPort(Of(settings, t, v)) \notin ports[t] \cup {NoPort}

Reached(settings, ports, v) ==
  {t \in selectedTasks : \A u \in selectedTasks : Throws(settings, ports, u, v) => loadNr[t] <= loadNr[u]}

\* Mutants: a record keeps the settings with a cell that is gone, or does not get its port back.
WithoutNothing(settings, ports, v) == settings
FreedNothing(avail, settings, ports, v) == avail

Without(settings, ports, v) == {s \in settings : s.peer # v \/ s.task \notin Reached(settings, ports, v)}

Freed(avail, settings, ports, v) ==
  [t \in Task |-> IF t \in Reached(settings, ports, v) /\ Of(settings, t, v) # {}
                  THEN avail[t] \cup ({LastPort(Of(settings, t, v))} \cap ports[t])
                  ELSE avail[t]]

HasPair(v) ==
  \E t \in selectedTasks : \/ \E r, s \in Of(inSettings, t, v) : r # s
                           \/ \E r, s \in Of(outSettings, t, v) : r # s

\* removeCells takes the edges of the vertex with it.
DeleteVertex(v) ==
  LET passIn == v \notin Output
      stopIn == passIn /\ \E t \in Task : Throws(inSettings, inPorts, t, v)
      passOut == v \notin Input /\ ~stopIn
      stopOut == passOut /\ \E t \in Task : Throws(outSettings, outPorts, t, v)
      done == ~stopIn /\ ~stopOut
      own == done /\ v \in Task
      kept(settings) == IF own THEN {s \in settings : s.task # v} ELSE settings
      freed(avail) == IF own THEN [avail EXCEPT ![v] = {}] ELSE avail
  IN  /\ Free /\ selected = v /\ v \in canvas
      /\ inSettings' = kept(IF passIn THEN Without(inSettings, inPorts, v) ELSE inSettings)
      /\ outSettings' = kept(IF passOut THEN Without(outSettings, outPorts, v) ELSE outSettings)
      /\ availIn' = freed(IF passIn THEN Freed(availIn, inSettings, inPorts, v) ELSE availIn)
      /\ availOut' = freed(IF passOut THEN Freed(availOut, outSettings, outPorts, v) ELSE availOut)
      /\ loadNr' = IF own THEN [loadNr EXCEPT ![v] = 0] ELSE loadNr
      /\ recordOf' = IF own THEN [recordOf EXCEPT ![v] = Nothing] ELSE recordOf
      /\ shared' = (shared /\ ~own)
      /\ hasOutPut' = (hasOutPut /\ ~(v \in Output /\ done))
      /\ canvas' = IF done THEN canvas \ {v} ELSE canvas
      /\ RemoveEdges(IF done THEN {e \in edges : v \in {source[e], target[e]}} ELSE {})
      /\ selected' = IF done THEN Nothing ELSE v
      /\ Slips(When(own, "taskDeleted") \cup When(HasPair(v), "pairDeleted"))
      /\ UNCHANGED <<fileList, dropped, drawn, captured, confirmed,
                     asked, overlay, isInit, dialog, choice>>

-----------------------------------------------------------------------------
\* A mutant: an answer without a specification throws before the overlay is closed.
ClosesIfFound(kind) == overlay = kind /\ overlay' = IF asked \in NoSpec THEN "stuck" ELSE "none"

Closes(kind) == overlay = kind /\ overlay' = "none"

\* The answer to getPortsNumber; it is entered for the vertex that is selected when it comes.
PortsAnswered ==
  /\ Closes("ports") /\ asked' = Nothing
  /\ IF asked \in NoSpec
     THEN UNCHANGED books
     ELSE /\ loadNr' = [loadNr EXCEPT ![selected] = Cardinality(isInit \cap Task)]
          /\ recordOf' = [recordOf EXCEPT ![selected] = asked]
          /\ availIn' = [availIn EXCEPT ![selected] = inPorts[asked]]
          /\ availOut' = [availOut EXCEPT ![selected] = outPorts[asked]]
          /\ captured' = IF shared THEN captured \cup {selected} ELSE captured
          /\ UNCHANGED <<shared, inSettings, outSettings, confirmed>>
  /\ UNCHANGED <<drawing, selected, isInit, dialog, choice, hasOutPut, slips>>

\* runWithSave: the output of the last run is gone even if no name is given.
RunWithSave ==
  /\ Free /\ hasOutPut' = FALSE
  /\ overlay' \in {"none", "saving"}
  /\ UNCHANGED <<drawing, books, asked, selected, isInit, dialog, choice, slips>>

\* The answer to saveAs, whatever it is, starts the run.
SaveAnswered ==
  /\ overlay = "saving" /\ overlay' = "running"
  /\ UNCHANGED <<drawing, books, asked, hasOutPut, selected, isInit, dialog, choice, slips>>

(***************************************************************************)
(* serverRunWorkflows gets through ParseXML and design if each edge has    *)
(* the ports its kind needs, and through plan if there is neither a task   *)
(* whose class is not found nor a cycle.  addTask enters such a task as    *)
(* null, for which plan cannot make a TaskSchedule and throws.  The tasks  *)
(* of a cycle are either left out of the schedule, or on a path that plan  *)
(* follows for ever.                                                       *)
(***************************************************************************)
Ready(e) ==
  /\ InputEdge(e) \/ Channel(e) => data[e].in \in Port
  /\ OutputEdge(e) \/ Channel(e) => data[e].out \in Port

Acyclic ==
  \E rank \in [Task -> 1 .. Cardinality(Task)] :
    \A e \in edges : Channel(e) => rank[source[e]] < rank[target[e]]

Parses == \A e \in edges : Ready(e)
Loads == canvas \cap NoSpec = {}
Runnable == Parses /\ Loads /\ Acyclic

\* The run is over and its answer "0".
RunAnswered ==
  /\ Closes("running") /\ Parses /\ Loads /\ hasOutPut' = TRUE
  /\ UNCHANGED <<drawing, books, asked, selected, isInit, dialog, choice, slips>>

\* showNormalTypeSelect, for an output
ShowOutput ==
  /\ Free /\ selected \in Output /\ hasOutPut /\ overlay' = "output"
  /\ UNCHANGED <<drawing, books, asked, hasOutPut, selected, isInit, dialog, choice, slips>>

OutputAnswered ==
  /\ Closes("output")
  /\ UNCHANGED <<drawing, books, asked, hasOutPut, selected, isInit, dialog, choice, slips>>

\* A request that fails is logged, if at all: nothing closes its overlay any more.
RequestFails ==
  /\ overlay \in {"ports", "running", "saving", "output"} /\ overlay' = "stuck" /\ asked' = Nothing
  /\ Slips({"requestFailed"})
  /\ UNCHANGED <<drawing, books, hasOutPut, selected, isInit, dialog, choice>>

\* The page is loaded again, and mounted anew.
Reload ==
  /\ UNCHANGED fileList
  /\ dropped' = {} /\ canvas' = {}
  /\ drawn' = 0 /\ edges' = {}
  /\ source' = [e \in Edge |-> Nothing] /\ target' = [e \in Edge |-> Nothing]
  /\ data' = [e \in Edge |-> NoData]
  /\ selected' = Nothing /\ isInit' = {} /\ asked' = Nothing
  /\ loadNr' = [t \in Task |-> 0] /\ recordOf' = [t \in Task |-> Nothing]
  /\ captured' = {} /\ shared' = TRUE
  /\ availIn' = [t \in Task |-> {}] /\ availOut' = [t \in Task |-> {}]
  /\ inSettings' = {} /\ outSettings' = {} /\ confirmed' = 0
  /\ dialog' = "none" /\ choice' = NoChoice
  /\ overlay' = "none" /\ hasOutPut' = FALSE
  /\ slips' = {}

-----------------------------------------------------------------------------
Answer == PortsAnswered \/ SaveAnswered \/ (Acyclic /\ RunAnswered) \/ OutputAnswered

Next ==
  \/ \E v \in Vertex : Drop(v) \/ DeleteVertex(v)
  \/ \E c \in canvas \cup edges \cup {Nothing} : Select(c)
  \/ \E e \in Edge, s, t \in canvas : Connect(e, s, t) \/ MoveEnd(e, s, t)
  \/ \E field \in DOMAIN NoChoice, p \in Port : Choose(field, p)
  \/ FinishedSelectPort \/ FinishedInputOutMatch \/ TaskToOutConfirmedHandler
  \/ CancelSelectPort \/ CancelInputOutMatch \/ TaskToOutputCancelHandler \/ CloseDialog
  \/ \E e \in Edge : DeleteEdge(e)
  \/ RunWithSave \/ ShowOutput
  \/ PortsAnswered \/ SaveAnswered \/ RunAnswered \/ OutputAnswered \/ RequestFails
  \/ Reload

\* The server answers what it does not fail to answer.
Spec == Init /\ [][Next]_vars /\ WF_vars(Answer)

-----------------------------------------------------------------------------
(***************************************************************************)
(* The type invariant; also: what is selected is on the canvas, and no     *)
(* more dialogs are confirmed than edges drawn.                            *)
(***************************************************************************)
TypeOK ==
  /\ canvas \subseteq dropped /\ dropped \subseteq fileList /\ fileList \in FileLists
  /\ drawn \in 0 .. MaxEdges /\ edges \subseteq 1 .. drawn /\ confirmed \in 0 .. drawn
  /\ source \in [Edge -> Vertex \cup {Nothing}] /\ target \in [Edge -> Vertex \cup {Nothing}]
  /\ data \in [Edge -> [in : Choice \cup {Nothing}, out : Choice \cup {Nothing}]]
  /\ selected \in canvas \cup edges \cup {Nothing}
  /\ isInit \subseteq dropped
  /\ loadNr \in [Task -> 0 .. Cardinality(Task)] /\ recordOf \in [Task -> Task \cup {Nothing}]
  /\ captured \subseteq Task /\ shared \in BOOLEAN
  /\ availIn \in [Task -> SUBSET Port] /\ availOut \in [Task -> SUBSET Port]
  /\ inSettings \cup outSettings \subseteq [task : Task, peer : Vertex, port : Choice, nr : 1 .. MaxEdges]
  /\ dialog \in Dialog \cup {"none"} /\ choice \in [DOMAIN NoChoice -> Choice]
  /\ overlay \in {"none", "ports", "saving", "running", "output", "stuck"}
  /\ asked \in Task \cup {Nothing} /\ hasOutPut \in BOOLEAN
  /\ slips \subseteq Slip

CleanOf(S) == slips \cap S = {}

(***************************************************************************)
(* The input ports of a task that are available are those that no edge on  *)
(* the canvas has been given, and no port is given to two edges.  The      *)
(* books are kept by the handlers of three dialogs and by the deletion of  *)
(* cells; what they do not survive are the slips.                          *)
(***************************************************************************)
InputBooks ==
  CleanOf({"edgeDeleted", "endMoved", "badChoice", "pairDeleted"}) =>
    \A t \in selectedTasks :
      LET into == {e \in edges : target[e] = t /\ data[e] # NoData}
      IN  /\ availIn[t] = inPorts[t] \ {data[e].in : e \in into}
          /\ \A e, f \in into : data[e].in = data[f].in => e = f

(***************************************************************************)
(* No output port is given to two edges, nor available when it is given to *)
(* one (finishedInputOutMatch and taskToOutConfirmedHandler).  That the    *)
(* ports that are not given are available does not hold, see TakeOut.      *)
(***************************************************************************)
OutputBooks ==
  CleanOf({"edgeDeleted", "endMoved", "badChoice", "pairDeleted"}) =>
    \A t \in selectedTasks :
      LET from == {e \in edges : source[e] = t /\ data[e] # NoData}
      IN  /\ \A e \in from : data[e].out \in outPorts[t] \ availOut[t]
          /\ \A e, f \in from : data[e].out = data[f].out => e = f

(***************************************************************************)
(* However badly edges are chosen, moved and deleted: an input port that   *)
(* is not available is in a setting of its task, so that deleting the cell *)
(* of the setting brings it back (del), unless two settings have the cell. *)
(***************************************************************************)
NoInputLost ==
  CleanOf({"pairDeleted"}) =>
    \A t \in selectedTasks : inPorts[t] \ availIn[t] \subseteq {s.port : s \in {r \in inSettings : r.task = t}}

(***************************************************************************)
(* No setting survives its task or the cell it connects the task to,       *)
(* although the settings of a cell that is deleted are spread over the     *)
(* records of its neighbours (del).                                        *)
(***************************************************************************)
SettingsOnCanvas == \A s \in inSettings \cup outSettings : s.peer \in canvas /\ s.task \in selectedTasks

(***************************************************************************)
(* The ports that the server tells are entered in the record of the task   *)
(* they belong to, though the answer is entered for the vertex that is     *)
(* selected when it comes (getPortsNumber).                                *)
(***************************************************************************)
RecordsOfTheirTasks == \A t \in Task : recordOf[t] = IF t \in selectedTasks THEN t ELSE Nothing

(***************************************************************************)
(* A connection from an input is refused only if the task has no input     *)
(* port left, although isValidConnection looks at the array selectedTasks  *)
(* was when the panel was mounted; until a task is deleted, which replaces *)
(* the array.                                                              *)
(***************************************************************************)
RefusedOnlyWhenFull ==
  CleanOf({"taskDeleted"}) =>
    \A a \in Input \cap canvas, t \in selectedTasks : IsValidConnection(a, t) \/ availIn[t] = {}

(***************************************************************************)
(* While the overlay covers the page nothing is drawn, selected or chosen, *)
(* although the handlers of the dialogs do not look at the overlay: the    *)
(* diagram that runs is the one that was saved, and the ports that are     *)
(* told are those of the task on display.  The page can only be loaded     *)
(* again; and it gets stuck by a failed request only.                      *)
(***************************************************************************)
CoveredPageIsFrozen ==
  [][overlay # "none" =>
       \/ /\ UNCHANGED <<drawing, selected, dialog, choice>>
          /\ overlay' = "stuck" => overlay = "stuck" \/ "requestFailed" \in slips'
       \/ Reload]_vars

(***************************************************************************)
(* The overlay is taken from the page again, unless a request fails, or a  *)
(* workflow is run that the server cannot run.                             *)
(***************************************************************************)
OverlayEnds ==
  (overlay \in {"ports", "output"} \/ (overlay \in {"saving", "running"} /\ Runnable))
    ~> (overlay = "none" \/ "requestFailed" \in slips)
=============================================================================
