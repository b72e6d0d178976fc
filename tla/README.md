# Formal models of DATAVIEW

DATAVIEW is a scientific-workflow system in Java. A user draws a workflow in the
browser; the web bench translates the drawing into a graph of tasks, a planner
distributes the tasks over virtual machines, and an executor runs them, either as
threads of the server or on EC2 instances. This directory holds TLA+ models of the
parts in which the order of events matters, the TLC runs that check them on small
instances, and theorems that TLAPS proves for instances of any size.

    tlc -config MCLocalDiamond.cfg MCLocalDiamond     # a run
    tlapm LocalExecutor_proofs.tla                    # the proofs

`PROJECT.json` lists components, runs, mutants, the lines each definition models,
findings, hazards and theorems.

## 1. The system

Paths are relative to `src/src/`.

| Part | State it keeps | Operations | Talks to |
|---|---|---|---|
| **Workflow graph** (`dataview/models/Workflow, Task, WorkflowEdge, TaskSchedule, *DataChannel`) | the tasks, the edges, the input and output ports of each task | `addTask`, `addEdge`, the pattern builders, `getTaskSchedule`, `getParents`, `getChildren` | read by planners and executors |
| **Planners** (`dataview/planners`) | an adjacency list they consume; ICPCP, LPOD and Random also static lists of VMs and task times | `plan()` | produce a `GlobalSchedule` |
| **Schedules** (`GlobalSchedule`, `LocalSchedule`) | for each VM the list of its tasks, its type and address | `addLocalSchedule`, `setIP`, `completeIPAssignment` | read by the executors |
| **Local executor** (`WorkflowExecutor_Local`) | a thread, a lock, a condition and a counter of unfinished parents for each task; a static count of tasks | `execute()`; per thread `run`, `onParentFinished`, `wakeUp` | Dropbox, the task classes |
| **Cloud executor** (`WorkflowExecutor_Beta`) | a thread for each local schedule; counters of unfinished parents; the count of tasks and the list of specifications for the record | `init()`, `execute()`, `recordProvenance`, `writeToWorklfowMetaConfiguration` | task executors over TCP; AWS |
| **Task executor** (`TaskExecutor_Beta`, `MSGClient`, `MoveDataToCloud`, `CmdLineDriver`) | a server socket on port 2004 and one connection at a time; the files on the VM | accept, execute, move the outputs, answer | the cloud executor; other VMs by sftp |
| **VM provisioning** (`VMProvisionerAWS`, `MoveToCloud`, `MakeMachinesReady`) | none of its own: the instances of the AWS account | count, launch, wait, restart the task executors | AWS, ssh |
| **User table** (`ReadAndWrite`, `User`, `usermgmt`, `com/bohan/controller/users`) | `users.table`, and `users.table.bak` during a write | login, signup, resetPassword, updateUserInformation, read and write of a token or key | servlet threads |
| **Web bench back end** (`Mediator`, `GenericWorkflow`) | static fields: current user, folders, token, mapping of outputs; the diagrams saved on disk and in Dropbox | one method for each request: `initializeUserFolder`, `saveAs`, `serverRunWorkflows`, `getInputData`, ... | all of the above; Dropbox |
| **Panel of the web bench** (`AppCanvas`, in `../workbench/static/js`) | the drawing, the record of available ports and settings of each task, dialogs, overlay | drop, connect, configure, move and delete; save and run | `Mediator`, by requests whose answers it waits for under an overlay |
| **Translation of diagrams** (`MXGraphToSWLTranslator`, `ParseXMLUtil`) | none | XML to XML | called by `Mediator` |
| **Provenance and meta configuration** (`Provenance*`, end of `WorkflowExecutor_Beta`) | files with running averages of execution and transfer times | record, update | read by planners |
| **JSON, data types, relational algebra, examples, logging, drawing** | local data | sequential computations, input and output | |

### What is hard here

* **Threads that share memory without a common lock.** Both executors decrement
  counters that belong to other threads, test conditions before they take the lock
  they will wait on, and have "synchronized" blocks on objects that are different for
  each thread. Section 4 shows which of these races are harmless and which are not.
* **A protocol over TCP without timeouts**, whose server handles one connection at a
  time, may be killed by another workflow, and answers a task only if it does not throw.
* **A file used as a database by servlet threads**, with locks that do not cover what
  they should and a backup that is there to survive a crash.
* **Static fields** shared by requests and by runs that are meant to be independent.
* **Books kept by event handlers.** The panel records in three places which port of a task
  is connected to what: on the edge, in the ports that are available, and in a list of
  settings. Three dialogs write them and the deletion of cells undoes them, partly, and may throw halfway.
* **Assumptions between components**: an executor thread blocks for ever on a local
  schedule in which a task comes before its parent, and the planners do not all avoid that.

### What makes each component correct

* Graph: `getParents` and the outgoing channels of a task describe the same edges,
  with an entry for each edge, not for each neighbour.
* Planners: each task in exactly one place; the orders of the local schedules and the
  edges together have no cycle; the second plan does not depend on the first.
* Executors: a task starts at most once and only after all its parents have completed;
  what is reported or recorded at the end is recorded at the end; without failures
  every task is executed; a failure stops its descendants and nothing else.
* Task executor: at most one execution for each submission; an answer only after the
  execution and the transfers; nobody waits for ever; what is answered is true.
* Provisioning: every local schedule gets a running VM of its type, of its own.
* User table: each user has one record; a request changes only the record of its user;
  a request that overlaps another, or a crash, loses no user.
* Mediator: a request works with the user, folder and token it was sent with; a run
  executes the diagram that was drawn; what is saved is not replaced.
* Panel: a port is available if and only if no edge has been given it; nothing refers to a cell that is
  gone; an answer is entered for the task it is about; the overlay goes away.
* Meta configuration: an average of all runs, for each task and edge.

## 2. The plan

| # | Modules | Contents | State |
|---|---|---|---|
| 1 | `WorkflowGraph`, `Dataflow`, `Dataflow_proofs`, `LocalExecutor`, `LocalExecutor_proofs` | the graph, what every executor promises, the local executor and the proof that it keeps the promise | checked and proved |
| 2 | `BetaExecutor`, `BetaExecutor_proofs` | the cloud executor against the same promise | checked and proved |
| 3 | `RemoteCall`, `TaskExecutor`, `TaskExecutor_proofs` | what a submission promises, the task executor and its clients | checked and proved |
| 4 | `UserTable`, `UserTable_proofs` | the table of users under concurrency and crashes | checked and proved |
| 5 | `WorkflowPanel`, `WorkflowPanel_proofs` | the panel on which workflows are drawn, its books and its requests | checked and proved |
| 6 | `Mediator`, `Mediator_proofs` | the static fields of the servlet and of the executors under the requests of several users, and the saved diagrams | checked and proved |

`Dataflow` is implemented by both executors; `RemoteCall` by `TaskExecutor`, and it is
what the steps `Submit`, `Answered`, `SubmissionFails` and `VMHangs` of `BetaExecutor`
abstract from. The requests of `Mediator` are those that the panel sends: `RunWithSave` and
`SaveAnswered` of `WorkflowPanel` are the two halves of a job "run" of `Mediator`, and `Reload` during
a request is what makes two jobs of one user overlap there. From `Mediator.Execute` to `Join` it is `LocalExecutor` that runs.
The planners, provisioning, the translation of diagrams and the contents of the meta
configuration are not modelled; section 6 says why.

## 3. The modules

### WorkflowGraph
The graph as the executors see it after `Workflow.getTaskSchedule`: numbered channels
(edges) with `srcTask` and `destTask`, of which one may be `NoTask` for an input or
output of the workflow. `In(t)` and `Out(t)` are its channels from and to tasks. Two
channels may join the same pair of tasks (two ports); then `getParents` has the parent
twice and the parent notifies the child twice, which the counters rely on. The graph
is given by constants and assumed well formed; a cycle is not excluded, since nothing
in the code does so and no safety property depends on it.

### Dataflow
One variable, the status of each task, and the steps Begin, Complete and Fail. Begin
requires that all parents have completed. `FailuresContained` is what this gives, proved once in
`Dataflow_proofs` and carried over to both executors by their refinements.

### LocalExecutor
`pc[t]` is the place of the thread of task `t` in `TaskRun.run` and in what it calls;
each access to a shared variable that is not covered by a lock common to all who
access it is a step. So `--predecessors` is `ReadPredecessors` and
`WritePredecessors`, `taskNum--` is `ReadTaskNum` and `WriteTaskNum` (its monitor is
that of the thread itself), and `isReady()`, `lock()` and `await()` are separate. `owner[t]` is
the lock of task `t`, which its parents take to signal. `todo` is what is left of the loop
over the children, visited in the order of the channels. `Return` is the end of
`execute()`, after all joins. Spurious wakeups of `await` are bounded by `MaxSpurious`.
Left out: the class loader, reading and writing of files, and Dropbox, all of which happen in
the step `TaskSucceeds` or end in `TaskThrows`.

### BetaExecutor
A thread for each local schedule, `pos[s]` its current task. `Submit` stands for moving
the class and data files and for `MSGClient.send`; then the answer arrives (`Answered`),
fails (`SubmissionFails`: an exception or an empty answer, whose parse gives null), or never
comes (`VMHangs`). `taskSpecObj` is an unsynchronized `ArrayList`, of which `entry` keeps what became of
each task's element: an `add` that overlaps another (`BeginAdd`, `EndAdd`) may enter it, lose it or
leave a null where the array grows, or find itself out of bounds (`AddThrows`), after which the task is
completed but neither counted nor its children notified. `Record` writes the
provenance and may throw. The exception handler is inside the loop: the thread goes on with
its next task. `init()` is not part of the module; the local schedules are constants
(`PlanAssumption`).

### RemoteCall and TaskExecutor
`RemoteCall` is a call with at-most-once semantics. In `TaskExecutor` the clients are
submissions, each with its own `MSGClient`; the server is the loop of
`TaskExecutor_Beta.run`. The two ends exchange stream headers (both create the output
stream first, so that neither constructor of an input stream blocks for ever) and then
one message each. A connection that is left open after a task has thrown is closed when
its socket is garbage collected, which may happen but need not (`Collect`). `Kill` and
`Restart` are `MoveToCloud.getCodeReady` of another workflow. A transfer may fail; nobody
is told.

### UserTable
Files are inodes, so that a request that has a file open keeps it when the path is deleted
or replaced. A lock is refused, by an exception, when any request of the same JVM holds
one for the file. `write` is taken apart into copy, lock of the backup, read, delete and
substitute, create, fill, and delete of the backup; signup into test, newline and one write for each of
the seven columns; the two updates into read, truncate and overwrite. A line of a user has a number of
columns, a password and a token; the token column stands for the token and the two keys, which are handled
alike, and counts how often it has been encrypted. A line that has no second column is `Blank`. A file is
emptied when it is opened for writing, and the content is written at its beginning later: what another
request has put there in between is written over, and if it was longer, its tail stays (`Overwritten`).
Columns go on with the line an append has begun, unless somebody else has changed the end of the file
(`WithColumn`). What is put together by such accidents is `Torn`, a line of which nothing is known:
whoever reads it may take it for a blank line, another's line, or a short or long one of the user (`Seen`).

There are two history variables. `known`: as long as no two requests have overlapped, nothing has crashed
and no blank line has been written (`Calm`), it is the set of records there should be. `apart`: no `save`,
`reset` or `update` has overlapped another request that writes.

### WorkflowPanel
The panel is minified JavaScript in one line (`workbench/static/js/login.3fcdc7d3.js`); the
definitions carry the names of its handlers. The canvas is `canvas`, `edges`, `source`,
`target`; `data[e]` is what a dialog has written on the edge. A record of `selectedTasks` is
spread over functions of the task: `loadNr` (its place in the array), `recordOf`, `availIn`,
`availOut`, and its settings, which `inSettings` and `outSettings` hold for all records. One
action stands for one event: something is dropped, clicked or connected, the end of an edge
is moved, a port is chosen, a dialog is confirmed, cancelled or closed, a cell is deleted, a request
is answered or fails, the page is loaded again. What the handlers do on the way is part of the action,
such as `HandleSelectionChange`, which asks the server for the ports of a new task or opens the dialog
of a new edge. `DeleteVertex` goes through the records in their order and stops at the
first that throws, like `del`.

`availIn` and `availOut` differ because the code does: the filter of the input ports keeps
those that were not chosen; that of the output ports lacks a `return` and keeps none.
`isValidConnection` is a closure over the array that `selectedTasks` was at the start
(`captured`); deleting a task replaces the array (`shared`). The server is external:
`PortsAnswered` and `SaveAnswered` give what `Mediator` answers, `RunAnswered` happens if `ParseXMLUtil` and
`GenericWorkflow.design` get through the diagram (`Parses`) and every task on it has a class
(`Loads`): `Workflow.addTask` enters one that is not found as null, and `T_Cluster.plan` throws when it
makes the `TaskSchedule` of null. `plan` leaves the tasks of a cycle out or loops, so only an `Acyclic`
diagram is sure of its answer. That the run itself ends is `LocalExecutor`'s matter; the
page gives it 50 seconds, after which it is a failed request.

`slips` is a history variable. It names what the books do not survive, so that each property can say
under which of them it holds.

### Mediator
The static fields `strUser`, `fileLocation` (with `tableLocation`, which is always set with it), `token`,
`WorkflowExecutor.gsch`, and `workflowTaskDir` and `dropboxToken` of `WorkflowExecutor_Local` (`taskDir`,
`taskToken`), each access to them a step of a thread of the servlet container; `disk` and `dropbox` are the
diagrams saved in each folder and account. A job is one request, or the two of `runWithSave`, `saveAs` and
then, whatever the answer, `serverRunWorkflows`.

`saveAs` is `ReadUser`, `SetToken`, `NewClient`, `Exists`, `CreateFile`, `WriteFile`, `Upload`. A file that
exists is not written, and Dropbox (external) refuses another content under a name it has. `FileWriter`
creates or empties the file before the diagram is written (`Empty`); two threads that write one file
may leave pieces of both (`Broken`). A file left empty by a restart exists and so is never written again.
A run parses the file, not the diagram of the request, so a second run under the
same name executes the old diagram, and throws if the file is no diagram.

The arguments of the constructor of the executor are read before it writes the static fields (`Arguments`,
`ConstructSuper`, `ConstructDir`, `ConstructToken`). `Execute` reads the schedule back for every task, and the
task threads read directory and token as often as they need them while the run lasts (`UseDir`, `UseToken`); the
request ends when all of them have been joined (`Join`). `ran`, `dirs` and `tokens` are what the run has
read. What the tasks themselves do is `LocalExecutor`'s matter; the files they write have other names
than workflows. A restart forgets the static fields and keeps sessions and files.

Requests that overlap do get each other's user, folder, token and schedule; nothing in the code prevents it.
The history variables say when the code can be held to its purpose: `apart` has the
threads that no other has overlapped, `settled` the user for whom the folder was last
set by such a thread, and a request is `Calm` if it is apart and settled for its own user. `overtaken` has
the threads that are going to write a file which another has opened since they looked for it.

## 4. The runs

| Run | Module | States | What it shows |
|---|---|---|---|
| `local_diamond` | MCLocalDiamond | 40 000 | all interleavings of a diamond with a double edge, a task that may throw and a spurious wakeup |
| `local_lost_wakeup` | MCLocalJoin | | finding 1 |
| `beta_plan` | MCBetaPlan | 104 000 | four tasks in three local schedules, with failing submissions, a VM that hangs and a record that throws |
| `beta_graphs` | MCBetaPlan | | finding 2 |
| `task_executor` | MCTaskExecutor | 72 000 | three submissions, a task that throws, a client that dies, failing transfers, a full backlog, a restart |
| `task_status`, `task_outputs` | MCTaskExecutor | | findings 3 and 4 |
| `user_table` | MCUserTable | 6 600 000 | three requests of six kinds by two threads, and a crash, also in the middle of a line |
| `user_table_saves`, `user_table_login` | MCUserTable | | findings 5 and 6 |
| `workflow_panel` | MCWorkflowPanel | 1 100 000 | everything a user can do with an input, two tasks and two edges, or an input, a task and an output, or a task without specification; one kind of slip |
| `mediator` | MCMediator | 4 500 000 | six requests (a run is two) of two users on two threads, one overlap, and a restart |

### Properties

**Executors.** `ImplementsDataflow` (both): the refinement of `Dataflow`. `ReportsOnlyAtTheEnd`,
`RecordedAtTheEnd`: the end is not reported before it has come. These hold although
decrements are lost, because a lost decrement leaves a counter too high and never too
low; `IInv` and `CountersBound` say so. `ParkedIsWoken`: a thread that already waits is
not missed by its last parent; the wakeup that is lost is the one that comes between the
test and the wait (finding 1). `NotificationCompletes`, `AnsweredThreadGoesOn`: the locks
themselves never block anybody for ever. `RecordingHoldsUpNobody`: a record
that throws skips the notification of children, but only a task without children records.
`StopsForAReason` (both): when no thread can go on, none of them waits for a lock, and if tasks
are left, then a task has failed, or the decrement or signal of a last parent was lost
(finding 1), or the tasks wait for each other, which takes a cycle, in the cloud executor
one of dependencies and orders of local schedules. In the cloud executor there is one reason more: an `add` to
the unsynchronized list has thrown after a task was answered, and its children were not told. There
is no other. `AlwaysOnward` (both): no
thread goes round in circles. Each step deals with a channel for good, takes one thread forward in its
schedule or its task, or is a spurious wakeup; so every run comes to an end, and to one that
`StopsForAReason` describes.

**Task executor.** `ImplementsRemoteCall`; `TransfersOver`: an answer comes after the
transfers have ended, and no transfer outlives its connection;
`HandshakeCompletes`: no deadlock in the exchange of headers, and no connection forgotten in the
backlog, whatever happens to the ones before it; `AnswersUnlessThrown`: the only client
that waits for ever is the one whose task throws. `NobodyWaitsInVain` is the safety part of the two:
every open connection is in the queue, served, answered or cut off, unless its task has thrown; and when
the executor reads, the bytes are there, or the client is where it can write them, or dead.

**User table.** `CalmTable`: one after the other, the requests do what they should, and
no backup is left; `CalmRequestsSucceed`: nor do they throw; `SaveIsRecoverable`: at every
moment of a `write` that has the table for itself, the table or the backup has all users;
`OwnRecords`: secrets do not move to the line of another user, and no line is torn, as long as
no `save`, `reset` or `update` overlaps another request that writes: not by signups that overlap each other,
column by column, not by readers, nor by a crash. When a rewriting request does overlap another writer, lines
are torn: `Overwritten` leaves tails, and nothing in the code prevents it.

**Panel.** `InputBooks`, `OutputBooks`: without slips the ports that edges have been given and those
that are available agree, and no port is given twice. `NoInputLost`: an input port that is
not available can be had back by deleting the cell of its setting, also after slips.
`SettingsOnCanvas`: no setting outlives its task or the cell it names, although a deletion may
throw halfway. `RecordsOfTheirTasks`: the answer of the server is entered for the vertex that is
selected when it comes, and this is always the one it was asked for. `RefusedOnlyWhenFull`: the stale
array of `isValidConnection` does no harm until a task is deleted. `OverlayEnds`: the overlay goes away
unless a request fails or the server cannot run the diagram.

**Mediator.** `InOwnPlaces`: a calm request works in the folder and with the token of its
user, whatever others left behind. `RunsItsDiagram`: a run that no request overlaps until its last task has
ended, of a diagram with a new name, executes this diagram, and its tasks find the folder and the token of its user. `MirrorsFolder`: the account in Dropbox has what the
folder has, or nothing, as long as all diagrams were saved calmly. `DiagramsKept`: under any overlap
a saved diagram is replaced or broken only by a thread (`overtaken`) whose file another has opened after it has
looked for it and before it has written it; an overlap at any other time of the request is no excuse.

### Findings

1. `EveryTaskExecuted` (`WorkflowExecutor_Local.java:313`): without any failure a task may
   never be executed, since a wakeup or a decrement is lost.
2. `GraphsComplete` (`WorkflowExecutor_Beta.java:323`): a task is missing in the provenance
   graph of a run without failures.
3. `StatusIsSentBack` (`TaskExecutor_Beta.java:350`): after a task that throws the client,
   and with it the local schedule, waits for ever.
4. `OutputsMoved` (`CmdLineDriver.java:57`): a task is answered as completed although an
   output did not reach the VM of its child.
5. `UsersKept` (`ReadAndWrite.java:48`): two writes that overlap empty the table.
6. `LoneRequestsReturn` (`User.java:201`): after a reset, an update or with the table that is in
   the repository, a signup writes a blank line, and then every login throws. In `UserTable` a
   blank line ends the scope of the `Calm` properties.

What the panel does beyond its purpose contradicts no document of the repository, so it is in the
model and in `slips` and not in this list: after one output port of a task is given, no other
is offered (the handlers that do it report one port fewer), so a second edge out of it can only be
confirmed with an empty port, and the run is then never answered; a deleted edge gives its port back and keeps
its setting; moving the end of an edge tells the books nothing; a choice made in a dialog that is
closed by its cross is still there in the next one; after a task is deleted, edges into tasks that are
dropped later are refused. A request that takes longer than 50 seconds is given up by `axios`, and its
late answer is ignored: the overlay stays and the user has to load the page again, while the first
request goes on in the server.

### Bounds, and why they are enough

* *Graphs.* The races are between two parents of a task, between a parent and the
  child that waits, and between siblings that take the same count; a diamond has all of
  them, and the double edge makes a parent decrement twice. A task that fails is
  placed on one branch, so that the other branch and the join are still exercised.
* *Schedules.* Three threads: one with two tasks (a child behind its parent on the same VM),
  one with a parent only, one with a child only.
* *Spurious wakeups* 1: a second one finds the thread in a state the first one reached.
* *Clients* 3 and `Backlog` 1 (10 in the code): one served, one waiting, one refused; one restart.
* *User table:* two requests at a time, two users of whom one exists, two secrets for each;
  three requests in all, so that a request may come after two that overlapped, or after a crash, and meet
  the lines they have torn; one crash. Kinds of requests: all in the passing run.
* *Panel:* three lists of files instead of one with everything: an input with two tasks has
  edges of two kinds and tasks of one and of two ports, an input, a task and an output have the other
  kinds, and a task without specification has the answer that enters nothing. Two edges suffice for two to
  compete for a port; a third would only be refused. `MaxSlips` 1: the guards of the properties
  are about each kind of slip by itself.
* *Mediator:* two threads and two users, so that requests of one user and of two overlap; one name
  and two diagrams, so that a name is used again; six requests, of which a run counts two (two to settle or
  to disturb and two runs, or a run and four others); one of them may come before another is over, at any
  moment of it; one restart. Threads, users and diagrams are interchangeable, and
  symmetry is used since no property of the run is about liveness.
* `CHECK_DEADLOCK FALSE` except for the panel, which checks that the page can always at least be
  loaded again: an executor ends, a server may wait for clients, and the bounds on requests stop
  the other models.

### Fairness

* Executors: weak fairness for each thread's steps and for the return of `execute()`: the
  JVM schedules its threads and a task's `run()` comes to an end. A thread that waits for
  a lock is served, since `WF` of the thread covers a lock that stays free; for locks
  that are taken again and again this would need strong fairness, which is not assumed
  and not needed. No fairness for spurious wakeups. In `BetaExecutor` the answer of a VM
  either comes, fails or, for the tasks in `MayHang`, may never come.
* Task executor: weak fairness for the server, each client that has connected and each
  transfer. None for connecting, crashing, being killed, restarting or garbage collection.
* User table and `Mediator`: safety only.
* Panel: weak fairness of `Answer`: the server answers what it does not fail to answer, and a
  run of an acyclic diagram ends. The user need never do anything.

## 5. The proofs

`LocalExecutor_proofs` is about any finite set of tasks, any channels between them, and
any tasks that throw.

* `Invariance`: `Spec => []IInv`. The property that matters, that no task starts before
  its parents, is not inductive: it depends on the counters, which races make wrong. What
  is inductive is that they are wrong in one direction only. `CounterInv`: `predecessors[t]`
  is at least the number of channels of `t` whose notification is still to come
  (`Pending(t)`), and so is the value that a thread has read and is about to write back.
  A write of an old value cannot break this, because the set `Pending(t)` only shrinks
  (`PendingShrinks`) and the writer takes its own channel out of it at the same step
  (`PendingWrite`). `TaskNumInv` is the same argument for the static count. `LoopInv`
  keeps the loop over the children within the channels of its task.
* `ParentsBeforeChildren`, `ReportIsLast`: a thread sees zero only when
  `Pending(t)`, or the set of tasks not yet counted, is empty.
* `Refinement`: `Spec => ImplementsDataflow`, each step a step of `Dataflow` or a stutter.
* `FailuresAreContained`: the theorem `Containment` of `Dataflow_proofs`, for the local executor. Its
  proof is one induction: of a set of tasks of which each has a parent in the set, or that has not
  completed, none can be the first to begin.
* `NeverStuckOnLocks`: `Spec => []StopsForAReason`. `LockInv`, part of `IInv`, says who holds a lock: the task
  itself in `await` and `unlock`, or a parent in `signal` and `unlockChild`. A holder waits for no second lock, so it can go on, and a state in which nobody
  can has no holder (`NoLockWhenStopped`). What is parked then has a pending parent (`PendingHasParent`), which
  has failed or is parked itself, or has none, and then the counter or a signal was lost.
* `NoCircles`: `Spec => AlwaysOnward`. `Rank` orders the places of a thread; the loop over the children is
  left out of it, since each round takes a channel out of `Unsignalled` (`SignalServes`).

`CanStep`, of both executors, spells out where a thread has a next step, because the prover knows nothing of `ENABLED`; that it is
`ENABLED Step` in every reachable state was checked with TLC on the instances of the runs, as it was for
`ClientCanGo` and `ServerCanGo` of `TaskExecutor`.

`TaskExecutor_proofs` is about any number of clients, any backlog and any transfers.

* `Invariance`: `Spec => []IInv`. That an answer means an execution is not inductive: it needs
  that whoever is in the queue, or is served before the step `Execute`, has not been
  executed, that the queue has nobody twice and not the one who is served
  (`ServedOnce`), and that the transfers of the task that is served are under way, done or
  lost (`MovesInTurn`). `ServedStep` goes through the steps that change the queue, the
  served connection or what is executed and answered, `MovesStep` through those of the transfers.
* `TransfersAreOver`: `Spec => []TransfersOver`.
* `NobodyIsForgotten`: `Spec => []NobodyWaitsInVain`. Its first half, `Attended`, is inductive together with
  `Conversation`, which says what the streams tell of their writer: a client that waits has sent its header and
  its message and has been greeted, one that is queued has not, and the connection that is
  served is open. So the executor gives a connection up only when the client is dead
  (`MessageFails`) or its task throws, and then the client has been waiting. The second half, `ReadsInTurn`,
  follows state by state. `ConversationOfClients` and `ConversationOfServer` are the two sides.
* `NeverStuck`: `Spec => []StopsForAReason` of this module: when clients, executor and transfers have nothing
  more to do, all submissions are over but those whose tasks have thrown, the queue is empty, and the executor
  waits for a connection or is gone. (It follows from `NobodyWaitsInVain`, which the run checks.)
* `Refinement`: `Spec => ImplementsRemoteCall`. The step that needs the invariant is `Execute`,
  which is a step of `RemoteCall` only if the task has not been executed before, and
  `ReadAnswer`, only if it has.

`BetaExecutor_proofs` is about any graph, any plan that puts each task in one place, in any order, and
any submissions that fail or hang.

* `Invariance`: `Spec => []IInv`. Besides the bound on the counters (`CountersBound`, the argument of
  `LocalExecutor_proofs`) it needs that the outcome of a thread's task goes with the place of the
  thread and that the tasks behind it in its schedule have not begun (`ThreadInv`), and that what the thread
  has found at zero is still so when it submits (`ReadyInv`): the counter is tested in one
  step and the task submitted in a later one, and only a set of pending channels that never
  grows makes the old test good.
* `CountersNeverPromiseTooMuch`, `RecordIsLast`, `RecordingIsHarmless` follow from it, and
  `Refinement`: `Spec => ImplementsDataflow`. A plan in a bad order may deadlock, but does not
  start a task too early.
* `FailuresAreContained` carries `Containment` over. It matters more here, where the exception handler is inside
  the loop: the thread of a failed task goes on to tasks that may depend on it.
* `NeverStuckOnLocks`: as for the local executor, with `StopInv` instead of one invariant: `Holds` says
  which thread has a lock, and `PastInv` that a thread which has ended has got through its whole schedule, so
  that a task left waiting has a thread that is parked, at this task or at one in front of it
  (`WaitingWhenStopped`). That is the last of the reasons: a cycle of edges and of orders in the schedules, such as
  the planners LPOD and ICPCP can make.
* `NoCircles`: `pos` comes before `Rank`, and what is `Ahead` of a thread in its schedule counts as not
  signalled yet, so that a failed submission, whose children are never notified, is progress, too.

`WorkflowPanel_proofs` is about any inputs, tasks, outputs, ports, and number of edges.

* `Invariance`: `Spec => []IInv`. `PageInv` says that dialogs and overlays exclude each other and that
  the selection does not move while ports are asked for, from which `AnswersToTheirTasks` follows;
  `EdgeInv` that a dialog is about an edge on the canvas that is not configured;
  `PeersInv` and `SettingsOnCanvas` where settings may point; `CapturedInv` which records are in the
  captured array; `ConfirmedInv` that the numbers of settings stay within `MaxEdges`, because each
  confirmed dialog uses an edge up.
* `InputsAreNotLost` has an induction of its own on top of `IInv`, and so have
  `InputPortsInOrder` and `OutputPortsInOrder`: `BooksInv` says that settings and configured edges
  are the same thing twice, in both directions, which is what makes the deletion of a vertex,
  which looks at settings only, right about edges.
* `CoveredIsFrozen`: `Spec => CoveredPageIsFrozen`. Most handlers test for an overlay (`Free`); those of the dialogs do
  not, and it takes `PageInv` to see that no dialog is there. So the diagram that runs is the
  one that was saved, and a diagram that was `Runnable` at the click stays so.

`Mediator_proofs` is about any threads, users, names, diagrams, and numbers of requests and restarts.

* `Invariance`: `Spec => []IInv`. `AloneInv`: a busy request that is apart is the only busy one, and the
  current user is its own; so nobody else writes the static fields, to the end of its run. `PlaceInv` and
  `CalmInv` say what a thread has read by each place, and `RunInv` follows a diagram from the request through the
  file and the static schedule to the threads of the tasks. `WriteInv` is about all threads, calm or not: one
  that is about to open a file finds none there, and one that has it open finds it still empty and is the
  only one, unless it is `overtaken` (`SameFile` says which threads have the same file). `MirrorInv` compares folder and account between the writes of a save.
* `CalmRequestsAreAtHome`, `CalmRunsAreTrue`, `AccountsMirrorFolders`, `DiagramsAreKept`.

`UserTable_proofs` is about any threads, users, versions of secrets, initial tables (one record for each
user in them), and numbers of requests and crashes.

* `Invariance`: `Spec => []IInv`, of five parts. `FilesInv`: whatever is done to them, lines are blank, torn or
  beginnings of records with the secrets of their own users, and so are those that a request has read and will
  write back, at any later time; whatever mixes two lines gives a torn one. `JobsInv`: which operation may be where,
  and how many columns it has appended. `LockInv`: a lock is held once, and an append holds that of its file.
  `ApartInv`: as long as `apart`, no line anywhere is torn, since every column continues what its append has begun
  (`Continues`) and what was emptied to be rewritten is still empty (`Undisturbed`).
  `CalmInv` is about calm histories only, and is a proof of the operations as
  sequential programs inside the concurrent model: at most one request is under way, and for each of its
  places `AtPlace` has what it finds in table, backup and buffer. That a history which is not calm never
  becomes calm again (`LostStaysLost`) is what lets the rest of the proof ignore the interleavings.
* `SecretsStayWithTheirUsers` follows from `FilesInv` and `ApartInv`, for all interleavings of signups and
  readers and all crashes; `TheTableIsExact`, `RequestsSucceed` and `SavesAreRecoverable` from `CalmInv`. `Exact` (the lines are the records of a set,
  and no user has two) is what makes the loop of `write`, which encrypts the token once more for
  each line of the user, encrypt it once (`Encrypted`), and the length of the table the number of
  records (`ExactLength`).
* `LostByRewritingOnly`: `Spec => []AppendsLoseNobody`, for all interleavings and crashes. As long as only `login`, `read`
  and `signup` are asked for, the table only grows (`ExtendsHas`),
  every column continues the line of its own append, and the path stays. With `save`, `reset` or
  `update` it is false (finding 5), so these three are the ones to blame.

Assumptions: `GraphAssumption` of `WorkflowGraph`, the assumption of `LocalExecutor` on
`MayThrow` and `MaxSpurious`, `PlanAssumption` of `BetaExecutor`, `SubmissionAssumption` of
`TaskExecutor`, `RequestAssumption` of `UserTable`, `CellAssumption` of `WorkflowPanel`, `UserAssumption` of
`Mediator`. They say that sets are finite, that the kinds of cells are disjoint, that no user has two
records at the start, that a blank or a torn line is not a record, and that marks such as `None` are not values. TLC
evaluates them in the passing runs.

Four of the statements that are proved belong to no run: `FailuresContained`, `StopsForAReason` of `TaskExecutor`,
`AppendsLoseNobody` and `CoveredPageIsFrozen`. Added to the runs of these modules (of the executors, as `D!FailuresContained`) they hold there, too;
`AppendsLoseNobody` says something only with `Kind` restricted to `login`, `read` and `signup`.

Only model-checked: all liveness properties, because fairness and `ENABLED` are out of reach of the
prover (of `ParkedIsWoken`, `NotificationCompletes`, `AnsweredThreadGoesOn`, `HandshakeCompletes` and
`AnswersUnlessThrown` the theorems about `StopsForAReason`, `AlwaysOnward` and `NobodyWaitsInVain` prove the
part that needs no fairness: that nothing runs in circles and nothing stops for lack of a lock or of a
peer; and of `OverlayEnds`, `CoveredIsFrozen` proves that the page gets stuck by a failed request
only); the findings, which are counterexamples. What a
recursive definition computes for every input could not be proved either (induction
over data and `RECURSIVE` operators are beyond the installed provers).

## 6. Not modelled

* *Planners.* The servlet plans with `T_Cluster`, of which `WorkflowPanel` has when it ends. The others
  (Naive1, Naive2, Random, ICPCP, LPOD, E2C2D) are called by `Test.java` and by the examples.
  They are sequential; `BetaExecutor` is checked with one plan and proved for every plan, and the orders in
  which LPOD and ICPCP can make a local schedule wait for itself are listed as hazards.
* *Schedules.* `LocalSchedule` and `GlobalSchedule` are lists that planners fill; to the
  executors they are the constants of `BetaExecutor`.
* *Provisioning.* What `init()` does depends on how long AWS takes; the one effect on other
  workflows, the restart of their task executors, is in `TaskExecutor`.
* *Translation of diagrams.* Only which diagrams get through (`Parses`, `Loads`); not the XML, nor the names
  `outputDP0.txt` that all output edges share.
* *`outputMapping`* of `Mediator`, static and keyed by those names, so that a user who looks at
  outputs may be shown those of another user's run; requests that no page sends
  (`provisionVMsInEC2AndRunWorkflows`, `overwriteAndSave`, `getData`); `getWorkflowDiagram`, which only reads.
* *Two executors alive at once* share `taskNum` and `OutputSet` besides the schedule, the directory and the token
  of tasks; `Mediator` has these three only.
* *Contents of provenance and meta configuration, JSON, data types, relational algebra:* sequential
  computations on text and tables, in which no order of events matters.
* *Of the panel:* importing a diagram, selecting several cells at once, the other pages. The JavaScript of the
  repository is a bundle of a few very long lines; nearly all of its files are libraries
  (`chunk-vendors`, mxGraph, Quill, Sortable, Cropper, analytics) which are not DATAVIEW's. The panel is one
  line of one file, the time limit of requests one line of another, so the share of lines
  of JavaScript that the models stand for is small and says little; by line, most of what is modelled is Java.
* *At all:* Dropbox, AWS, ssh and the file systems of the VMs beyond success and failure;
  logging; drawing; e-mail; third-party libraries under `workbench/` and `web/`; the example workflows and the code of their tasks;
  `User.updatePassword`, which nothing calls; stale reads of fields
  that are not `volatile` beyond what interleaving shows: a thread passes a lock (of its own
  condition, of a child's, or of `System.out`) between any two accesses to a counter, so that
  a value can be late by one access only, which is the same as an earlier read.
