---------------------------- MODULE BetaExecutor ----------------------------
(***************************************************************************)
(* WorkflowExecutor_Beta: one thread (LocalScheduleRun) for each local     *)
(* schedule, that is for each VM.  A thread takes the tasks of its         *)
(* schedule in their order: it waits until the counter of unfinished       *)
(* parents of the next task is zero, submits the task to the VM, waits for *)
(* the answer, records it, and decrements the counters of the children,    *)
(* waking the owner of a child whose counter it finds at zero.             *)
(*                                                                         *)
(* Memory accesses that no common lock protects are steps of their own.    *)
(***************************************************************************)
EXTENDS WorkflowGraph, Sequences

CONSTANTS
  Schedule,      \* the local schedules of the GlobalSchedule
  NoSchedule,    \* the owner of a free lock
  runTask,       \* the tasks of each local schedule, in their order
  MayFail,       \* tasks whose submission may fail or be answered by an empty string
  MayHang,       \* tasks whose run on the VM throws, so that no answer ever comes
  RecordMayThrow,\* whether the files of the record may fail to be written
  MaxSpurious    \* bound on the spurious wakeups of Condition.await

Tasks(s) == {runTask[s][i] : i \in DOMAIN runTask[s]}

\* TaskRun.ownerLocalScheduleRun
Owner(t) == CHOOSE s \in Schedule : t \in Tasks(s)

\* What the planners guarantee: every task is in one place of one schedule.
ASSUME PlanAssumption ==
  /\ IsFiniteSet(Schedule) /\ NoSchedule \notin Schedule
  /\ runTask \in [Schedule -> Seq(Task)]
  /\ \A s \in Schedule : runTask[s] # << >>
  /\ \A t \in Task : \E s \in Schedule : t \in Tasks(s)
  /\ \A r, s \in Schedule : r # s => Tasks(r) \cap Tasks(s) = {}
  /\ \A s \in Schedule : \A i, j \in DOMAIN runTask[s] : runTask[s][i] = runTask[s][j] => i = j
  /\ MayFail \subseteq Task /\ MayHang \subseteq Task /\ MaxSpurious \in Nat
  /\ RecordMayThrow \in BOOLEAN

VARIABLES
  pc,         \* where each LocalScheduleRun thread is
  pos,        \* the place of its current task in its schedule
  num,        \* TaskRun.numOfParentsUnfinished
  owner,      \* the thread that holds LocalScheduleRun.mLock
  todo,       \* the children the current task has still to notify
  reg,        \* the value a thread has read of a counter; while it adds: how many adds had ended
  outcome,    \* history: what has become of each task
  entry,      \* taskSpecObj: what has become of the entry of each task in the list
  taskNum,    \* WorkflowExecutor_Beta.taskNum
  graphs,     \* the provenance graphs written, each by the tasks in it
  spurious    \* how many spurious wakeups have happened

vars == <<pc, pos, num, owner, todo, reg, outcome, entry, taskNum, graphs, spurious>>

\* Mutation: taskNum counts the local schedules.
InitCountsSchedules ==
  /\ pc = [s \in Schedule |-> "new"]
  /\ pos = [s \in Schedule |-> 1]
  /\ num = [t \in Task |-> Cardinality(In(t))]
  /\ owner = [s \in Schedule |-> NoSchedule]
  /\ todo = [s \in Schedule |-> {}]
  /\ reg = [s \in Schedule |-> 0]
  /\ outcome = [t \in Task |-> "waiting"]
  /\ entry = [t \in Task |-> "none"]
  /\ taskNum = Cardinality(Schedule)
  /\ graphs = << >>
  /\ spurious = 0

Init ==
  /\ pc = [s \in Schedule |-> "new"]
  /\ pos = [s \in Schedule |-> 1]
  /\ num = [t \in Task |-> Cardinality(In(t))]
  /\ owner = [s \in Schedule |-> NoSchedule]
  /\ todo = [s \in Schedule |-> {}]
  /\ reg = [s \in Schedule |-> 0]
  /\ outcome = [t \in Task |-> "waiting"]
  /\ entry = [t \in Task |-> "none"]
  /\ taskNum = Cardinality(Task)
  /\ graphs = << >>
  /\ spurious = 0

-----------------------------------------------------------------------------
Goto(s, from, to) ==
  /\ pc[s] = from
  /\ pc' = [pc EXCEPT ![s] = to]

Acquire(s, r) ==
  /\ owner[r] = NoSchedule
  /\ owner' = [owner EXCEPT ![r] = s]

Release(s, r) ==
  /\ owner[r] = s
  /\ owner' = [owner EXCEPT ![r] = NoSchedule]

Current(s) == runTask[s][pos[s]]

\* The child whose onParentFinished the thread is executing.
Child(s) == destTask[First(todo[s])]

\* Mutation: the loop goes one task too far.
NextTaskTooFar(s, from) ==
  /\ Goto(s, from, IF pos[s] = Len(runTask[s]) THEN "done" ELSE "check")
  /\ pos' = [pos EXCEPT ![s] = @ + 1]
  /\ todo' = [todo EXCEPT ![s] = {}]

\* The end of one round of the loop over mTaskRunners: the next task, or the end of run().
NextTask(s, from) ==
  /\ Goto(s, from, IF pos[s] = Len(runTask[s]) THEN "done" ELSE "check")
  /\ pos' = [pos EXCEPT ![s] = IF pos[s] = Len(runTask[s]) THEN @ ELSE @ + 1]
  /\ todo' = [todo EXCEPT ![s] = {}]

-----------------------------------------------------------------------------
Start(s) ==
  /\ Goto(s, "new", "check")
  /\ UNCHANGED <<pos, num, owner, todo, reg, outcome, entry, taskNum, graphs, spurious>>

(* while (!taskrun.isReady()) { mLock.lock(); mReadyCon.await(); ... }      *)

\* Mutation: the test is off by one.
CheckReadyEarly(s) ==
  /\ Goto(s, "check", IF num[Current(s)] <= 1 THEN "submit" ELSE "lock")
  /\ UNCHANGED <<pos, num, owner, todo, reg, outcome, entry, taskNum, graphs, spurious>>

CheckReady(s) ==
  /\ Goto(s, "check", IF num[Current(s)] = 0 THEN "submit" ELSE "lock")
  /\ UNCHANGED <<pos, num, owner, todo, reg, outcome, entry, taskNum, graphs, spurious>>

LockToWait(s) ==
  /\ Goto(s, "lock", "await")
  /\ Acquire(s, s)
  /\ UNCHANGED <<pos, num, todo, reg, outcome, entry, taskNum, graphs, spurious>>

Await(s) ==
  /\ Goto(s, "await", "parked")
  /\ Release(s, s)
  /\ UNCHANGED <<pos, num, todo, reg, outcome, entry, taskNum, graphs, spurious>>

SpuriousWakeup(s) ==
  /\ spurious < MaxSpurious
  /\ Goto(s, "parked", "woken")
  /\ spurious' = spurious + 1
  /\ UNCHANGED <<pos, num, owner, todo, reg, outcome, entry, taskNum, graphs>>

ReturnFromAwait(s) ==
  /\ Goto(s, "woken", "unlock")
  /\ Acquire(s, s)
  /\ UNCHANGED <<pos, num, todo, reg, outcome, entry, taskNum, graphs, spurious>>

\* Mutation: if instead of while, the counter is not tested again.
UnlockWithoutRetest(s) ==
  /\ Goto(s, "unlock", "submit")
  /\ Release(s, s)
  /\ UNCHANGED <<pos, num, todo, reg, outcome, entry, taskNum, graphs, spurious>>

\* Mutation: the unlock after await is missing.
NoUnlockAfterWait(s) ==
  /\ Goto(s, "unlock", "check")
  /\ UNCHANGED <<pos, num, owner, todo, reg, outcome, entry, taskNum, graphs, spurious>>

UnlockAfterWait(s) ==
  /\ Goto(s, "unlock", "check")
  /\ Release(s, s)
  /\ UNCHANGED <<pos, num, todo, reg, outcome, entry, taskNum, graphs, spurious>>

-----------------------------------------------------------------------------
(* The task file and the inputs are moved to the VM, the MSGClient         *)
(* connects, sends the specification and blocks until the answer.          *)

Submit(s) ==
  /\ Goto(s, "submit", "answer")
  /\ outcome' = [outcome EXCEPT ![Current(s)] = "running"]
  /\ UNCHANGED <<pos, num, owner, todo, reg, entry, taskNum, graphs, spurious>>

Answered(s) ==
  /\ Goto(s, "answer", "add")
  /\ outcome' = [outcome EXCEPT ![Current(s)] = "completed"]
  /\ UNCHANGED <<pos, num, owner, todo, reg, entry, taskNum, graphs, spurious>>

\* Mutation: a submission that fails is tried again.
SubmissionRetried(s) ==
  /\ Current(s) \in MayFail
  /\ Goto(s, "answer", "submit")
  /\ outcome' = [outcome EXCEPT ![Current(s)] = "waiting"]
  /\ UNCHANGED <<pos, num, owner, todo, reg, entry, taskNum, graphs, spurious>>

(***************************************************************************)
(* The connection is refused or breaks: an exception of the constructor of *)
(* MSGClient, or an empty answer that does not parse.  It is caught in the *)
(* loop, which goes on to the next task; the children are not notified.    *)
(***************************************************************************)
SubmissionFails(s) ==
  /\ Current(s) \in MayFail
  /\ NextTask(s, "answer")
  /\ outcome' = [outcome EXCEPT ![Current(s)] = "failed"]
  /\ UNCHANGED <<num, owner, reg, entry, taskNum, graphs, spurious>>

\* The TaskExecutor does not answer after an exception of the task and does not close.
VMHangs(s) ==
  /\ Current(s) \in MayHang
  /\ Goto(s, "answer", "hung")
  /\ outcome' = [outcome EXCEPT ![Current(s)] = "failed"]
  /\ UNCHANGED <<pos, num, owner, todo, reg, entry, taskNum, graphs, spurious>>

-----------------------------------------------------------------------------
(***************************************************************************)
(* taskSpecObj.add(taskSpec) on an ArrayList that no lock protects.  While *)
(* another add is in progress the element may be lost: the other one takes *)
(* the same place.  If adds overlap where the array has to grow, the       *)
(* place of the element may be null in the array that remains; and when    *)
(* both of them were content with the one place that was left, the second  *)
(* is out of bounds.  That exception is caught in the loop like that of a  *)
(* submission; the size has been increased, so that there is a null.  The  *)
(* length of the array (ten places at first) is left open: wherever two    *)
(* adds overlap they may meet at its end.                                  *)
(***************************************************************************)
Added == {t \in Task : entry[t] # "none"}
specs == {t \in Task : entry[t] = "listed"}
HasNull == \E t \in Task : entry[t] \in {"null", "thrown"}

OthersAdd(s) == \E r \in Schedule \ {s} : pc[r] = "adding"

\* Another add is in progress, or has come to its end meanwhile.
Overlapped(s) == OthersAdd(s) \/ reg[s] # Cardinality(Added)

Enters(s, e) ==
  /\ entry' = [entry EXCEPT ![Current(s)] = e]
  /\ reg' = [reg EXCEPT ![s] = 0]

\* ensureCapacityInternal
BeginAdd(s) ==
  /\ Goto(s, "add", "adding")
  /\ reg' = [reg EXCEPT ![s] = Cardinality(Added)]
  /\ UNCHANGED <<pos, num, owner, todo, outcome, entry, taskNum, graphs, spurious>>

EndAdd(s) ==
  /\ Goto(s, "adding", "readTaskNum")
  /\ \/ Enters(s, "listed")
     \/ OthersAdd(s) /\ Enters(s, "lost")
     \/ Overlapped(s) /\ Enters(s, "null")
  /\ UNCHANGED <<pos, num, owner, todo, outcome, taskNum, graphs, spurious>>

\* ArrayIndexOutOfBoundsException: neither is the task counted, nor are its children notified.
AddThrows(s) ==
  /\ Overlapped(s)
  /\ NextTask(s, "adding")
  /\ Enters(s, "thrown")
  /\ UNCHANGED <<num, owner, outcome, taskNum, graphs, spurious>>

(* synchronized (this) { taskNum--; }: each thread has a monitor of its own. *)

ReadTaskNum(s) ==
  /\ Goto(s, "readTaskNum", "writeTaskNum")
  /\ reg' = [reg EXCEPT ![s] = taskNum]
  /\ UNCHANGED <<pos, num, owner, todo, outcome, entry, taskNum, graphs, spurious>>

WriteTaskNum(s) ==
  /\ Goto(s, "writeTaskNum", "testTaskNum")
  /\ taskNum' = reg[s] - 1
  /\ reg' = [reg EXCEPT ![s] = 0]
  /\ UNCHANGED <<pos, num, owner, todo, outcome, entry, graphs, spurious>>

\* Mutation: the test is off by one.
TestTaskNumEarly(s) ==
  /\ Goto(s, "testTaskNum", IF taskNum <= 1 THEN "record" ELSE "notify")
  /\ todo' = [todo EXCEPT ![s] = IF taskNum <= 1 THEN @ ELSE Out(Current(s))]
  /\ UNCHANGED <<pos, num, owner, reg, outcome, entry, taskNum, graphs, spurious>>

TestTaskNum(s) ==
  /\ Goto(s, "testTaskNum", IF taskNum = 0 THEN "record" ELSE "notify")
  /\ todo' = [todo EXCEPT ![s] = IF taskNum = 0 THEN @ ELSE Out(Current(s))]
  /\ UNCHANGED <<pos, num, owner, reg, outcome, entry, taskNum, graphs, spurious>>

\* recordProvenance, writeToWorklfowMetaConfiguration and fetchDataFromVM
Record(s) ==
  /\ ~HasNull
  /\ Goto(s, "record", "notify")
  /\ graphs' = Append(graphs, specs)
  /\ todo' = [todo EXCEPT ![s] = Out(Current(s))]
  /\ UNCHANGED <<pos, num, owner, reg, outcome, entry, taskNum, spurious>>

(***************************************************************************)
(* A null in the list or a missing entry of a specification throws before  *)
(* the graph is written; the update of the workflow's averages and the     *)
(* fetching of its outputs may throw after that.                           *)
(***************************************************************************)
RecordThrows(s) ==
  /\ NextTask(s, "record")
  /\ \/ (HasNull \/ RecordMayThrow) /\ UNCHANGED graphs
     \/ ~HasNull /\ RecordMayThrow /\ graphs' = Append(graphs, specs)
  /\ UNCHANGED <<num, owner, reg, outcome, entry, taskNum, spurious>>

-----------------------------------------------------------------------------
(* onParentFinished of each child:                                         *)
(* --numOfParentsUnfinished; if (isReady()) ownerLocalScheduleRun.wakeUP() *)

ReadNum(s) ==
  /\ todo[s] # {}
  /\ Goto(s, "notify", "decrement")
  /\ reg' = [reg EXCEPT ![s] = num[Child(s)]]
  /\ UNCHANGED <<pos, num, owner, todo, outcome, entry, taskNum, graphs, spurious>>

WriteNum(s) ==
  /\ Goto(s, "decrement", "testNum")
  /\ num' = [num EXCEPT ![Child(s)] = reg[s] - 1]
  /\ reg' = [reg EXCEPT ![s] = 0]
  /\ UNCHANGED <<pos, owner, todo, outcome, entry, taskNum, graphs, spurious>>

TestNum(s) ==
  /\ pc[s] = "testNum"
  /\ IF num[Child(s)] = 0
     THEN Goto(s, "testNum", "lockOwner") /\ UNCHANGED todo
     ELSE Goto(s, "testNum", "notify") /\ todo' = [todo EXCEPT ![s] = @ \ {First(@)}]
  /\ UNCHANGED <<pos, num, owner, reg, outcome, entry, taskNum, graphs, spurious>>

LockToSignal(s) ==
  /\ Goto(s, "lockOwner", "signal")
  /\ Acquire(s, Owner(Child(s)))
  /\ UNCHANGED <<pos, num, todo, reg, outcome, entry, taskNum, graphs, spurious>>

Signal(s) ==
  /\ pc[s] = "signal"
  /\ pc' = [r \in Schedule |->
              IF r = s THEN "unlockOwner"
              ELSE IF r = Owner(Child(s)) /\ pc[r] = "parked" THEN "woken" ELSE pc[r]]
  /\ UNCHANGED <<pos, num, owner, todo, reg, outcome, entry, taskNum, graphs, spurious>>

\* Mutation: wakeUP keeps the lock.
NoUnlockAfterSignal(s) ==
  /\ Goto(s, "unlockOwner", "notify")
  /\ todo' = [todo EXCEPT ![s] = @ \ {First(@)}]
  /\ UNCHANGED <<pos, num, owner, reg, outcome, entry, taskNum, graphs, spurious>>

UnlockAfterSignal(s) ==
  /\ Goto(s, "unlockOwner", "notify")
  /\ Release(s, Owner(Child(s)))
  /\ todo' = [todo EXCEPT ![s] = @ \ {First(@)}]
  /\ UNCHANGED <<pos, num, reg, outcome, entry, taskNum, graphs, spurious>>

Finish(s) ==
  /\ todo[s] = {}
  /\ NextTask(s, "notify")
  /\ UNCHANGED <<num, owner, reg, outcome, entry, taskNum, graphs, spurious>>

-----------------------------------------------------------------------------
Step(s) ==
  \/ Start(s)
  \/ CheckReady(s) \/ LockToWait(s) \/ Await(s) \/ ReturnFromAwait(s) \/ UnlockAfterWait(s)
  \/ Submit(s) \/ Answered(s) \/ SubmissionFails(s) \/ VMHangs(s)
  \/ BeginAdd(s) \/ EndAdd(s) \/ AddThrows(s)
  \/ ReadTaskNum(s) \/ WriteTaskNum(s) \/ TestTaskNum(s) \/ Record(s) \/ RecordThrows(s)
  \/ ReadNum(s) \/ WriteNum(s) \/ TestNum(s)
  \/ LockToSignal(s) \/ Signal(s) \/ UnlockAfterSignal(s) \/ Finish(s)

Next == \E s \in Schedule : Step(s) \/ SpuriousWakeup(s)

Spec == Init /\ [][Next]_vars

\* Threads are scheduled, and a task that is not in MayHang is answered in the end.
FairSpec == Spec /\ \A s \in Schedule : WF_vars(Step(s))

-----------------------------------------------------------------------------
(* What has happened so far.                                               *)

Begun(t) == outcome[t] # "waiting"

\* The thread is past the answer for its current task.
AfterAnswer == {"add", "adding", "readTaskNum", "writeTaskNum", "testTaskNum", "record",
                "notify", "decrement", "testNum", "lockOwner", "signal", "unlockOwner"}

\* The task has been taken off taskNum.
Counted(t) ==
  /\ outcome[t] = "completed" /\ entry[t] # "thrown"
  /\ \A s \in Schedule :
       pc[s] \in {"add", "adding", "readTaskNum", "writeTaskNum"} => Current(s) # t

\* The destination of channel c has had its counter decremented for it.
Notified(c) ==
  LET p == srcTask[c]
      s == Owner(p)
  IN  /\ outcome[p] = "completed" /\ entry[p] # "thrown"
      /\ Current(s) = p =>
           \/ pc[s] \in {"notify", "decrement"} /\ c \notin todo[s]
           \/ pc[s] \in {"testNum", "lockOwner", "signal", "unlockOwner"}
                /\ c \notin todo[s] \ {First(todo[s])}
           \/ pc[s] = "done"

Pending(t) == {c \in In(t) : ~Notified(c)}

Uncounted == {t \in Task : ~Counted(t)}

-----------------------------------------------------------------------------
PC == AfterAnswer \cup {"new", "check", "lock", "await", "parked", "woken", "unlock", "submit",
                        "answer", "hung", "done"}

TypeOK ==
  /\ pc \in [Schedule -> PC]
  /\ pos \in [Schedule -> Nat] /\ \A s \in Schedule : pos[s] \in DOMAIN runTask[s]
  /\ num \in [Task -> Nat]
  /\ owner \in [Schedule -> Schedule \cup {NoSchedule}]
  /\ todo \in [Schedule -> SUBSET Channel]
  /\ reg \in [Schedule -> Nat]
  /\ outcome \in [Task -> {"waiting", "running", "completed", "failed"}]
  /\ entry \in [Task -> {"none", "listed", "lost", "null", "thrown"}]
  /\ taskNum \in Nat
  /\ graphs \in Seq(SUBSET Task)
  /\ spurious \in 0 .. MaxSpurious

(***************************************************************************)
(* A counter of unfinished parents is never below the number of decrements *)
(* that have not been made, and a task is submitted only when there are    *)
(* none.                                                                   *)
(***************************************************************************)
CounterInv ==
  /\ \A t \in Task : num[t] >= Cardinality(Pending(t))
  /\ \A s \in Schedule : pc[s] = "decrement" => reg[s] >= Cardinality(Pending(Child(s)))
  /\ \A t \in Task : Begun(t) => Pending(t) = {}

\* taskNum is never below the number of tasks still to be counted.
TaskNumInv ==
  /\ taskNum >= Cardinality(Uncounted)
  /\ \A s \in Schedule : pc[s] = "writeTaskNum" => reg[s] >= Cardinality(Uncounted)
  /\ (\E s \in Schedule : pc[s] = "record") \/ graphs # << >> => Uncounted = {}

CountersBound == CounterInv /\ TaskNumInv

(***************************************************************************)
(* The threads implement the promise of Dataflow.                          *)
(***************************************************************************)
D == INSTANCE Dataflow WITH status <- outcome

ImplementsDataflow == D!Spec

(***************************************************************************)
(* The provenance is written only when every task has completed, although  *)
(* taskNum-- is not atomic.                                                *)
(***************************************************************************)
RecordedAtTheEnd ==
  graphs # << >> => \A t \in Task : outcome[t] = "completed"

(***************************************************************************)
(* The children are notified after the record.  An exception while         *)
(* recording skips them, yet it holds up nobody: the task whose thread     *)
(* records has no children.                                                *)
(***************************************************************************)
RecordingHoldsUpNobody ==
  \A s \in Schedule : pc[s] = "record" => Out(Current(s)) = {}

-----------------------------------------------------------------------------
(* Why execute() may never return.                                         *)

\* Thread s has a next step: it has not ended, and waits neither for a lock, a signal nor the VM.
CanStep(s) ==
  /\ pc[s] \notin {"parked", "hung", "done"}
  /\ pc[s] \in {"lock", "woken"} => owner[s] = NoSchedule
  /\ pc[s] = "lockOwner" => owner[Owner(Child(s))] = NoSchedule

Waiting == {t \in Task : outcome[t] = "waiting"}

\* The task in front of t in its local schedule, if there is one.
Previous(t) ==
  LET s == Owner(t)
  IN  {runTask[s][i] : i \in {j \in DOMAIN runTask[s] :
                               j + 1 \in DOMAIN runTask[s] /\ runTask[s][j + 1] = t}}

(***************************************************************************)
(* When no thread can go on, none of them waits for a lock.  If tasks are  *)
(* left waiting, there is one of four reasons: a task has failed; the      *)
(* decrement or the signal of a last parent has been lost; a task has      *)
(* completed, but taking its entry into the list threw, so that nobody was *)
(* told; or the tasks wait for each other, because the order of the local  *)
(* schedules and that of the dependencies make up a cycle.                 *)
(***************************************************************************)
StopsForAReason ==
  (\A s \in Schedule : ~CanStep(s)) =>
    /\ \A s \in Schedule : pc[s] \in {"parked", "hung", "done"}
    /\ \/ \E t \in Task : outcome[t] = "failed"
       \/ \E s \in Schedule : pc[s] = "parked" /\ Pending(Current(s)) = {}
       \/ \E t \in Task : entry[t] = "thrown" /\ Out(t) # {}
       \/ \A t \in Waiting : (Parents(t) \cup Previous(t)) \cap Waiting # {}

\* The channels of the current task of s that may still be signalled.
Here(s) ==
  CASE pc[s] \in {"notify", "decrement", "testNum", "lockOwner", "signal"} -> todo[s]
    [] pc[s] = "unlockOwner" -> todo[s] \ {First(todo[s])}
    [] pc[s] \in {"hung", "done"} -> {}
    [] OTHER -> Out(Current(s))

\* The channels of the tasks s has not come to.
Ahead(s) == UNION {Out(runTask[s][i]) : i \in {j \in DOMAIN runTask[s] : j > pos[s]}}

Unsignalled == UNION {Here(s) \cup Ahead(s) : s \in Schedule}

\* How far a thread is with its current task, as long as nothing is signalled.
Rank(p) ==
  CASE p \in {"new", "woken"} -> 0
    [] p = "unlock" -> 1
    [] p = "check" -> 2
    [] p = "lock" -> 3
    [] p = "await" -> 4
    [] p = "parked" -> 5
    [] p = "submit" -> 6
    [] p = "answer" -> 7
    [] p \in {"hung", "add"} -> 8
    [] p = "adding" -> 9
    [] p = "readTaskNum" -> 10
    [] p = "writeTaskNum" -> 11
    [] p = "testTaskNum" -> 12
    [] p = "record" -> 13
    [] p = "unlockOwner" -> 14
    [] p = "notify" -> 15
    [] p = "decrement" -> 16
    [] p = "testNum" -> 17
    [] p = "lockOwner" -> 18
    [] p = "signal" -> 19
    [] p = "done" -> 20

Advances(s) ==
  /\ pos[s] < pos'[s] \/ (pos'[s] = pos[s] /\ Rank(pc'[s]) > Rank(pc[s]))
  /\ \A r \in Schedule \ {s} : pc'[r] = pc[r] /\ pos'[r] = pos[r]

(***************************************************************************)
(* No thread goes round in circles, neither in its wait, nor over its      *)
(* children, nor by trying a task again: a step either is a spurious       *)
(* wakeup, deals with a channel for good, or takes one thread forward in   *)
(* its schedule or in its current task and leaves the others where they    *)
(* are.                                                                    *)
(***************************************************************************)
Onward ==
  /\ spurious <= spurious' /\ Unsignalled' \subseteq Unsignalled
  /\ \/ spurious # spurious'
     \/ Unsignalled # Unsignalled'
     \/ \E s \in Schedule : Advances(s)

AlwaysOnward == [][Onward]_vars

-----------------------------------------------------------------------------
(***************************************************************************)
(* A thread that is parked while the last parent of its next task takes    *)
(* the counter to zero submits that task: neither the test of the counter  *)
(* nor the signal of that parent can miss it.                              *)
(***************************************************************************)
LastParent(s) ==
  \E r \in Schedule : /\ pc[r] \in {"testNum", "lockOwner", "signal"}
                      /\ Child(r) = Current(s)

ParkedIsWoken ==
  \A s \in Schedule :
    (pc[s] = "parked" /\ num[Current(s)] = 0 /\ LastParent(s)) ~> pc[s] = "submit"

(***************************************************************************)
(* After the answer a thread is never held up: it counts, records and      *)
(* notifies, and gets to the next task of its schedule or to its end.      *)
(***************************************************************************)
AnsweredThreadGoesOn ==
  \A s \in Schedule : pc[s] = "add" ~> pc[s] \in {"check", "done"}

(***************************************************************************)
(* A provenance graph has all the task runs of the workflow run.           *)
(***************************************************************************)
GraphsComplete ==
  \A i \in DOMAIN graphs : graphs[i] = Task

=============================================================================
