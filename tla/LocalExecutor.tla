---------------------------- MODULE LocalExecutor ----------------------------
(***************************************************************************)
(* WorkflowExecutor_Local: every task of the schedule has a thread of its  *)
(* own (TaskRun), all of them started at once by execute().  A thread      *)
(* waits until its counter of unfinished parents is zero, runs the task,   *)
(* and decrements the counters of its children.                            *)
(*                                                                         *)
(* The grain is that of the memory accesses: an update of a field that no  *)
(* lock protects is a read step followed by a write step, and the test     *)
(* before a wait is a step apart from the wait.                            *)
(***************************************************************************)
EXTENDS WorkflowGraph

CONSTANTS
  MayThrow,      \* the tasks whose class may be missing or whose run may throw
  MaxSpurious    \* bound on the spurious wakeups of Condition.await

ASSUME LocalAssumption ==
  /\ MayThrow \subseteq Task
  /\ MaxSpurious \in Nat

VARIABLES
  pc,             \* where each TaskRun thread is
  predecessors,   \* TaskRun.predecessors: the count of unfinished parents
  owner,          \* the thread that holds TaskRun.Lock, NoTask if it is free
  todo,           \* the children an onFinished loop has still to visit
  reg,            \* the value a thread has read of a counter it will write
  taskNum,        \* WorkflowExecutor_Local.taskNum
  reports,        \* how many threads have reported the end of the workflow
  spurious,       \* how many spurious wakeups have happened
  returned        \* execute() has returned

vars == <<pc, predecessors, owner, todo, reg, taskNum, reports, spurious, returned>>

Init ==
  /\ pc = [t \in Task |-> "new"]
  /\ predecessors = [t \in Task |-> Cardinality(In(t))]
  /\ owner = [t \in Task |-> NoTask]
  /\ todo = [t \in Task |-> {}]
  /\ reg = [t \in Task |-> 0]
  /\ taskNum = Cardinality(Task)
  /\ reports = 0
  /\ spurious = 0
  /\ returned = FALSE

-----------------------------------------------------------------------------
Goto(t, from, to) ==
  /\ pc[t] = from
  /\ pc' = [pc EXCEPT ![t] = to]

\* Thread t takes or releases the lock of the TaskRun u.
Acquire(t, u) ==
  /\ owner[u] = NoTask
  /\ owner' = [owner EXCEPT ![u] = t]

Release(t, u) ==
  /\ owner[u] = t
  /\ owner' = [owner EXCEPT ![u] = NoTask]

\* The child whose onParentFinished thread t is executing.
Child(t) == destTask[First(todo[t])]

-----------------------------------------------------------------------------
(* execute(): starts all the threads, then joins them.                     *)

Start(t) ==
  /\ Goto(t, "new", "check")
  /\ UNCHANGED <<predecessors, owner, todo, reg, taskNum, reports, spurious, returned>>

Return ==
  /\ ~returned
  /\ \A t \in Task : pc[t] \in {"done", "failed"}
  /\ returned' = TRUE
  /\ UNCHANGED <<pc, predecessors, owner, todo, reg, taskNum, reports, spurious>>

-----------------------------------------------------------------------------
(* run(): while (!isReady()) { Lock.lock(); Ready.await(); Lock.unlock(); } *)

CheckReady(t) ==
  /\ Goto(t, "check", IF predecessors[t] = 0 THEN "running" ELSE "lock")
  /\ UNCHANGED <<predecessors, owner, todo, reg, taskNum, reports, spurious, returned>>

LockToWait(t) ==
  /\ Goto(t, "lock", "await")
  /\ Acquire(t, t)
  /\ UNCHANGED <<predecessors, todo, reg, taskNum, reports, spurious, returned>>

\* Mutation: the wait has a timeout of zero, so that the loop polls.
AwaitNothing(t) ==
  /\ Goto(t, "await", "woken")
  /\ Release(t, t)
  /\ UNCHANGED <<predecessors, todo, reg, taskNum, reports, spurious, returned>>

\* await releases the lock and parks the thread in one step
Await(t) ==
  /\ Goto(t, "await", "parked")
  /\ Release(t, t)
  /\ UNCHANGED <<predecessors, todo, reg, taskNum, reports, spurious, returned>>

SpuriousWakeup(t) ==
  /\ spurious < MaxSpurious
  /\ Goto(t, "parked", "woken")
  /\ spurious' = spurious + 1
  /\ UNCHANGED <<predecessors, owner, todo, reg, taskNum, reports, returned>>

\* await returns only with the lock held again
ReturnFromAwait(t) ==
  /\ Goto(t, "woken", "unlock")
  /\ Acquire(t, t)
  /\ UNCHANGED <<predecessors, todo, reg, taskNum, reports, spurious, returned>>

\* Mutation: if instead of while, the counter is not tested again.
UnlockWithoutRetest(t) ==
  /\ Goto(t, "unlock", "running")
  /\ Release(t, t)
  /\ UNCHANGED <<predecessors, todo, reg, taskNum, reports, spurious, returned>>

\* Mutation: the unlock after await is missing.
NoUnlockAfterWait(t) ==
  /\ Goto(t, "unlock", "check")
  /\ UNCHANGED <<predecessors, owner, todo, reg, taskNum, reports, spurious, returned>>

UnlockAfterWait(t) ==
  /\ Goto(t, "unlock", "check")
  /\ Release(t, t)
  /\ UNCHANGED <<predecessors, todo, reg, taskNum, reports, spurious, returned>>

-----------------------------------------------------------------------------
(* The task itself: the mapping of its ports to files and Task.run().      *)

TaskSucceeds(t) ==
  /\ Goto(t, "running", "readTaskNum")
  /\ UNCHANGED <<predecessors, owner, todo, reg, taskNum, reports, spurious, returned>>

\* An exception ends the thread: neither taskNum nor the children learn of it.
TaskThrows(t) ==
  /\ t \in MayThrow
  /\ Goto(t, "running", "failed")
  /\ UNCHANGED <<predecessors, owner, todo, reg, taskNum, reports, spurious, returned>>

-----------------------------------------------------------------------------
(* synchronized (this) { taskNum--; }: each thread synchronizes on its own *)
(* TaskRun, so the read and the write of the static are not exclusive.     *)

ReadTaskNum(t) ==
  /\ Goto(t, "readTaskNum", "writeTaskNum")
  /\ reg' = [reg EXCEPT ![t] = taskNum]
  /\ UNCHANGED <<predecessors, owner, todo, taskNum, reports, spurious, returned>>

WriteTaskNum(t) ==
  /\ Goto(t, "writeTaskNum", "testTaskNum")
  /\ taskNum' = reg[t] - 1
  /\ reg' = [reg EXCEPT ![t] = 0]
  /\ UNCHANGED <<predecessors, owner, todo, reports, spurious, returned>>

\* Mutation: the test is off by one.
TestTaskNumEarly(t) ==
  /\ Goto(t, "testTaskNum", "notify")
  /\ reports' = IF taskNum <= 1 THEN reports + 1 ELSE reports
  /\ todo' = [todo EXCEPT ![t] = Out(t)]
  /\ UNCHANGED <<predecessors, owner, reg, taskNum, spurious, returned>>

\* if (taskNum == 0) the elapsed time is printed; onFinished gets the children
TestTaskNum(t) ==
  /\ Goto(t, "testTaskNum", "notify")
  /\ reports' = IF taskNum = 0 THEN reports + 1 ELSE reports
  /\ todo' = [todo EXCEPT ![t] = Out(t)]
  /\ UNCHANGED <<predecessors, owner, reg, taskNum, spurious, returned>>

-----------------------------------------------------------------------------
(* onFinished(): onParentFinished() of each child, --predecessors and then *)
(* wakeUp(), which locks, signals and unlocks whatever the counter is.     *)

ReadPredecessors(t) ==
  /\ todo[t] # {}
  /\ Goto(t, "notify", "decrement")
  /\ reg' = [reg EXCEPT ![t] = predecessors[Child(t)]]
  /\ UNCHANGED <<predecessors, owner, todo, taskNum, reports, spurious, returned>>

WritePredecessors(t) ==
  /\ Goto(t, "decrement", "lockChild")
  /\ predecessors' = [predecessors EXCEPT ![Child(t)] = reg[t] - 1]
  /\ reg' = [reg EXCEPT ![t] = 0]
  /\ UNCHANGED <<owner, todo, taskNum, reports, spurious, returned>>

LockToSignal(t) ==
  /\ Goto(t, "lockChild", "signal")
  /\ Acquire(t, Child(t))
  /\ UNCHANGED <<predecessors, todo, reg, taskNum, reports, spurious, returned>>

\* Mutation: the thread signals its own condition instead of the child's.
SignalOwnCondition(t) ==
  /\ Goto(t, "signal", "unlockChild")
  /\ UNCHANGED <<predecessors, owner, todo, reg, taskNum, reports, spurious, returned>>

\* signal() has an effect only on a thread that is parked
Signal(t) ==
  /\ pc[t] = "signal"
  /\ pc' = [u \in Task |->
              IF u = t THEN "unlockChild"
              ELSE IF u = Child(t) /\ pc[u] = "parked" THEN "woken" ELSE pc[u]]
  /\ UNCHANGED <<predecessors, owner, todo, reg, taskNum, reports, spurious, returned>>

UnlockAfterSignal(t) ==
  /\ Goto(t, "unlockChild", "notify")
  /\ Release(t, Child(t))
  /\ todo' = [todo EXCEPT ![t] = @ \ {First(@)}]
  /\ UNCHANGED <<predecessors, reg, taskNum, reports, spurious, returned>>

Finish(t) ==
  /\ todo[t] = {}
  /\ Goto(t, "notify", "done")
  /\ UNCHANGED <<predecessors, owner, todo, reg, taskNum, reports, spurious, returned>>

-----------------------------------------------------------------------------
\* The steps a running JVM takes of thread t sooner or later.
Step(t) ==
  \/ Start(t)
  \/ CheckReady(t) \/ LockToWait(t) \/ Await(t)
  \/ ReturnFromAwait(t) \/ UnlockAfterWait(t)
  \/ TaskSucceeds(t) \/ TaskThrows(t)
  \/ ReadTaskNum(t) \/ WriteTaskNum(t) \/ TestTaskNum(t)
  \/ ReadPredecessors(t) \/ WritePredecessors(t)
  \/ LockToSignal(t) \/ Signal(t) \/ UnlockAfterSignal(t)
  \/ Finish(t)

Next == (\E t \in Task : Step(t) \/ SpuriousWakeup(t)) \/ Return

Spec == Init /\ [][Next]_vars

(***************************************************************************)
(* Threads are scheduled and the task of every thread ends; nothing is     *)
(* assumed of spurious wakeups.                                            *)
(***************************************************************************)
Fairness == (\A t \in Task : WF_vars(Step(t))) /\ WF_vars(Return)

FairSpec == Spec /\ Fairness
-----------------------------------------------------------------------------
(* What has happened so far, in terms of the program counters.             *)

\* The thread has found its task ready.
Begun(t) == pc[t] \notin {"new", "check", "lock", "await", "parked", "woken", "unlock"}

\* Task.run() of t has returned.
Executed(t) == Begun(t) /\ pc[t] \notin {"running", "failed"}

\* The task has been taken off taskNum.
Counted(t) == Executed(t) /\ pc[t] \notin {"readTaskNum", "writeTaskNum"}

\* The destination of channel c has had its counter decremented for it.
Notified(c) ==
  LET p == srcTask[c]
  IN  \/ pc[p] = "done"
      \/ pc[p] \in {"notify", "decrement"} /\ c \notin todo[p]
      \/ pc[p] \in {"lockChild", "signal", "unlockChild"} /\ c \notin todo[p] \ {First(todo[p])}

\* The channels of t whose decrement is still to come.
Pending(t) == {c \in In(t) : ~Notified(c)}

-----------------------------------------------------------------------------
PC == {"new", "check", "lock", "await", "parked", "woken", "unlock", "running", "failed",
       "readTaskNum", "writeTaskNum", "testTaskNum", "notify", "decrement",
       "lockChild", "signal", "unlockChild", "done"}

TypeOK ==
  /\ pc \in [Task -> PC]
  /\ predecessors \in [Task -> Nat]
  /\ owner \in [Task -> Task \cup {NoTask}]
  /\ todo \in [Task -> SUBSET Channel]
  /\ reg \in [Task -> Nat]
  /\ taskNum \in Nat
  /\ reports \in Nat
  /\ spurious \in 0 .. MaxSpurious
  /\ returned \in BOOLEAN

(***************************************************************************)
(* A loop over the children visits only channels of its own task, and is   *)
(* in the middle of an onParentFinished only while there is one to visit.  *)
(***************************************************************************)
LoopInv ==
  \A t \in Task :
    /\ todo[t] \subseteq Out(t)
    /\ pc[t] \in {"decrement", "lockChild", "signal", "unlockChild"} => todo[t] # {}
    /\ ~Counted(t) => todo[t] = {}

(***************************************************************************)
(* Although concurrent decrements of predecessors may be lost, the counter *)
(* never falls below the number of decrements still to come: a task can    *)
(* be held up by the race, never let go too early.                         *)
(***************************************************************************)
CounterInv ==
  /\ \A t \in Task : predecessors[t] >= Cardinality(Pending(t))
  /\ \A p \in Task : pc[p] = "decrement" => reg[p] >= Cardinality(Pending(Child(p)))
  /\ \A t \in Task : Begun(t) => Pending(t) = {}

\* The same for the static taskNum and the tasks it still has to count.
Uncounted == {t \in Task : ~Counted(t)}

TaskNumInv ==
  /\ taskNum >= Cardinality(Uncounted)
  /\ \A t \in Task : pc[t] = "writeTaskNum" => reg[t] >= Cardinality(Uncounted)
  /\ reports > 0 => Uncounted = {}

(***************************************************************************)
(* A lock is held exactly by the thread that is between its lock() and     *)
(* its unlock(): that of the task in its wait, or that of one parent in    *)
(* wakeUp().  So who holds a lock never waits for another one.             *)
(***************************************************************************)
Holds(t, u) ==
  \/ pc[t] \in {"await", "unlock"} /\ u = t
  \/ pc[t] \in {"signal", "unlockChild"} /\ u = Child(t)

LockInv == \A t, u \in Task : owner[u] = t <=> Holds(t, u)

IInv == TypeOK /\ LoopInv /\ CounterInv /\ TaskNumInv /\ LockInv

(***************************************************************************)
(* No task is started before Task.run() of every one of its parents has    *)
(* returned, whatever decrements and wakeups are lost or spurious.         *)
(***************************************************************************)
ParentsFirst ==
  \A t \in Task : Begun(t) => \A p \in Parents(t) : Executed(p)

(***************************************************************************)
(* The execution time is reported only when every task has been executed,  *)
(* although taskNum-- is not atomic.                                       *)
(***************************************************************************)
ReportsOnlyAtTheEnd ==
  reports > 0 => \A t \in Task : Executed(t)

(***************************************************************************)
(* Refinement: the threads implement the promise of Dataflow.              *)
(***************************************************************************)
status == [t \in Task |->
             IF ~Begun(t) THEN "waiting"
             ELSE IF pc[t] = "running" THEN "running"
             ELSE IF pc[t] = "failed" THEN "failed" ELSE "completed"]

D == INSTANCE Dataflow

ImplementsDataflow == D!Spec

-----------------------------------------------------------------------------
(* Why execute() may never return.                                         *)

\* Thread t has a next step: it has not ended, and waits neither for a lock nor for a signal.
CanStep(t) ==
  /\ pc[t] \notin {"parked", "failed", "done"}
  /\ pc[t] \in {"lock", "woken"} => owner[t] = NoTask
  /\ pc[t] = "lockChild" => owner[Child(t)] = NoTask

Parked == {t \in Task : pc[t] = "parked"}

(***************************************************************************)
(* When no thread can go on, none of them waits for a lock.  If some are   *)
(* parked, there is one of three reasons: a task has failed, the decrement *)
(* or the signal of a last parent has been lost, or the parked tasks wait  *)
(* for each other, which takes a cycle in the workflow.                    *)
(***************************************************************************)
StopsForAReason ==
  (\A t \in Task : ~CanStep(t)) =>
    /\ \A t \in Task : pc[t] \in {"parked", "failed", "done"}
    /\ \/ \E t \in Task : pc[t] = "failed"
       \/ \E t \in Parked : Pending(t) = {}
       \/ \A t \in Parked : Parents(t) \cap Parked # {}

\* The channels whose destination is still to be signalled by onFinished of p.
ToSignal(p) ==
  IF ~Counted(p) \/ pc[p] = "testTaskNum" THEN Out(p)
  ELSE todo[p] \ (IF pc[p] = "unlockChild" THEN {First(todo[p])} ELSE {})

Unsignalled == UNION {ToSignal(p) : p \in Task}

\* How far a thread is, as long as nothing is signalled.
Rank(p) ==
  CASE p \in {"new", "woken"} -> 0
    [] p = "unlock" -> 1
    [] p = "check" -> 2
    [] p = "lock" -> 3
    [] p = "await" -> 4
    [] p = "parked" -> 5
    [] p = "running" -> 6
    [] p \in {"failed", "readTaskNum"} -> 7
    [] p = "writeTaskNum" -> 8
    [] p = "testTaskNum" -> 9
    [] p = "unlockChild" -> 10
    [] p = "notify" -> 11
    [] p = "decrement" -> 12
    [] p = "lockChild" -> 13
    [] p = "signal" -> 14
    [] p = "done" -> 15

Advances(t) ==
  /\ Rank(pc'[t]) > Rank(pc[t])
  /\ \A u \in Task \ {t} : pc'[u] = pc[u]

(***************************************************************************)
(* No thread goes round in circles, neither in its wait nor over its       *)
(* children: a step either is a spurious wakeup, serves a channel for      *)
(* good, is the return of execute(), or takes one thread forward and       *)
(* leaves the others where they are.  So there is an end to the steps of   *)
(* every run with finitely many spurious wakeups.                          *)
(***************************************************************************)
Onward ==
  /\ spurious <= spurious' /\ Unsignalled' \subseteq Unsignalled /\ (returned => returned')
  /\ \/ spurious # spurious'
     \/ Unsignalled # Unsignalled'
     \/ returned # returned'
     \/ \E t \in Task : Advances(t)

AlwaysOnward == [][Onward]_vars

-----------------------------------------------------------------------------
(***************************************************************************)
(* A thread that is parked in await while its last parent takes the        *)
(* counter to zero is woken: the signal of that parent cannot miss it.     *)
(***************************************************************************)
LastParent(t) ==
  \E p \in Task : /\ pc[p] \in {"lockChild", "signal"}
                  /\ Child(p) = t

ParkedIsWoken ==
  \A t \in Task :
    (pc[t] = "parked" /\ predecessors[t] = 0 /\ LastParent(t)) ~> Begun(t)

(***************************************************************************)
(* The locks never get in the way: a task that has been executed gets to   *)
(* notify all its children, and its thread ends.                           *)
(***************************************************************************)
NotificationCompletes ==
  \A t \in Task : Executed(t) ~> pc[t] = "done"

(***************************************************************************)
(* Each task checks its readiness until all its parents completed, so that *)
(* when no task throws every task is executed in the end.                  *)
(***************************************************************************)
EveryTaskExecuted ==
  \A t \in Task : <>Executed(t)

=============================================================================
