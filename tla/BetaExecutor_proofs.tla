------------------------- MODULE BetaExecutor_proofs -------------------------
(***************************************************************************)
(* Proofs about WorkflowExecutor_Beta for every workflow graph and every   *)
(* distribution of its tasks over local schedules, whatever their orders.  *)
(***************************************************************************)
EXTENDS BetaExecutor, FiniteSetTheorems, WellFoundedInduction, NaturalsInduction, TLAPS

(***************************************************************************)
(* A thread in the loop over the children is at a channel of its current   *)
(* task.  The outcome of that task goes with the place of the thread, and  *)
(* the tasks behind it in the schedule are still waiting.                  *)
(***************************************************************************)
BeforeSubmit == {"new", "check", "lock", "await", "parked", "woken", "unlock", "submit"}

ThreadInv(s) ==
  /\ todo[s] \subseteq Out(Current(s))
  /\ pc[s] \in {"decrement", "testNum", "lockOwner", "signal", "unlockOwner"} => todo[s] # {}
  /\ pc[s] \in BeforeSubmit => outcome[Current(s)] = "waiting"
  /\ pc[s] = "answer" => outcome[Current(s)] = "running"
  /\ pc[s] \in AfterAnswer => outcome[Current(s)] = "completed"
  /\ \A i \in DOMAIN runTask[s] : i > pos[s] => outcome[runTask[s][i]] = "waiting"

\* A task whose counter was found at zero has nothing pending, before it has begun.
ReadyInv == \A s \in Schedule : pc[s] = "submit" => Pending(Current(s)) = {}

\* A thread leaves a task as soon as its entry throws.
EntryInv ==
  \A s \in Schedule :
    /\ pc[s] # "done" => entry[Current(s)] # "thrown"
    /\ \A i \in DOMAIN runTask[s] : i > pos[s] => entry[runTask[s][i]] # "thrown"

IInv == TypeOK /\ (\A s \in Schedule : ThreadInv(s)) /\ ReadyInv /\ CountersBound /\ EntryInv

-----------------------------------------------------------------------------
(***************************************************************************)
(* The loop over the children visits an entry of its queue: First(S) is a  *)
(* member of every non-empty set of channels.                              *)
(***************************************************************************)
LEMMA FirstIn ==
  ASSUME NEW S, S \subseteq Channel, S # {}
  PROVE  First(S) \in S
<1> DEFINE Less == {p \in Nat \X Nat : p[1] < p[2]}
<1>1. IsWellFoundedOn(OpToRel(<, Nat), Nat)
  BY NatLessThanWellFounded
<1>2. OpToRel(<, Nat) = Less
  BY DEF OpToRel
<1>3. S \subseteq Nat
  BY GraphAssumption DEF Channel
<1> HIDE DEF Less
<1>4. PICK c \in S : \A d \in S : ~ (<<d, c>> \in Less)
  BY <1>1, <1>2, <1>3, WFMin
<1>5. ASSUME NEW d \in S PROVE c <= d
  <2>1. c \in Nat /\ d \in Nat
    BY <1>3
  <2>2. ~ (<<d, c>> \in Less)
    BY <1>4
  <2>3. ~ (d < c)
    BY <2>1, <2>2 DEF Less
  <2>4. QED
    BY <2>1, <2>3
<1>6. QED
  BY <1>5 DEF First

\* The entries of getParents() are finitely many.
LEMMA InFinite ==
  ASSUME NEW t, NEW S \in SUBSET In(t)
  PROVE  IsFiniteSet(S) /\ Cardinality(S) \in Nat
<1>1. IsFiniteSet(Channel)
  BY GraphAssumption, FS_Interval DEF Channel
<1>2. S \subseteq Channel
  BY DEF In
<1>3. QED
  BY <1>1, <1>2, FS_Subset, FS_CardinalityType

\* A place in a schedule holds a task, which is owned by the thread of the schedule.
LEMMA Places ==
  ASSUME NEW s \in Schedule, NEW i \in DOMAIN runTask[s]
  PROVE  /\ i \in Nat
         /\ runTask[s][i] \in Task
         /\ Owner(runTask[s][i]) = s
<1>1. runTask[s] \in Seq(Task)
  BY PlanAssumption
<1>2. i \in Nat /\ runTask[s][i] \in Task /\ runTask[s][i] \in Tasks(s)
  BY <1>1 DEF Tasks
<1>3. \A r \in Schedule : runTask[s][i] \in Tasks(r) => r = s
  BY <1>2, PlanAssumption
<1>4. QED
  BY <1>2, <1>3 DEF Owner

\* Every task is owned by a thread.
LEMMA Owners ==
  ASSUME NEW t \in Task
  PROVE  /\ Owner(t) \in Schedule
         /\ \E i \in DOMAIN runTask[Owner(t)] : t = runTask[Owner(t)][i]
<1>1. \E s \in Schedule : t \in Tasks(s)
  BY PlanAssumption
<1>2. Owner(t) \in Schedule /\ t \in Tasks(Owner(t))
  BY <1>1 DEF Owner
<1>3. QED
  BY <1>2 DEF Tasks

\* The current tasks of different threads are different tasks.
LEMMA Currents ==
  ASSUME TypeOK, NEW s \in Schedule
  PROVE  /\ Current(s) \in Task
         /\ Owner(Current(s)) = s
         /\ \A r \in Schedule : Current(r) = Current(s) => r = s
<1>1. \A r \in Schedule : Current(r) \in Task /\ Owner(Current(r)) = r
  BY Places DEF TypeOK, Current
<1>2. QED
  BY <1>1

\* The places behind the current one hold other tasks; the next one is among them, if there is any.
LEMMA Later ==
  ASSUME TypeOK, NEW s \in Schedule
  PROVE  /\ pos[s] \in Nat
         /\ \A i \in DOMAIN runTask[s] : i > pos[s] => runTask[s][i] \in Task /\ runTask[s][i] # Current(s)
         /\ pos[s] # Len(runTask[s]) => pos[s] + 1 \in DOMAIN runTask[s] /\ pos[s] + 1 > pos[s]
<1>1. runTask[s] \in Seq(Task)
  BY PlanAssumption
<1>2. DOMAIN runTask[s] = 1 .. Len(runTask[s]) /\ Len(runTask[s]) \in Nat
  BY <1>1
<1>3. pos[s] \in DOMAIN runTask[s]
  BY DEF TypeOK
<1>4. \A i, j \in DOMAIN runTask[s] : runTask[s][i] = runTask[s][j] => i = j
  BY PlanAssumption
<1>5. pos[s] \in Nat /\ (pos[s] # Len(runTask[s]) => pos[s] + 1 \in DOMAIN runTask[s] /\ pos[s] + 1 > pos[s])
  BY <1>2, <1>3
<1>6. ASSUME NEW i \in DOMAIN runTask[s], i > pos[s] PROVE runTask[s][i] \in Task /\ runTask[s][i] # Current(s)
  <2>1. i # pos[s]
    BY <1>2, <1>5, <1>6
  <2>2. runTask[s][i] # runTask[s][pos[s]]
    BY <1>3, <1>4, <2>1
  <2>3. QED
    BY <2>2, Places DEF Current
<1>7. QED
  BY <1>5, <1>6

-----------------------------------------------------------------------------
(***************************************************************************)
(* What a step of a thread leaves alone: the variables of other threads,   *)
(* except that it may wake one, and what has become of their tasks.        *)
(***************************************************************************)
LEMMA Others ==
  ASSUME TypeOK, NEW s \in Schedule, Step(s) \/ SpuriousWakeup(s), NEW r \in Schedule \ {s}
  PROVE  /\ pos'[r] = pos[r] /\ todo'[r] = todo[r] /\ reg'[r] = reg[r]
         /\ Current(r)' = Current(r)
         /\ pc'[r] = pc[r] \/ (pc[r] = "parked" /\ pc'[r] = "woken")
<1> USE DEF TypeOK, Goto
<1>1. CASE \/ Start(s) \/ CheckReady(s) \/ LockToWait(s) \/ Await(s) \/ ReturnFromAwait(s)
           \/ UnlockAfterWait(s) \/ SpuriousWakeup(s) \/ Submit(s) \/ Answered(s)
  BY <1>1 DEF Start, CheckReady, LockToWait, Await, ReturnFromAwait, UnlockAfterWait, SpuriousWakeup,
       Submit, Answered, Current
<1>2. CASE SubmissionFails(s) \/ AddThrows(s) \/ RecordThrows(s) \/ Finish(s)
  <2>1. PICK from : NextTask(s, from) /\ reg'[r] = reg[r]
    BY <1>2 DEF SubmissionFails, AddThrows, Enters, RecordThrows, Finish
  <2>2. QED
    BY <2>1 DEF NextTask, Current
<1>3. CASE VMHangs(s) \/ BeginAdd(s) \/ EndAdd(s) \/ ReadTaskNum(s) \/ WriteTaskNum(s)
  BY <1>3 DEF VMHangs, BeginAdd, EndAdd, AddThrows, Enters, ReadTaskNum, WriteTaskNum, Current
<1>4. CASE TestTaskNum(s) \/ Record(s) \/ ReadNum(s) \/ WriteNum(s) \/ TestNum(s)
  BY <1>4 DEF TestTaskNum, Record, ReadNum, WriteNum, TestNum, Current
<1>5. CASE LockToSignal(s) \/ UnlockAfterSignal(s)
  BY <1>5 DEF LockToSignal, UnlockAfterSignal, Current
<1>6. CASE Signal(s)
  BY <1>6 DEF Signal, Current
<1>7. QED
  BY <1>1, <1>2, <1>3, <1>4, <1>5, <1>6 DEF Step

\* The outcome of a task changes at three places of its own thread only.
LEMMA Outcomes ==
  ASSUME TypeOK, NEW s \in Schedule, Step(s) \/ SpuriousWakeup(s)
  PROVE  \/ UNCHANGED outcome
         \/ pc[s] = "submit" /\ outcome' = [outcome EXCEPT ![Current(s)] = "running"]
         \/ pc[s] = "answer" /\ pc'[s] = "add" /\ outcome' = [outcome EXCEPT ![Current(s)] = "completed"]
         \/ pc[s] = "answer" /\ outcome' = [outcome EXCEPT ![Current(s)] = "failed"]
BY DEF TypeOK, Goto, Step, NextTask, Start, CheckReady, LockToWait, Await, ReturnFromAwait, UnlockAfterWait, SpuriousWakeup,
   Submit, Answered, SubmissionFails, VMHangs, BeginAdd, EndAdd, AddThrows, Enters, ReadTaskNum, WriteTaskNum, TestTaskNum, Record,
   RecordThrows, ReadNum, WriteNum, TestNum, LockToSignal, Signal, UnlockAfterSignal, Finish

\* An entry of the list is made by the thread of its task only, and throws only at the end of its round.
LEMMA Entries ==
  ASSUME TypeOK, NEW s \in Schedule, Step(s) \/ SpuriousWakeup(s)
  PROVE  \/ UNCHANGED entry
         \/ /\ pc[s] = "adding" /\ \A t \in Task \ {Current(s)} : entry'[t] = entry[t]
            /\ \/ entry'[Current(s)] # "thrown"
               \/ NextTask(s, "adding")
<1>1. CASE EndAdd(s)
  <2>1. PICK e \in {"listed", "lost", "null"} : entry' = [entry EXCEPT ![Current(s)] = e]
    BY <1>1 DEF EndAdd, Enters
  <2>2. Current(s) \in Task
    BY Currents
  <2>3. QED
    BY <1>1, <2>1, <2>2 DEF EndAdd, Goto, TypeOK
<1>2. CASE AddThrows(s)
  BY <1>2 DEF AddThrows, Enters, NextTask, Goto, TypeOK
<1>3. QED
  BY <1>1, <1>2 DEF Step, Start, CheckReady, LockToWait, Await, ReturnFromAwait, UnlockAfterWait, SpuriousWakeup,
     Submit, Answered, SubmissionFails, VMHangs, BeginAdd, ReadTaskNum, WriteTaskNum, TestTaskNum, Record,
     RecordThrows, ReadNum, WriteNum, TestNum, LockToSignal, Signal, UnlockAfterSignal, Finish
-----------------------------------------------------------------------------
(***************************************************************************)
(* ThreadInv is preserved: for the thread that takes the step, action by   *)
(* action; for the others, since the step is not about their tasks.        *)
(***************************************************************************)
LEMMA OwnThreadStep ==
  ASSUME TypeOK, NEW s \in Schedule, ThreadInv(s), Step(s) \/ SpuriousWakeup(s)
  PROVE  ThreadInv(s)'
<1> USE DEF TypeOK, Goto, ThreadInv, BeforeSubmit, AfterAnswer
<1>0. Current(s) \in Task
  BY Currents
<1>1. CASE UNCHANGED <<pos, todo, outcome>> /\ pc[s] \in BeforeSubmit /\ pc'[s] \in BeforeSubmit
  BY <1>1 DEF Current
<1>2. CASE Start(s) \/ CheckReady(s) \/ SpuriousWakeup(s)
  BY <1>1, <1>2 DEF Start, CheckReady, SpuriousWakeup
<1>3. CASE LockToWait(s) \/ Await(s) \/ ReturnFromAwait(s) \/ UnlockAfterWait(s)
  BY <1>1, <1>3 DEF LockToWait, Await, ReturnFromAwait, UnlockAfterWait
<1>4. ASSUME UNCHANGED <<pos, todo>>, \A i \in DOMAIN runTask[s] : i > pos[s] => outcome'[runTask[s][i]] = outcome[runTask[s][i]],
             pc'[s] \in {"answer", "hung", "add"}, pc'[s] = "answer" => outcome'[Current(s)] = "running",
             pc'[s] = "add" => outcome'[Current(s)] = "completed"
      PROVE  ThreadInv(s)'
  BY <1>4 DEF Current
<1>5. \A i \in DOMAIN runTask[s] : i > pos[s] => runTask[s][i] \in Task /\ runTask[s][i] # Current(s)
  BY Later
<1>6. CASE Submit(s) \/ Answered(s) \/ VMHangs(s)
  BY <1>0, <1>4, <1>5, <1>6 DEF Submit, Answered, VMHangs
<1>7. ASSUME NEW from, NextTask(s, from),
             \A i \in DOMAIN runTask[s] : i > pos[s] => outcome'[runTask[s][i]] = outcome[runTask[s][i]]
      PROVE  ThreadInv(s)'
  <2>1. CASE pos[s] = Len(runTask[s])
    BY <1>7, <2>1 DEF NextTask, Current
  <2>2. CASE pos[s] # Len(runTask[s])
    <3>1. pos'[s] = pos[s] + 1 /\ pc'[s] = "check" /\ todo'[s] = {}
      BY <1>7, <2>2 DEF NextTask
    <3>2. pos[s] \in Nat /\ pos[s] + 1 \in DOMAIN runTask[s] /\ pos[s] + 1 > pos[s]
      BY <2>2, Later
    <3>3. \A i \in DOMAIN runTask[s] : i > pos'[s] => outcome'[runTask[s][i]] = "waiting"
      <4> SUFFICES ASSUME NEW i \in DOMAIN runTask[s], i > pos'[s] PROVE outcome'[runTask[s][i]] = "waiting"
        OBVIOUS
      <4>1. i \in Nat
        BY Places
      <4>2. i > pos[s]
        BY <3>1, <3>2, <4>1
      <4>3. QED
        BY <1>7, <4>2
    <3>4. outcome'[Current(s)'] = "waiting"
      <4>1. outcome'[runTask[s][pos[s] + 1]] = "waiting"
        BY <1>7, <3>2
      <4>2. QED
        BY <3>1, <4>1 DEF Current
    <3>5. QED
      BY <3>1, <3>3, <3>4
  <2>3. QED
    BY <2>1, <2>2
<1>8. CASE SubmissionFails(s) \/ AddThrows(s) \/ RecordThrows(s) \/ Finish(s)
  BY <1>5, <1>7, <1>8 DEF SubmissionFails, AddThrows, Enters, RecordThrows, Finish
<1>9. CASE BeginAdd(s) \/ EndAdd(s) \/ ReadTaskNum(s) \/ WriteTaskNum(s)
  BY <1>9 DEF BeginAdd, EndAdd, AddThrows, Enters, ReadTaskNum, WriteTaskNum, Current
<1>10. CASE TestTaskNum(s) \/ Record(s)
  BY <1>10 DEF TestTaskNum, Record, Current
<1>11. CASE ReadNum(s) \/ WriteNum(s) \/ TestNum(s)
  BY <1>11 DEF ReadNum, WriteNum, TestNum, Current
<1>12. CASE LockToSignal(s) \/ Signal(s) \/ UnlockAfterSignal(s)
  BY <1>12 DEF LockToSignal, Signal, UnlockAfterSignal, Current
<1>13. QED
  BY <1>2, <1>3, <1>6, <1>8, <1>9, <1>10, <1>11, <1>12 DEF Step

\* The other threads keep ThreadInv.
LEMMA OtherThreadStep ==
  ASSUME TypeOK, NEW s \in Schedule, Step(s) \/ SpuriousWakeup(s), NEW r \in Schedule \ {s}, ThreadInv(r)
  PROVE  ThreadInv(r)'
<1>1. \A i \in DOMAIN runTask[r] : runTask[r][i] # Current(s)
  BY Places, Currents
<1>2. \A i \in DOMAIN runTask[r] : outcome'[runTask[r][i]] = outcome[runTask[r][i]]
  <2>1. \A t \in Task \ {Current(s)} : outcome'[t] = outcome[t]
    BY Outcomes DEF TypeOK
  <2>2. QED
    BY <1>1, <2>1, Places
<1>3. outcome'[Current(r)] = outcome[Current(r)]
  BY <1>2 DEF TypeOK, Current
<1>4. QED
  BY <1>2, <1>3, Others DEF ThreadInv, BeforeSubmit, AfterAnswer

\* EntryInv is preserved: the round in which the entry of a task throws is its last.
LEMMA EntryStep == IInv /\ [Next]_vars => EntryInv'
<1> SUFFICES ASSUME IInv, [Next]_vars PROVE EntryInv'
  OBVIOUS
<1>1. CASE UNCHANGED vars
  BY <1>1 DEF vars, IInv, EntryInv, Current
<1>2. ASSUME NEW s \in Schedule, Step(s) \/ SpuriousWakeup(s), NEW r \in Schedule
      PROVE  /\ pc'[r] # "done" => entry'[Current(r)'] # "thrown"
             /\ \A i \in DOMAIN runTask[r] : i > pos'[r] => entry'[runTask[r][i]] # "thrown"
  <2> USE <1>2 DEF IInv
  <2>0. /\ pc[r] # "done" => entry[Current(r)] # "thrown"
        /\ \A i \in DOMAIN runTask[r] : i > pos[r] => entry[runTask[r][i]] # "thrown"
        /\ Current(r) \in Task /\ Current(s) \in Task
    BY Currents DEF EntryInv
  <2>1. CASE r # s
    <3>1. /\ \A i \in DOMAIN runTask[r] : runTask[r][i] \in Task \ {Current(s)}
          /\ Current(r) # Current(s)
      BY <2>1, Places, Currents
    <3>2. \A t \in Task \ {Current(s)} : entry'[t] = entry[t]
      BY Entries
    <3>3. QED
      BY <2>0, <2>1, <3>1, <3>2, Others
  <2>2. CASE r = s
    <3>1. /\ \A i \in DOMAIN runTask[s] : i > pos[s] => runTask[s][i] \in Task \ {Current(s)}
          /\ pos[s] \in Nat
      BY Later
    <3>2. \A i \in DOMAIN runTask[s] : i > pos[s] => entry'[runTask[s][i]] # "thrown"
      BY <2>0, <2>2, <3>1, Entries
    <3>3. ASSUME NEW from, NextTask(s, from), pos[s] # Len(runTask[s])
          PROVE  /\ entry'[Current(s)'] # "thrown"
                 /\ \A i \in DOMAIN runTask[s] : i > pos'[s] => i > pos[s]
      <4>1. pos'[s] = pos[s] + 1 /\ pos[s] + 1 \in DOMAIN runTask[s] /\ pos[s] + 1 > pos[s]
        BY <3>3, Later DEF NextTask, TypeOK
      <4>2. Current(s)' = runTask[s][pos[s] + 1]
        BY <4>1 DEF Current
      <4>3. QED
        BY <3>1, <3>2, <4>1, <4>2, Places
    <3>4. ASSUME NEW from, NextTask(s, from), pos[s] = Len(runTask[s])
          PROVE  pc'[s] = "done" /\ pos'[s] = pos[s]
      BY <3>4 DEF NextTask, Goto, TypeOK
    <3>5. CASE \E from : NextTask(s, from)
      BY <2>2, <3>2, <3>3, <3>4, <3>5
    <3>6. CASE ~ \E from : NextTask(s, from)
      <4>1. /\ pos'[s] = pos[s] /\ Current(s)' = Current(s)
            /\ pc[s] # "done"
        BY <3>6 DEF Step, Start, CheckReady, LockToWait, Await, ReturnFromAwait, UnlockAfterWait, SpuriousWakeup,
           Submit, Answered, SubmissionFails, VMHangs, BeginAdd, EndAdd, AddThrows, ReadTaskNum, WriteTaskNum,
           TestTaskNum, Record, RecordThrows, ReadNum, WriteNum, TestNum, LockToSignal, Signal, UnlockAfterSignal,
           Finish, Goto, Current
      <4>2. entry'[Current(s)] # "thrown"
        BY <2>0, <2>2, <3>6, <4>1, Entries
      <4>3. QED
        BY <2>2, <3>2, <4>1, <4>2
    <3>7. QED
      BY <3>5, <3>6
  <2>3. QED
    BY <2>1, <2>2
<1>3. CASE Next
  BY <1>2, <1>3 DEF Next, EntryInv
<1>4. QED
  BY <1>1, <1>3

\* ThreadInv is preserved for all threads.
LEMMA ThreadStep == IInv /\ [Next]_vars => \A s \in Schedule : ThreadInv(s)'
<1> SUFFICES ASSUME IInv, [Next]_vars, NEW s \in Schedule PROVE ThreadInv(s)'
  OBVIOUS
<1>1. CASE UNCHANGED vars
  BY <1>1 DEF IInv, vars, ThreadInv, Current
<1>2. CASE Next
  BY <1>2, OwnThreadStep, OtherThreadStep DEF IInv, Next
<1>3. QED
  BY <1>1, <1>2

-----------------------------------------------------------------------------
(***************************************************************************)
(* A child that has been notified stays so: the channels of a task that    *)
(* are pending only become fewer.                                          *)
(***************************************************************************)
LEMMA NotifiedStays ==
  ASSUME IInv, NEW s \in Schedule, Step(s) \/ SpuriousWakeup(s),
         NEW t \in Task, NEW c \in In(t), Notified(c)
  PROVE  Notified(c)'
<1> DEFINE p == srcTask[c]
           r == Owner(p)
<1> USE DEF IInv, TypeOK, Goto, ThreadInv
<1>0. p \in Task /\ c \in Channel /\ c \in Out(p)
  BY GraphAssumption DEF In, Out
<1>1. r \in Schedule /\ ThreadInv(r) /\ ThreadInv(s) /\ Current(s) \in Task
  BY <1>0, Owners, Currents
<1>2. outcome[p] = "completed"
  BY DEF Notified
<1>3. outcome'[p] = "completed"
  <2>1. pc[s] = "submit" \/ pc[s] = "answer" => p # Current(s)
    BY <1>1, <1>2 DEF BeforeSubmit
  <2>2. QED
    BY <1>0, <1>2, <2>1, Outcomes
<1>31. entry'[p] # "thrown"
  <2>1. pc[s] = "adding" => p # Current(s)
    <3>1. p = Current(s) => r = s
      BY <1>0, Currents
    <3>2. QED
      BY <3>1 DEF Notified
  <2>2. QED
    BY <1>0, <2>1, Entries DEF Notified
<1>4. CASE r # s
  BY <1>1, <1>2, <1>3, <1>31, <1>4, Others DEF Notified
<1>5. ASSUME r = s, Current(s) # p, Current(s)' = Current(s) PROVE Notified(c)'
  BY <1>3, <1>31, <1>5 DEF Notified
<1>6. ASSUME r = s, NEW from, NextTask(s, from) PROVE Notified(c)'
  <2>1. CASE pos[s] = Len(runTask[s])
    BY <1>3, <1>31, <1>6, <2>1 DEF NextTask, Notified
  <2>2. CASE pos[s] # Len(runTask[s])
    <3>1. pos'[s] = pos[s] + 1 /\ pos[s] + 1 \in DOMAIN runTask[s] /\ pos[s] + 1 > pos[s]
      BY <1>6, <2>2, Later DEF NextTask
    <3>2. outcome[runTask[s][pos[s] + 1]] = "waiting"
      BY <1>1, <3>1
    <3>3. Current(s)' # p
      BY <1>2, <3>1, <3>2 DEF Current
    <3>4. QED
      BY <1>3, <1>31, <1>6, <3>3 DEF Notified
  <2>3. QED
    BY <2>1, <2>2
<1>7. CASE r = s
  <2> USE <1>7, <1>1, <1>2, <1>3, <1>31
  <2>1. CASE SubmissionFails(s) \/ AddThrows(s) \/ RecordThrows(s) \/ Finish(s)
    BY <1>6, <2>1 DEF SubmissionFails, AddThrows, Enters, RecordThrows, Finish
  <2>2. CASE \/ Start(s) \/ CheckReady(s) \/ LockToWait(s) \/ Await(s) \/ ReturnFromAwait(s)
             \/ UnlockAfterWait(s) \/ SpuriousWakeup(s) \/ Submit(s) \/ Answered(s) \/ VMHangs(s)
    <3>1. Current(s)' = Current(s) /\ pc[s] \in BeforeSubmit \cup {"answer"}
      BY <2>2 DEF Start, CheckReady, LockToWait, Await, ReturnFromAwait, UnlockAfterWait, SpuriousWakeup,
           Submit, Answered, VMHangs, Current, BeforeSubmit
    <3>2. QED
      BY <1>5, <3>1 DEF BeforeSubmit
  <2>3. CASE BeginAdd(s) \/ EndAdd(s) \/ ReadTaskNum(s) \/ WriteTaskNum(s) \/ TestTaskNum(s) \/ Record(s)
    <3>1. Current(s)' = Current(s) /\ pc[s] \in {"add", "adding", "readTaskNum", "writeTaskNum", "testTaskNum", "record"}
      BY <2>3 DEF BeginAdd, EndAdd, AddThrows, Enters, ReadTaskNum, WriteTaskNum, TestTaskNum, Record, Current
    <3>2. Current(s) # p
      BY <3>1 DEF Notified
    <3>3. QED
      BY <1>5, <3>1, <3>2
  <2>4. CASE ReadNum(s) \/ WriteNum(s) \/ LockToSignal(s)
    BY <2>4 DEF ReadNum, WriteNum, LockToSignal, Notified, Current
  <2>5. CASE TestNum(s)
    BY <2>5 DEF TestNum, Notified, Current
  <2>6. CASE Signal(s) \/ UnlockAfterSignal(s)
    BY <2>6 DEF Signal, UnlockAfterSignal, Notified, Current
  <2>7. QED
    BY <2>1, <2>2, <2>3, <2>4, <2>5, <2>6 DEF Step
<1>8. QED
  BY <1>4, <1>7
\* So the channels of a task that are pending only become fewer.
LEMMA PendingShrinks ==
  ASSUME IInv, [Next]_vars, NEW t \in Task
  PROVE  /\ Pending(t)' \subseteq Pending(t)
         /\ IsFiniteSet(Pending(t)) /\ Cardinality(Pending(t)) \in Nat
         /\ Cardinality(Pending(t)') \in Nat /\ Cardinality(Pending(t)') <= Cardinality(Pending(t))
<1>1. ASSUME NEW c \in In(t), Notified(c) PROVE Notified(c)'
  <2>1. CASE UNCHANGED vars
    BY <1>1, <2>1 DEF vars, Notified, Current
  <2>2. QED
    BY <1>1, <2>1, NotifiedStays DEF Next
<1>2. Pending(t)' \subseteq Pending(t)
  BY <1>1 DEF Pending
<1>3. Pending(t) \subseteq In(t) /\ Pending(t)' \subseteq In(t)
  BY DEF Pending
<1>4. QED
  BY <1>2, <1>3, InFinite, FS_Subset

(***************************************************************************)
(* The child a thread is at in its loop is a task, with a channel from the *)
(* current task of the thread.                                             *)
(***************************************************************************)
LEMMA ChildIsTask ==
  ASSUME IInv, NEW s \in Schedule, todo[s] # {}
  PROVE  /\ First(todo[s]) \in todo[s] /\ First(todo[s]) \in In(Child(s))
         /\ srcTask[First(todo[s])] = Current(s)
         /\ Child(s) \in Task
<1>1. todo[s] \subseteq Out(Current(s)) /\ Current(s) \in Task
  BY Currents DEF IInv, ThreadInv
<1>2. First(todo[s]) \in todo[s]
  BY <1>1, FirstIn DEF Out
<1>3. QED
  BY <1>1, <1>2, GraphAssumption DEF Child, Out, In

(***************************************************************************)
(* The write of a decrement takes the channel being visited off the        *)
(* pending channels of the child.                                          *)
(***************************************************************************)
LEMMA PendingWrite ==
  ASSUME IInv, NEW s \in Schedule, WriteNum(s)
  PROVE  Cardinality(Pending(Child(s))') <= Cardinality(Pending(Child(s))) - 1
<1> PICK c : c = First(todo[s])
  OBVIOUS
<1> PICK d : d = Child(s)
  OBVIOUS
<1>1. /\ pc[s] = "decrement" /\ pc'[s] = "testNum" /\ todo' = todo /\ pos' = pos /\ outcome' = outcome
      /\ entry' = entry
  BY DEF WriteNum, Goto, IInv, TypeOK
<1>2. c \in todo[s] /\ c \in In(d) /\ srcTask[c] = Current(s) /\ d \in Task
  BY <1>1, ChildIsTask DEF IInv, ThreadInv
<1>3. Owner(srcTask[c]) = s /\ outcome[srcTask[c]] = "completed" /\ entry[srcTask[c]] # "thrown"
  BY <1>1, <1>2, Currents DEF IInv, ThreadInv, AfterAnswer, EntryInv
<1>4. ~Notified(c)
  BY <1>1, <1>2, <1>3 DEF Notified
<1>5. Notified(c)'
  BY <1>1, <1>2, <1>3 DEF Notified
<1>6. Child(s)' = d
  BY <1>1 DEF Child
<1>7. [Next]_vars
  BY DEF Next, Step
<1>8. /\ Pending(d)' \subseteq Pending(d) \ {c} /\ c \in Pending(d)
      /\ IsFiniteSet(Pending(d)) /\ Cardinality(Pending(d)) \in Nat
  <2>1. /\ Pending(d)' \subseteq Pending(d) /\ IsFiniteSet(Pending(d)) /\ Cardinality(Pending(d)) \in Nat
    BY <1>2, <1>7, PendingShrinks
  <2>2. c \notin Pending(d)' /\ c \in Pending(d)
    BY <1>2, <1>4, <1>5 DEF Pending
  <2>3. QED
    BY <2>1, <2>2
<1>9. /\ IsFiniteSet(Pending(d) \ {c})
      /\ Cardinality(Pending(d) \ {c}) = Cardinality(Pending(d)) - 1
  BY <1>8, FS_RemoveElement
<1>10. Cardinality(Pending(d)') <= Cardinality(Pending(d)) - 1
  BY <1>8, <1>9, FS_Subset
<1>11. QED
  BY <1>6, <1>10

-----------------------------------------------------------------------------
(***************************************************************************)
(* CounterInv: the counters and what is read from them hold no less than   *)
(* what is pending, and a task has begun only with its counter at zero.    *)
(***************************************************************************)
LEMMA NumStep ==
  ASSUME IInv, NEW s \in Schedule, Step(s) \/ SpuriousWakeup(s), NEW t \in Task
  PROVE  num'[t] >= Cardinality(Pending(t)')
<1>0. [Next]_vars
  BY DEF Next
<1>1. /\ Cardinality(Pending(t)) \in Nat /\ Cardinality(Pending(t)') \in Nat
      /\ Cardinality(Pending(t)') <= Cardinality(Pending(t))
  BY <1>0, PendingShrinks
<1>2. num[t] >= Cardinality(Pending(t)) /\ num \in [Task -> Nat]
  BY DEF IInv, CountersBound, CounterInv, TypeOK
<1>3. CASE num' = num
  BY <1>1, <1>2, <1>3
<1>4. CASE WriteNum(s)
  <2>1. Child(s) \in Task /\ pc[s] = "decrement" /\ reg[s] \in Nat
    BY <1>4, ChildIsTask DEF WriteNum, Goto, IInv, ThreadInv, TypeOK
  <2>2. num' = [num EXCEPT ![Child(s)] = reg[s] - 1]
    BY <1>4 DEF WriteNum
  <2>3. CASE t # Child(s)
    BY <1>1, <1>2, <2>2, <2>3
  <2>4. CASE t = Child(s)
    <3>1. num'[t] = reg[s] - 1
      BY <1>2, <2>1, <2>2, <2>4
    <3>2. reg[s] >= Cardinality(Pending(t))
      BY <2>1, <2>4 DEF IInv, CountersBound, CounterInv
    <3>3. Cardinality(Pending(t)') <= Cardinality(Pending(t)) - 1
      <4>1. Child(s)' = Child(s)
        BY <1>4 DEF WriteNum, Child
      <4>2. QED
        BY <1>4, <2>4, <4>1, PendingWrite
    <3>4. QED
      BY <1>1, <2>1, <3>1, <3>2, <3>3
  <2>5. QED
    BY <2>3, <2>4
<1>5. QED
  BY <1>3, <1>4 DEF Step, Start, CheckReady, LockToWait, Await, ReturnFromAwait, UnlockAfterWait, SpuriousWakeup,
     Submit, Answered, SubmissionFails, VMHangs, BeginAdd, EndAdd, AddThrows, Enters, ReadTaskNum, WriteTaskNum, TestTaskNum, Record,
     RecordThrows, ReadNum, TestNum, LockToSignal, Signal, UnlockAfterSignal, Finish

\* What a thread is going to write back as a counter is enough too.
LEMMA RegStep ==
  ASSUME IInv, NEW s \in Schedule, Step(s) \/ SpuriousWakeup(s), NEW r \in Schedule, pc'[r] = "decrement"
  PROVE  reg'[r] >= Cardinality(Pending(Child(r))')
<1>1. \/ r = s /\ ReadNum(s)
      \/ pc[r] = "decrement" /\ reg'[r] = reg[r] /\ todo'[r] = todo[r]
  <2>1. CASE r # s
    BY <2>1, Others DEF IInv
  <2>2. CASE r = s
    BY <2>2 DEF IInv, TypeOK, Goto, Step, NextTask, Start, CheckReady, LockToWait, Await, ReturnFromAwait,
       UnlockAfterWait, SpuriousWakeup, Submit, Answered, SubmissionFails, VMHangs, BeginAdd, EndAdd, AddThrows, Enters, ReadTaskNum,
       WriteTaskNum, TestTaskNum, Record, RecordThrows, WriteNum, TestNum, LockToSignal, Signal, UnlockAfterSignal, Finish
  <2>3. QED
    BY <2>1, <2>2
<1>2. todo[r] # {} /\ todo'[r] = todo[r]
  BY <1>1 DEF ReadNum, IInv, ThreadInv
<1>3. PICK d \in Task : d = Child(r) /\ d = Child(r)'
  BY <1>2, ChildIsTask DEF Child
<1>4. reg'[r] >= Cardinality(Pending(d)) /\ reg'[r] \in Nat
  <2>1. CASE ReadNum(s) /\ r = s
    BY <1>3, <2>1 DEF ReadNum, IInv, CountersBound, CounterInv, TypeOK
  <2>2. CASE pc[r] = "decrement" /\ reg'[r] = reg[r]
    BY <1>3, <2>2 DEF IInv, CountersBound, CounterInv, TypeOK
  <2>3. QED
    BY <1>1, <2>1, <2>2
<1>5. /\ Cardinality(Pending(d)) \in Nat /\ Cardinality(Pending(d)') \in Nat
      /\ Cardinality(Pending(d)') <= Cardinality(Pending(d))
  BY PendingShrinks DEF Next
<1>6. reg'[r] >= Cardinality(Pending(d)')
  BY <1>4, <1>5
<1>7. QED
  BY <1>3, <1>6

(***************************************************************************)
(* A task is submitted, and has begun, only with nothing pending.          *)
(***************************************************************************)
LEMMA ReadyStep ==
  ASSUME IInv, NEW s \in Schedule, Step(s) \/ SpuriousWakeup(s), NEW r \in Schedule, pc'[r] = "submit"
  PROVE  Pending(Current(r))' = {}
<1>0. Current(r) \in Task
  BY Currents DEF IInv
<1>1. /\ Current(r)' = Current(r)
      /\ pc[r] = "submit" \/ num[Current(r)] = 0
  <2>1. CASE r # s
    BY <2>1, Others DEF IInv
  <2>2. CASE r = s
    BY <2>2 DEF IInv, TypeOK, Current, Goto, Step, NextTask, Start, CheckReady, LockToWait, Await, ReturnFromAwait,
       UnlockAfterWait, SpuriousWakeup, Submit, Answered, SubmissionFails, VMHangs, BeginAdd, EndAdd, AddThrows, Enters, ReadTaskNum,
       WriteTaskNum, TestTaskNum, Record, RecordThrows, ReadNum, WriteNum, TestNum, LockToSignal, Signal,
       UnlockAfterSignal, Finish
  <2>3. QED
    BY <2>1, <2>2
<1>2. PICK t \in Task : t = Current(r) /\ t = Current(r)'
  BY <1>0, <1>1
<1>3. /\ Pending(t)' \subseteq Pending(t)
      /\ IsFiniteSet(Pending(t)) /\ Cardinality(Pending(t)) \in Nat
  BY PendingShrinks DEF Next
<1>4. Pending(t) = {}
  <2>1. CASE pc[r] = "submit"
    BY <1>2, <2>1 DEF IInv, ReadyInv
  <2>2. CASE num[t] = 0
    <3>1. num[t] >= Cardinality(Pending(t))
      BY DEF IInv, CountersBound, CounterInv
    <3>2. Cardinality(Pending(t)) = 0
      BY <1>3, <2>2, <3>1
    <3>3. QED
      BY <1>3, <3>2, FS_EmptySet
  <2>3. QED
    BY <1>1, <1>2, <2>1, <2>2
<1>5. Pending(t)' = {}
  BY <1>3, <1>4
<1>6. QED
  BY <1>2, <1>5 DEF Pending

\* A task that has begun was ready when it was submitted.
LEMMA BegunStep ==
  ASSUME IInv, NEW s \in Schedule, Step(s) \/ SpuriousWakeup(s), NEW t \in Task, Begun(t)'
  PROVE  Pending(t)' = {}
<1>0. [Next]_vars
  BY DEF Next
<1>1. CASE Begun(t)
  BY <1>0, <1>1, PendingShrinks DEF IInv, CountersBound, CounterInv
<1>2. CASE ~Begun(t)
  <2>1. pc[s] = "submit" \/ pc[s] = "answer"
    BY <1>2, Outcomes DEF IInv, Begun
  <2>2. t = Current(s)
    BY <1>2, Outcomes DEF IInv, TypeOK, Begun
  <2>3. pc[s] = "submit"
    BY <1>2, <2>1, <2>2 DEF IInv, ThreadInv, Begun
  <2>4. Pending(t) = {}
    BY <2>2, <2>3 DEF IInv, ReadyInv
  <2>5. QED
    BY <1>0, <2>4, PendingShrinks
<1>3. QED
  BY <1>1, <1>2

\* The counters of unfinished parents never promise too much.
LEMMA CounterStep == IInv /\ [Next]_vars => ReadyInv' /\ CounterInv'
<1> SUFFICES ASSUME IInv, [Next]_vars PROVE ReadyInv' /\ CounterInv'
  OBVIOUS
<1>1. CASE UNCHANGED vars
  BY <1>1 DEF vars, IInv, CountersBound, ReadyInv, CounterInv, Pending, Notified, Begun, Current, Child
<1>2. CASE Next
  <2>1. PICK s \in Schedule : Step(s) \/ SpuriousWakeup(s)
    BY <1>2 DEF Next
  <2>2. \A t \in Task : num'[t] >= Cardinality(Pending(t)')
    BY <2>1, NumStep
  <2>3. \A r \in Schedule : pc'[r] = "decrement" => reg'[r] >= Cardinality(Pending(Child(r))')
    BY <2>1, RegStep
  <2>4. \A t \in Task : Begun(t)' => Pending(t)' = {}
    BY <2>1, BegunStep
  <2>5. \A r \in Schedule : pc'[r] = "submit" => Pending(Current(r))' = {}
    BY <2>1, ReadyStep
  <2>6. QED
    BY <2>2, <2>3, <2>4, <2>5 DEF ReadyInv, CounterInv
<1>3. QED
  BY <1>1, <1>2

-----------------------------------------------------------------------------
(***************************************************************************)
(* A task that has been taken off taskNum stays so.                        *)
(***************************************************************************)
LEMMA CountedStays ==
  ASSUME IInv, NEW s \in Schedule, Step(s) \/ SpuriousWakeup(s), NEW t \in Task, Counted(t)
  PROVE  Counted(t)'
<1> DEFINE Counting == {"add", "adding", "readTaskNum", "writeTaskNum"}
<1> USE DEF IInv, TypeOK
<1>1. outcome[t] = "completed"
  BY DEF Counted
<1>2. (pc[s] = "submit" \/ pc[s] = "answer") => t # Current(s)
  BY <1>1 DEF ThreadInv, BeforeSubmit
<1>3. outcome'[t] = "completed"
  BY <1>1, <1>2, Outcomes, Currents
<1>4. ASSUME NEW r \in Schedule \ {s}, pc'[r] \in Counting PROVE Current(r)' # t
  BY <1>4, Others DEF Counted
<1>5. ASSUME pc'[s] \in Counting PROVE Current(s)' # t
  <2>1. /\ Current(s)' = Current(s)
        /\ pc[s] \in Counting \cup {"answer"}
    BY <1>5 DEF Current, Goto, Step, NextTask, Start, CheckReady, LockToWait, Await, ReturnFromAwait,
       UnlockAfterWait, SpuriousWakeup, Submit, Answered, SubmissionFails, VMHangs, BeginAdd, EndAdd, AddThrows, Enters, ReadTaskNum,
       WriteTaskNum, TestTaskNum, Record, RecordThrows, ReadNum, WriteNum, TestNum, LockToSignal, Signal,
       UnlockAfterSignal, Finish
  <2>2. QED
    BY <1>2, <2>1 DEF Counted
<1>6. entry'[t] # "thrown"
  <2>1. pc[s] = "adding" => t # Current(s)
    BY DEF Counted
  <2>2. QED
    BY <2>1, Entries DEF Counted
<1>7. QED
  BY <1>3, <1>4, <1>5, <1>6 DEF Counted

\* So the tasks still to be counted only become fewer.
LEMMA UncountedShrinks ==
  ASSUME IInv, [Next]_vars
  PROVE  /\ Uncounted' \subseteq Uncounted
         /\ IsFiniteSet(Uncounted) /\ Cardinality(Uncounted) \in Nat
         /\ Cardinality(Uncounted') \in Nat /\ Cardinality(Uncounted') <= Cardinality(Uncounted)
<1>1. ASSUME NEW t \in Task, Counted(t) PROVE Counted(t)'
  <2>1. CASE UNCHANGED vars
    BY <1>1, <2>1 DEF vars, Counted, Current
  <2>2. QED
    BY <1>1, <2>1, CountedStays DEF Next
<1>2. Uncounted' \subseteq Uncounted /\ Uncounted \subseteq Task
  BY <1>1 DEF Uncounted
<1>3. QED
  BY <1>2, GraphAssumption, FS_Subset, FS_CardinalityType

\* The write of a decrement of taskNum counts the current task of the thread.
LEMMA UncountedWrite ==
  ASSUME IInv, NEW s \in Schedule, WriteTaskNum(s)
  PROVE  /\ Cardinality(Uncounted') <= Cardinality(Uncounted) - 1
         /\ reg[s] >= Cardinality(Uncounted) /\ reg[s] \in Nat
<1>1. pc[s] = "writeTaskNum" /\ pc' = [pc EXCEPT ![s] = "testTaskNum"] /\ UNCHANGED <<pos, outcome, entry>>
  BY DEF WriteTaskNum, Goto
<1>2. PICK u : u = Current(s)
  OBVIOUS
<1>3. /\ u \in Task /\ outcome[u] = "completed" /\ entry[u] # "thrown"
      /\ \A r \in Schedule : Current(r) = u => r = s
  BY <1>1, <1>2, Currents DEF IInv, ThreadInv, AfterAnswer, EntryInv
<1>4. u \in Uncounted
  BY <1>1, <1>2, <1>3 DEF Uncounted, Counted
<1>5. u \notin Uncounted'
  <2>1. \A r \in Schedule : pc'[r] \in {"add", "adding", "readTaskNum", "writeTaskNum"} => r # s
    BY <1>1 DEF IInv, TypeOK
  <2>2. \A r \in Schedule : Current(r)' = Current(r)
    BY <1>1 DEF Current
  <2>3. Counted(u)'
    BY <1>1, <1>3, <2>1, <2>2 DEF Counted
  <2>4. QED
    BY <2>3 DEF Uncounted
<1>6. /\ Uncounted' \subseteq Uncounted \ {u}
      /\ IsFiniteSet(Uncounted \ {u})
      /\ Cardinality(Uncounted \ {u}) = Cardinality(Uncounted) - 1
  BY <1>4, <1>5, UncountedShrinks, FS_RemoveElement DEF Next, Step
<1>7. Cardinality(Uncounted') <= Cardinality(Uncounted) - 1
  BY <1>6, FS_Subset
<1>8. QED
  BY <1>1, <1>7 DEF IInv, CountersBound, TaskNumInv, TypeOK

(***************************************************************************)
(* TaskNumInv: taskNum and what is read from it hold no less than the      *)
(* tasks still to be counted, so it is found at zero only after the last.  *)
(***************************************************************************)
LEMMA TaskNumStep == IInv /\ [Next]_vars => TaskNumInv'
<1> SUFFICES ASSUME IInv, [Next]_vars PROVE TaskNumInv'
  OBVIOUS
<1>1. /\ Uncounted' \subseteq Uncounted
      /\ IsFiniteSet(Uncounted) /\ Cardinality(Uncounted) \in Nat
      /\ Cardinality(Uncounted') \in Nat /\ Cardinality(Uncounted') <= Cardinality(Uncounted)
  BY UncountedShrinks
<1>2. CASE UNCHANGED vars
  BY <1>2 DEF vars, IInv, CountersBound, TaskNumInv, Uncounted, Counted, Current
<1>3. ASSUME NEW s \in Schedule, Step(s) \/ SpuriousWakeup(s) PROVE TaskNumInv'
  <2> USE <1>3 DEF IInv, TypeOK, Goto
  <2>1. taskNum' >= Cardinality(Uncounted')
    <3>1. CASE taskNum' = taskNum
      BY <1>1, <3>1 DEF CountersBound, TaskNumInv
    <3>2. CASE WriteTaskNum(s)
      <4>1. taskNum' = reg[s] - 1
        BY <3>2 DEF WriteTaskNum
      <4>2. QED
        BY <1>1, <3>2, <4>1, UncountedWrite
    <3>3. QED
      BY <3>1, <3>2 DEF Step, Start, CheckReady, LockToWait, Await, ReturnFromAwait,
         UnlockAfterWait, SpuriousWakeup, Submit, Answered, SubmissionFails, VMHangs, BeginAdd, EndAdd, AddThrows, Enters, ReadTaskNum,
         TestTaskNum, Record, RecordThrows, ReadNum, WriteNum, TestNum, LockToSignal, Signal,
         UnlockAfterSignal, Finish
  <2>2. ASSUME NEW r \in Schedule, pc'[r] = "writeTaskNum" PROVE reg'[r] >= Cardinality(Uncounted')
    <3>1. \/ pc[r] = "writeTaskNum" /\ reg'[r] = reg[r]
          \/ reg'[r] = taskNum
      <4>1. CASE r # s
        BY <2>2, <4>1, Others
      <4>2. CASE r = s
        BY <2>2, <4>2 DEF Step, NextTask, Start, CheckReady, LockToWait, Await, ReturnFromAwait,
           UnlockAfterWait, SpuriousWakeup, Submit, Answered, SubmissionFails, VMHangs, BeginAdd, EndAdd, AddThrows, Enters, ReadTaskNum,
           WriteTaskNum, TestTaskNum, Record, RecordThrows, ReadNum, WriteNum, TestNum, LockToSignal, Signal,
           UnlockAfterSignal, Finish
      <4>3. QED
        BY <4>1, <4>2
    <3>2. reg'[r] >= Cardinality(Uncounted) /\ reg'[r] \in Nat
      BY <3>1 DEF CountersBound, TaskNumInv
    <3>3. QED
      BY <1>1, <3>2
  <2>3. ASSUME (\E r \in Schedule : pc'[r] = "record") \/ graphs' # << >> PROVE Uncounted' = {}
    <3>1. \/ \E r \in Schedule : pc[r] = "record"
          \/ graphs # << >>
          \/ taskNum = 0
      <4>1. CASE graphs' # << >>
        BY <4>1 DEF Step, Start, CheckReady, LockToWait, Await, ReturnFromAwait,
           UnlockAfterWait, SpuriousWakeup, Submit, Answered, SubmissionFails, VMHangs, BeginAdd, EndAdd, AddThrows, Enters, ReadTaskNum,
           WriteTaskNum, TestTaskNum, Record, RecordThrows, NextTask, ReadNum, WriteNum, TestNum, LockToSignal, Signal,
           UnlockAfterSignal, Finish
      <4>2. ASSUME NEW r \in Schedule, pc'[r] = "record" PROVE pc[r] = "record" \/ taskNum = 0
        <5>1. CASE r # s
          BY <4>2, <5>1, Others
        <5>2. CASE r = s
          BY <4>2, <5>2 DEF Step, NextTask, Start, CheckReady, LockToWait, Await, ReturnFromAwait,
             UnlockAfterWait, SpuriousWakeup, Submit, Answered, SubmissionFails, VMHangs, BeginAdd, EndAdd, AddThrows, Enters, ReadTaskNum,
             WriteTaskNum, TestTaskNum, Record, RecordThrows, ReadNum, WriteNum, TestNum, LockToSignal, Signal,
             UnlockAfterSignal, Finish
        <5>3. QED
          BY <5>1, <5>2
      <4>3. QED
        BY <2>3, <4>1, <4>2
    <3>2. CASE taskNum = 0
      <4>1. Cardinality(Uncounted) = 0
        BY <1>1, <3>2 DEF CountersBound, TaskNumInv
      <4>2. QED
        BY <1>1, <4>1, FS_EmptySet
    <3>3. QED
      BY <1>1, <3>1, <3>2 DEF CountersBound, TaskNumInv
  <2>4. QED
    BY <2>1, <2>2, <2>3 DEF TaskNumInv
<1>4. QED
  BY <1>2, <1>3 DEF Next

-----------------------------------------------------------------------------
\* With the counters bounded from below the types are preserved: none of them goes negative.
LEMMA TypeStep == IInv /\ [Next]_vars => TypeOK'
<1> SUFFICES ASSUME IInv, [Next]_vars PROVE TypeOK'
  OBVIOUS
<1> USE DEF IInv, TypeOK, PC, AfterAnswer, Goto
<1>1. CASE UNCHANGED vars
  BY <1>1 DEF vars
<1>2. ASSUME NEW s \in Schedule, Step(s) \/ SpuriousWakeup(s) PROVE TypeOK'
  <2>0. Current(s) \in Task
    BY Currents
  <2>1. CASE Start(s) \/ CheckReady(s) \/ Submit(s) \/ Answered(s) \/ VMHangs(s) \/ SpuriousWakeup(s)
    <3>1. CASE Start(s) \/ CheckReady(s)
      BY <3>1 DEF Start, CheckReady
    <3>2. CASE Submit(s) \/ Answered(s) \/ VMHangs(s)
      BY <2>0, <3>2 DEF Submit, Answered, VMHangs
    <3>3. CASE SpuriousWakeup(s)
      <4>1. spurious' \in 0 .. MaxSpurious
        BY <3>3, PlanAssumption DEF SpuriousWakeup
      <4>2. QED
        BY <3>3, <4>1 DEF SpuriousWakeup
    <3>4. QED
      BY <2>1, <3>1, <3>2, <3>3
  <2>2. CASE LockToWait(s) \/ Await(s) \/ ReturnFromAwait(s) \/ UnlockAfterWait(s)
    BY <2>2 DEF LockToWait, Await, ReturnFromAwait, UnlockAfterWait, Acquire, Release
  <2>3. ASSUME NEW from, NextTask(s, from)
        PROVE  /\ pc' \in [Schedule -> PC] /\ todo' \in [Schedule -> SUBSET Channel]
               /\ pos' \in [Schedule -> Nat] /\ \A r \in Schedule : pos'[r] \in DOMAIN runTask[r]
    <3>1. pos[s] \in Nat /\ (pos[s] # Len(runTask[s]) => pos[s] + 1 \in DOMAIN runTask[s])
      BY Later
    <3>2. QED
      BY <2>3, <3>1 DEF NextTask
  <2>4. CASE SubmissionFails(s)
    BY <2>0, <2>3, <2>4 DEF SubmissionFails
  <2>5. CASE Finish(s)
    BY <2>3, <2>5 DEF Finish
  <2>6. CASE RecordThrows(s) \/ Record(s)
    <3>1. graphs' \in Seq(SUBSET Task)
      <4>1. specs \in SUBSET Task
        BY DEF specs
      <4>2. graphs' = graphs \/ graphs' = Append(graphs, specs)
        BY <2>6 DEF RecordThrows, Record
      <4>3. graphs \in Seq(SUBSET Task)
        OBVIOUS
      <4> HIDE DEF IInv, TypeOK
      <4>4. QED
        BY <4>1, <4>2, <4>3
    <3>2. CASE RecordThrows(s)
      BY <2>3, <3>1, <3>2 DEF RecordThrows
    <3>3. CASE Record(s)
      BY <3>1, <3>3 DEF Record, Out
    <3>4. QED
      BY <2>6, <3>2, <3>3
  <2>7. CASE BeginAdd(s) \/ EndAdd(s) \/ AddThrows(s) \/ ReadTaskNum(s)
    <3>1. Cardinality(Added) \in Nat
      BY GraphAssumption, FS_Subset, FS_CardinalityType DEF Added
    <3>2. CASE BeginAdd(s)
      BY <3>1, <3>2 DEF BeginAdd
    <3>3. CASE EndAdd(s)
      <4>1. PICK e \in {"listed", "lost", "null"} : Enters(s, e)
        BY <3>3 DEF EndAdd
      <4>2. QED
        BY <2>0, <3>3, <4>1 DEF EndAdd, Enters
    <3>4. CASE AddThrows(s)
      BY <2>0, <2>3, <3>4 DEF AddThrows, Enters
    <3>5. CASE ReadTaskNum(s)
      BY <3>5 DEF ReadTaskNum
    <3>6. QED
      BY <2>7, <3>2, <3>3, <3>4, <3>5
  <2>8. CASE WriteTaskNum(s)
    <3>1. reg[s] - 1 \in Nat
      <4>1. /\ Cardinality(Uncounted') <= Cardinality(Uncounted) - 1
            /\ reg[s] >= Cardinality(Uncounted) /\ reg[s] \in Nat
        BY <2>8, UncountedWrite
      <4>2. Cardinality(Uncounted) \in Nat /\ Cardinality(Uncounted') \in Nat
        BY UncountedShrinks
      <4>3. QED
        BY <4>1, <4>2
    <3>2. QED
      BY <2>8, <3>1 DEF WriteTaskNum
  <2>9. CASE TestTaskNum(s)
    BY <2>9 DEF TestTaskNum, Out
  <2>10. CASE ReadNum(s)
    <3>1. Child(s) \in Task
      BY <2>10, ChildIsTask DEF ReadNum
    <3>2. QED
      BY <2>10, <3>1 DEF ReadNum
  <2>11. CASE WriteNum(s)
    <3>1. PICK d \in Task : d = Child(s) /\ d = Child(s)' /\ reg[s] >= Cardinality(Pending(d))
      BY <2>11, ChildIsTask DEF WriteNum, Child, ThreadInv, CountersBound, CounterInv
    <3>2. /\ Cardinality(Pending(d)) \in Nat /\ Cardinality(Pending(d)') \in Nat
          /\ Cardinality(Pending(d)') <= Cardinality(Pending(d)) - 1
      <4>1. Cardinality(Pending(Child(s))') <= Cardinality(Pending(Child(s))) - 1
        BY <2>11, PendingWrite
      <4>2. Cardinality(Pending(d)) \in Nat /\ Cardinality(Pending(d)') \in Nat
        BY PendingShrinks
      <4>3. Cardinality(Pending(d)') <= Cardinality(Pending(d)) - 1
        BY <3>1, <4>1
      <4>4. QED
        BY <4>2, <4>3
    <3>3. reg[s] - 1 \in Nat
      BY <3>1, <3>2
    <3>4. QED
      BY <2>11, <3>1, <3>3 DEF WriteNum
  <2>12. CASE TestNum(s)
    BY <2>12 DEF TestNum
  <2>13. CASE LockToSignal(s)
    BY <2>13 DEF LockToSignal, Acquire
  <2>14. CASE Signal(s)
    BY <2>14 DEF Signal
  <2>15. CASE UnlockAfterSignal(s)
    BY <2>15 DEF UnlockAfterSignal, Release
  <2>16. QED
    BY <1>2, <2>1, <2>2, <2>4, <2>5, <2>6, <2>7, <2>8, <2>9, <2>10, <2>11, <2>12, <2>13, <2>14, <2>15 DEF Step
<1>3. QED
  BY <1>1, <1>2 DEF Next

-----------------------------------------------------------------------------
\* At first every task is pending with all its parents, and uncounted.
LEMMA Initially == Init => IInv
<1> SUFFICES ASSUME Init PROVE IInv
  OBVIOUS
<1>1. \A s \in Schedule : runTask[s] \in Seq(Task) /\ 1 \in DOMAIN runTask[s] /\ pos[s] = 1 /\ Current(s) \in Task
  <2> SUFFICES ASSUME NEW s \in Schedule
               PROVE  runTask[s] \in Seq(Task) /\ 1 \in DOMAIN runTask[s] /\ pos[s] = 1 /\ Current(s) \in Task
    OBVIOUS
  <2>1. runTask[s] \in Seq(Task) /\ runTask[s] # << >>
    BY PlanAssumption
  <2>2. 1 \in DOMAIN runTask[s] /\ pos[s] = 1
    BY <2>1 DEF Init
  <2>3. QED
    BY <2>1, <2>2 DEF Current
<1>2. \A t \in Task : Cardinality(In(t)) \in Nat /\ Pending(t) = In(t)
  <2>1. \A t \in Task : \A c \in In(t) : srcTask[c] \in Task /\ ~Notified(c)
    BY GraphAssumption DEF Init, In, Notified
  <2>2. QED
    BY <2>1, InFinite DEF Pending
<1>3. Cardinality(Task) \in Nat /\ Uncounted = Task
  BY GraphAssumption, FS_CardinalityType DEF Init, Uncounted, Counted
<1>4. TypeOK
  <2>1. pc \in [Schedule -> PC] /\ owner \in [Schedule -> Schedule \cup {NoSchedule}]
    BY DEF Init, PC
  <2>2. pos \in [Schedule -> Nat] /\ \A s \in Schedule : pos[s] \in DOMAIN runTask[s]
    BY <1>1 DEF Init
  <2>3. num \in [Task -> Nat] /\ reg \in [Schedule -> Nat] /\ todo \in [Schedule -> SUBSET Channel]
    BY <1>2 DEF Init
  <2>4. outcome \in [Task -> {"waiting", "running", "completed", "failed"}]
    BY DEF Init
  <2>5. entry \in [Task -> {"none", "listed", "lost", "null", "thrown"}] /\ taskNum \in Nat /\ graphs \in Seq(SUBSET Task)
    BY <1>3 DEF Init
  <2>6. spurious \in 0 .. MaxSpurious
    BY PlanAssumption DEF Init
  <2>7. QED
    BY <2>1, <2>2, <2>3, <2>4, <2>5, <2>6 DEF TypeOK
<1>5. \A s \in Schedule : ThreadInv(s)
  BY <1>1, Places DEF Init, ThreadInv, AfterAnswer
<1>6. ReadyInv /\ CounterInv
  BY <1>2 DEF Init, ReadyInv, CounterInv, Begun
<1>7. TaskNumInv
  BY <1>3 DEF Init, TaskNumInv
<1>8. EntryInv
  BY <1>1, Places DEF Init, EntryInv
<1>9. QED
  BY <1>4, <1>5, <1>6, <1>7, <1>8 DEF IInv, CountersBound

\* The four parts of the invariant together.
LEMMA InvariantStep == IInv /\ [Next]_vars => IInv'
BY TypeStep, ThreadStep, CounterStep, TaskNumStep, EntryStep DEF IInv, CountersBound

(***************************************************************************)
(* The inductive invariant: the outcomes go with the places of the         *)
(* threads, and all counters bound what is still to come.                  *)
(***************************************************************************)
THEOREM Invariance == Spec => []IInv
BY Initially, InvariantStep, PTL DEF Spec

\* The variables of WorkflowExecutor_Beta keep their types; no counter goes below zero.
THEOREM TypeCorrect == Spec => []TypeOK
BY Invariance, PTL DEF IInv

(***************************************************************************)
(* Lost decrements only make the counters too large: neither               *)
(* numOfParentsUnfinished nor taskNum ever promises that something is done *)
(* that is not.                                                            *)
(***************************************************************************)
THEOREM CountersNeverPromiseTooMuch == Spec => []CountersBound
BY Invariance, PTL DEF IInv

-----------------------------------------------------------------------------
(***************************************************************************)
(* What the invariant says of the record: the thread that writes it has    *)
(* the last task, and no child of that task could have begun.              *)
(***************************************************************************)
LEMMA RecordMeaning == IInv => RecordedAtTheEnd /\ RecordingHoldsUpNobody
<1> SUFFICES ASSUME IInv PROVE RecordedAtTheEnd /\ RecordingHoldsUpNobody
  OBVIOUS
<1>1. ASSUME (\E s \in Schedule : pc[s] = "record") \/ graphs # << >>
      PROVE  \A t \in Task : outcome[t] = "completed"
  BY <1>1 DEF IInv, CountersBound, TaskNumInv, Uncounted, Counted
<1>2. ASSUME NEW s \in Schedule, pc[s] = "record", NEW c \in Out(Current(s)) PROVE FALSE
  <2>1. c \in Channel /\ srcTask[c] = Current(s) /\ destTask[c] \in Task /\ c \in In(destTask[c])
    <3>1. Current(s) \in Task
      BY Currents DEF IInv
    <3>2. QED
      BY <1>2, <3>1, GraphAssumption DEF Out, In
  <2>2. Begun(destTask[c])
    BY <1>1, <1>2, <2>1 DEF Begun
  <2>3. Notified(c)
    BY <2>1, <2>2 DEF IInv, CountersBound, CounterInv, Pending
  <2>4. Owner(Current(s)) = s
    BY Currents DEF IInv
  <2>5. QED
    BY <1>2, <2>1, <2>3, <2>4 DEF Notified
<1>3. QED
  BY <1>1, <1>2 DEF RecordedAtTheEnd, RecordingHoldsUpNobody

\* The provenance is written after the last task, in spite of the lost decrements of taskNum.
THEOREM RecordIsLast == Spec => []RecordedAtTheEnd
BY Invariance, RecordMeaning, PTL

(***************************************************************************)
(* An exception while recording skips the notification of children that do *)
(* not exist.                                                              *)
(***************************************************************************)
THEOREM RecordingIsHarmless == Spec => []RecordingHoldsUpNobody
BY Invariance, RecordMeaning, PTL

-----------------------------------------------------------------------------
(* Refinement: each step of a thread is a step of Dataflow or stutters.    *)

\* Only Submit, Answered, SubmissionFails and VMHangs change an outcome.
LEMMA StepRefinement == IInv /\ [Next]_vars => [D!Next]_(D!vars)
<1> SUFFICES ASSUME IInv, [Next]_vars PROVE [D!Next]_(D!vars)
  OBVIOUS
<1>1. CASE UNCHANGED outcome
  BY <1>1 DEF D!vars
<1>2. ASSUME NEW s \in Schedule, Step(s) \/ SpuriousWakeup(s), outcome' # outcome PROVE D!Next
  <2>1. PICK t : t = Current(s)
    OBVIOUS
  <2>2. t \in Task /\ ThreadInv(s)
    BY <2>1, Currents DEF IInv
  <2>3. CASE pc[s] = "submit" /\ outcome' = [outcome EXCEPT ![Current(s)] = "running"]
    <3>1. Pending(t) = {} /\ outcome[t] = "waiting"
      BY <2>1, <2>2, <2>3 DEF IInv, ReadyInv, ThreadInv, BeforeSubmit
    <3>2. \A p \in Parents(t) : outcome[p] = "completed"
      <4> SUFFICES ASSUME NEW p \in Parents(t) PROVE outcome[p] = "completed"
        OBVIOUS
      <4>1. PICK c \in In(t) : p = srcTask[c]
        BY DEF Parents
      <4>2. Notified(c)
        BY <3>1 DEF Pending
      <4>3. QED
        BY <4>1, <4>2 DEF Notified
    <3>3. D!Begin(t)
      BY <2>1, <2>3, <3>1, <3>2 DEF D!Begin, D!Parents, D!In, D!Channel, Parents, In, Channel
    <3>4. QED
      BY <2>2, <3>3 DEF D!Next
  <2>4. CASE pc[s] = "answer" /\ outcome' = [outcome EXCEPT ![Current(s)] = "completed"]
    BY <2>1, <2>2, <2>4 DEF ThreadInv, D!Complete, D!Next
  <2>5. CASE pc[s] = "answer" /\ outcome' = [outcome EXCEPT ![Current(s)] = "failed"]
    BY <2>1, <2>2, <2>5 DEF ThreadInv, D!Fail, D!Next
  <2>6. QED
    BY <1>2, <2>3, <2>4, <2>5, Outcomes DEF IInv
<1>3. QED
  BY <1>1, <1>2 DEF Next, vars

(***************************************************************************)
(* WorkflowExecutor_Beta implements Dataflow for every graph and every     *)
(* plan: a task is submitted at most once, after all its parents have      *)
(* completed, whichever VM they ran on and however the threads interleave. *)
(***************************************************************************)
THEOREM Refinement == Spec => ImplementsDataflow
<1>1. Init => D!Init
  BY DEF Init, D!Init
<1>2. QED
  BY <1>1, Invariance, StepRefinement, PTL DEF Spec, ImplementsDataflow, D!Spec

\* The theorems about Dataflow, for the outcomes of the tasks of this executor.
DP == INSTANCE Dataflow_proofs WITH status <- outcome

(***************************************************************************)
(* In WorkflowExecutor_Beta a failure is contained although its thread     *)
(* goes on: what depends on a task that has failed, hangs or is running    *)
(* waits, on whichever VM it is, and so does every task of a cycle.        *)
(***************************************************************************)
THEOREM FailuresAreContained == Spec => []D!FailuresContained
<1>1. DP!GraphAssumption
  BY GraphAssumption, Zenon
     DEF GraphAssumption, DP!GraphAssumption, Channel, DP!Channel, IsFiniteSet, DP!IsFiniteSet
<1>2. D!Init => D!TypeOK /\ D!FailuresContained
  BY DEF D!Init, D!TypeOK, D!FailuresContained
<1>3. D!TypeOK /\ [D!Next]_(D!vars) => D!TypeOK'
  BY DEF D!TypeOK, D!Next, D!vars, D!Begin, D!Complete, D!Fail
<1>4. D!TypeOK /\ D!FailuresContained /\ [D!Next]_(D!vars) => D!FailuresContained'
  <2>1. \A t : D!Parents(t) = DP!Parents(t)
    BY DEF D!Parents, DP!Parents, D!In, DP!In, D!Channel, DP!Channel
  <2>2. D!TypeOK => DP!TypeOK
    BY DEF D!TypeOK, DP!TypeOK
  <2>3. D!FailuresContained => DP!FailuresContained
    BY <2>1, Zenon DEF D!FailuresContained, DP!FailuresContained
  <2>4. [D!Next]_(D!vars) => [DP!Next]_(DP!vars)
    BY <2>1, Zenon
       DEF D!Next, DP!Next, D!vars, DP!vars, D!Begin, DP!Begin, D!Complete, DP!Complete,
           D!Fail, DP!Fail
  <2>5. DP!FailuresContained' => D!FailuresContained'
    BY <2>1, Zenon
       DEF D!FailuresContained, DP!FailuresContained, D!Parents, DP!Parents, D!In, DP!In,
           D!Channel, DP!Channel
  <2>6. QED
    BY <1>1, <2>2, <2>3, <2>4, <2>5, DP!ContainedStep
<1>5. D!Spec => []D!FailuresContained
  BY <1>2, <1>3, <1>4, PTL DEF D!Spec
<1>6. QED
  BY <1>5, Refinement, PTL DEF ImplementsDataflow

-----------------------------------------------------------------------------
(***************************************************************************)
(* What the threads that have stopped say of the tasks and of the locks.   *)
(***************************************************************************)

\* What a thread has left behind has come to an end, and so has its current task when it stops.
PastInv(s) ==
  /\ \A i \in DOMAIN runTask[s] :
       i < pos[s] => outcome[runTask[s][i]] \in {"completed", "failed"}
  /\ pc[s] = "hung" => outcome[Current(s)] = "failed"
  /\ pc[s] = "done" => /\ pos[s] = Len(runTask[s])
                       /\ outcome[Current(s)] \in {"completed", "failed"}

(***************************************************************************)
(* The lock of a local schedule is held exactly by the thread that is      *)
(* between its lock() and unlock(): its own one in the wait, or the one    *)
(* that signals it.  So who holds a lock never waits for another one.      *)
(***************************************************************************)
Holds(s, r) ==
  \/ pc[s] \in {"await", "unlock"} /\ r = s
  \/ pc[s] \in {"signal", "unlockOwner"} /\ r = Owner(Child(s))

LockInv == \A s, r \in Schedule : owner[r] = s <=> Holds(s, r)

StopInv == LockInv /\ \A s \in Schedule : PastInv(s)

\* An earlier place of a schedule has another task.
LEMMA Earlier ==
  ASSUME TypeOK, NEW s \in Schedule, NEW i \in DOMAIN runTask[s], i < pos[s]
  PROVE  runTask[s][i] \in Task /\ runTask[s][i] # Current(s)
<1>1. pos[s] \in DOMAIN runTask[s] /\ pos[s] \in Nat
  BY DEF TypeOK
<1>2. i # pos[s]
  BY <1>1, Places
<1>3. runTask[s][i] # runTask[s][pos[s]]
  BY <1>1, <1>2, PlanAssumption
<1>4. QED
  BY <1>3, Places DEF Current

\* The end of a round leaves a task behind that has come to an end.
LEMMA PastNext ==
  ASSUME TypeOK, NEW s \in Schedule, PastInv(s), NEW from, NextTask(s, from),
         outcome'[Current(s)] \in {"completed", "failed"},
         \A i \in DOMAIN runTask[s] : i < pos[s] => outcome'[runTask[s][i]] = outcome[runTask[s][i]]
  PROVE  PastInv(s)'
<1>1. pos[s] \in Nat /\ pos[s] \in DOMAIN runTask[s]
  BY DEF TypeOK
<1>2. CASE pos[s] = Len(runTask[s])
  <2>1. pos'[s] = pos[s] /\ pc'[s] = "done"
    BY <1>2 DEF NextTask, Goto, TypeOK
  <2>2. QED
    BY <1>2, <2>1 DEF PastInv, Current
<1>3. CASE pos[s] # Len(runTask[s])
  <2>1. pos'[s] = pos[s] + 1 /\ pc'[s] = "check"
    BY <1>3 DEF NextTask, Goto, TypeOK
  <2>2. ASSUME NEW i \in DOMAIN runTask[s], i < pos'[s]
        PROVE  outcome'[runTask[s][i]] \in {"completed", "failed"}
    <3>1. i \in Nat /\ (i < pos[s] \/ i = pos[s])
      BY <1>1, <2>1, <2>2, Places
    <3>2. QED
      BY <3>1 DEF PastInv, Current
  <2>3. QED
    BY <2>1, <2>2 DEF PastInv
<1>4. QED
  BY <1>2, <1>3

\* PastInv is preserved by the steps of the thread itself.
LEMMA OwnPastStep ==
  ASSUME TypeOK, NEW s \in Schedule, ThreadInv(s), PastInv(s), Step(s) \/ SpuriousWakeup(s)
  PROVE  PastInv(s)'
<1> USE DEF TypeOK, Goto
<1>1. Current(s) \in Task
  BY Currents
<1>2. \A i \in DOMAIN runTask[s] : i < pos[s] => outcome'[runTask[s][i]] = outcome[runTask[s][i]]
  <2>1. \A t \in Task \ {Current(s)} : outcome'[t] = outcome[t]
    BY <1>1, Outcomes
  <2>2. \A i \in DOMAIN runTask[s] : i < pos[s] => runTask[s][i] \in Task \ {Current(s)}
    BY Earlier
  <2>3. QED
    BY <2>1, <2>2
<1>3. ASSUME pos'[s] = pos[s], pc'[s] \notin {"hung", "done"} PROVE PastInv(s)'
  BY <1>2, <1>3 DEF PastInv
<1>4. CASE SubmissionFails(s)
  <2>1. NextTask(s, "answer") /\ outcome'[Current(s)] = "failed"
    BY <1>1, <1>4 DEF SubmissionFails
  <2>2. QED
    BY <1>2, <2>1, PastNext
<1>5. CASE AddThrows(s) \/ RecordThrows(s) \/ Finish(s)
  <2>1. PICK from : NextTask(s, from) /\ from \in {"adding", "record", "notify"} /\ outcome' = outcome
    BY <1>5 DEF AddThrows, RecordThrows, Finish
  <2>2. outcome'[Current(s)] = "completed"
    BY <2>1 DEF NextTask, ThreadInv, AfterAnswer
  <2>3. QED
    BY <1>2, <2>1, <2>2, PastNext
<1>6. CASE VMHangs(s)
  BY <1>1, <1>2, <1>6 DEF VMHangs, PastInv, Current
<1>7. CASE \/ Start(s) \/ CheckReady(s) \/ LockToWait(s) \/ Await(s) \/ ReturnFromAwait(s)
           \/ UnlockAfterWait(s) \/ SpuriousWakeup(s) \/ Submit(s) \/ Answered(s)
  BY <1>3, <1>7 DEF Start, CheckReady, LockToWait, Await, ReturnFromAwait, UnlockAfterWait,
       SpuriousWakeup, Submit, Answered
<1>8. CASE \/ BeginAdd(s) \/ EndAdd(s) \/ ReadTaskNum(s) \/ WriteTaskNum(s) \/ TestTaskNum(s)
           \/ Record(s) \/ ReadNum(s) \/ WriteNum(s) \/ TestNum(s)
  BY <1>3, <1>8 DEF BeginAdd, EndAdd, AddThrows, Enters, ReadTaskNum, WriteTaskNum, TestTaskNum, Record, ReadNum,
       WriteNum, TestNum
<1>9. CASE LockToSignal(s) \/ Signal(s) \/ UnlockAfterSignal(s)
  BY <1>3, <1>9 DEF LockToSignal, Signal, UnlockAfterSignal
<1>10. QED
  BY <1>4, <1>5, <1>6, <1>7, <1>8, <1>9 DEF Step

\* The other threads keep PastInv: the step is not about their tasks.
LEMMA OtherPastStep ==
  ASSUME TypeOK, NEW s \in Schedule, Step(s) \/ SpuriousWakeup(s), NEW r \in Schedule \ {s},
         PastInv(r)
  PROVE  PastInv(r)'
<1>1. \A i \in DOMAIN runTask[r] : runTask[r][i] # Current(s)
  BY Places, Currents
<1>2. \A i \in DOMAIN runTask[r] : outcome'[runTask[r][i]] = outcome[runTask[r][i]]
  <2>1. \A t \in Task \ {Current(s)} : outcome'[t] = outcome[t]
    BY Outcomes DEF TypeOK
  <2>2. QED
    BY <1>1, <2>1, Places
<1>3. outcome'[Current(r)] = outcome[Current(r)]
  BY <1>2 DEF TypeOK, Current
<1>4. QED
  BY <1>2, <1>3, Others DEF PastInv

-----------------------------------------------------------------------------
\* A step that leaves the locks alone starts and ends no critical section.
LEMMA LockUntouched ==
  ASSUME IInv, NEW s \in Schedule, Step(s) \/ SpuriousWakeup(s), UNCHANGED owner,
         NEW r \in Schedule, NEW u \in Schedule
  PROVE  Holds(r, u)' <=> Holds(r, u)
<1> USE DEF IInv, TypeOK, Goto, Acquire, Release
<1>1. CASE r # s
  <2>1. todo'[r] = todo[r] /\ (pc'[r] = pc[r] \/ (pc[r] = "parked" /\ pc'[r] = "woken"))
    BY <1>1, Others
  <2>2. QED
    BY <2>1 DEF Holds, Child
<1>2. CASE r = s
  <2>1. CASE \/ LockToWait(s) \/ Await(s) \/ ReturnFromAwait(s) \/ UnlockAfterWait(s)
    BY <2>1, PlanAssumption DEF LockToWait, Await, ReturnFromAwait, UnlockAfterWait
  <2>2. CASE LockToSignal(s) \/ UnlockAfterSignal(s)
    <3>1. Owner(Child(s)) \in Schedule
      BY <2>2, ChildIsTask, Owners DEF LockToSignal, UnlockAfterSignal, ThreadInv
    <3>2. QED
      BY <2>2, <3>1, PlanAssumption DEF LockToSignal, UnlockAfterSignal
  <2>3. CASE Start(s) \/ CheckReady(s) \/ SpuriousWakeup(s) \/ Submit(s) \/ Answered(s) \/ VMHangs(s)
    BY <1>2, <2>3 DEF Start, CheckReady, SpuriousWakeup, Submit, Answered, VMHangs, Holds
  <2>4. CASE SubmissionFails(s) \/ AddThrows(s) \/ RecordThrows(s) \/ Finish(s)
    BY <1>2, <2>4 DEF SubmissionFails, AddThrows, Enters, RecordThrows, Finish, NextTask, Holds
  <2>5. CASE \/ BeginAdd(s) \/ EndAdd(s) \/ ReadTaskNum(s) \/ WriteTaskNum(s) \/ TestTaskNum(s)
             \/ Record(s) \/ ReadNum(s) \/ WriteNum(s) \/ TestNum(s)
    BY <1>2, <2>5 DEF BeginAdd, EndAdd, AddThrows, Enters, ReadTaskNum, WriteTaskNum, TestTaskNum, Record, ReadNum,
         WriteNum, TestNum, Holds
  <2>6. CASE Signal(s)
    BY <1>2, <2>6 DEF Signal, Holds, Child
  <2>7. QED
    BY <2>1, <2>2, <2>3, <2>4, <2>5, <2>6 DEF Step
<1>3. QED
  BY <1>1, <1>2

\* Each lock is taken and released by the thread whose critical section begins and ends.
LEMMA LockStep ==
  ASSUME IInv, LockInv, NEW s \in Schedule, Step(s) \/ SpuriousWakeup(s)
  PROVE  LockInv'
<1> SUFFICES ASSUME NEW r \in Schedule, NEW u \in Schedule
             PROVE  owner'[u] = r <=> Holds(r, u)'
  BY DEF LockInv
<1>0. \A x, y \in Schedule : owner[y] = x <=> Holds(x, y)
  BY DEF LockInv
<1> USE DEF IInv, TypeOK, Goto, Acquire, Release
<1>1. CASE UNCHANGED owner
  BY <1>0, <1>1, LockUntouched
<1>2. CASE LockToWait(s) \/ Await(s) \/ ReturnFromAwait(s) \/ UnlockAfterWait(s)
  <2>1. CASE r # s \/ u # s
    <3>1. /\ \A x \in Schedule \ {s} : pc'[x] = pc[x] /\ owner'[x] = owner[x]
          /\ todo' = todo /\ pc[s] \notin {"signal", "unlockOwner"}
          /\ pc'[s] \notin {"signal", "unlockOwner"}
          /\ owner[s] \in {s, NoSchedule} /\ owner'[s] \in {s, NoSchedule}
      BY <1>2 DEF LockToWait, Await, ReturnFromAwait, UnlockAfterWait
    <3>2. CASE r # s
      <4>1. Holds(r, u)' <=> Holds(r, u)
        BY <3>1, <3>2 DEF Holds, Child
      <4>2. owner'[u] = r <=> owner[u] = r
        <5>1. r # NoSchedule
          BY PlanAssumption
        <5>2. QED
          BY <3>1, <3>2, <5>1
      <4>3. QED
        BY <1>0, <4>1, <4>2
    <3>3. CASE r = s /\ u # s
      BY <1>0, <3>1, <3>3 DEF Holds
    <3>4. QED
      BY <2>1, <3>2, <3>3
  <2>2. CASE r = s /\ u = s
    BY <1>2, <2>2, PlanAssumption
       DEF LockToWait, Await, ReturnFromAwait, UnlockAfterWait, Holds, Child
  <2>3. QED
    BY <2>1, <2>2
<1>3. CASE LockToSignal(s)
  <2>1. PICK d \in Schedule : d = Owner(Child(s))
    BY <1>3, ChildIsTask, Owners DEF LockToSignal, ThreadInv
  <2>2. /\ pc[s] = "lockOwner" /\ pc' = [pc EXCEPT ![s] = "signal"]
        /\ owner[d] = NoSchedule /\ owner' = [owner EXCEPT ![d] = s]
        /\ todo' = todo
    BY <1>3, <2>1 DEF LockToSignal
  <2>3. Owner(Child(r))' = Owner(Child(r))
    BY <2>2 DEF Child
  <2>4. QED
    BY <1>0, <2>1, <2>2, <2>3, PlanAssumption DEF Holds
<1>4. CASE UnlockAfterSignal(s)
  <2>1. PICK d \in Schedule : d = Owner(Child(s))
    BY <1>4, ChildIsTask, Owners DEF UnlockAfterSignal, ThreadInv
  <2>2. /\ pc[s] = "unlockOwner" /\ pc' = [pc EXCEPT ![s] = "notify"]
        /\ owner[d] = s /\ owner' = [owner EXCEPT ![d] = NoSchedule]
        /\ todo' = [todo EXCEPT ![s] = @ \ {First(@)}]
    BY <1>4, <2>1 DEF UnlockAfterSignal
  <2>3. CASE r = s
    <3>1. owner[u] = s => u = d
      BY <1>0, <2>1, <2>2 DEF Holds
    <3>2. owner'[u] # s /\ pc'[s] = "notify"
      BY <2>2, <3>1, PlanAssumption
    <3>3. QED
      BY <2>3, <3>2 DEF Holds
  <2>4. CASE r # s
    <3>1. Owner(Child(r))' = Owner(Child(r))
      BY <2>2, <2>4 DEF Child
    <3>2. QED
      BY <1>0, <2>1, <2>2, <2>4, <3>1, PlanAssumption DEF Holds
  <2>5. QED
    BY <2>3, <2>4
<1>5. QED
  BY <1>1, <1>2, <1>3, <1>4 DEF Step, Start, CheckReady, SpuriousWakeup, Submit, Answered,
       SubmissionFails, VMHangs, BeginAdd, EndAdd, AddThrows, Enters, ReadTaskNum, WriteTaskNum, TestTaskNum, Record,
       RecordThrows, ReadNum, WriteNum, TestNum, Signal, Finish

(***************************************************************************)
(* The locks and the past of the threads are invariant on top of IInv.     *)
(***************************************************************************)
LEMMA StopInvariance == Spec => []StopInv
<1>1. Init => StopInv
  <2> SUFFICES ASSUME Init PROVE StopInv
    OBVIOUS
  <2>1. LockInv
    BY PlanAssumption DEF Init, LockInv, Holds
  <2>2. ASSUME NEW s \in Schedule PROVE PastInv(s)
    <3>1. runTask[s] \in Seq(Task) /\ pos[s] = 1 /\ pc[s] = "new"
      BY PlanAssumption DEF Init
    <3>2. \A i \in DOMAIN runTask[s] : ~ (i < pos[s])
      BY <3>1
    <3>3. QED
      BY <3>1, <3>2 DEF PastInv
  <2>3. QED
    BY <2>1, <2>2 DEF StopInv
<1>2. IInv /\ StopInv /\ [Next]_vars => StopInv'
  <2> SUFFICES ASSUME IInv, StopInv, [Next]_vars PROVE StopInv'
    OBVIOUS
  <2>1. CASE UNCHANGED vars
    BY <2>1 DEF vars, StopInv, LockInv, PastInv, Holds, Child, Current
  <2>2. ASSUME NEW s \in Schedule, Step(s) \/ SpuriousWakeup(s) PROVE StopInv'
    BY <2>2, LockStep, OwnPastStep, OtherPastStep DEF StopInv, IInv
  <2>3. QED
    BY <2>1, <2>2 DEF Next
<1>3. QED
  BY <1>1, <1>2, Invariance, PTL DEF Spec

-----------------------------------------------------------------------------
(* Why execute() may never return.                                         *)

\* When no thread can go on, no lock is held, so none of them waits for one.
LEMMA NoLockWhenStopped ==
  ASSUME IInv, StopInv, \A s \in Schedule : ~CanStep(s)
  PROVE  \A s \in Schedule : pc[s] \in {"parked", "hung", "done"}
<1>1. \A r \in Schedule : owner[r] = NoSchedule
  <2> SUFFICES ASSUME NEW r \in Schedule, owner[r] # NoSchedule PROVE FALSE
    OBVIOUS
  <2>1. PICK s \in Schedule : owner[r] = s
    BY DEF IInv, TypeOK
  <2>2. Holds(s, r)
    BY <2>1 DEF StopInv, LockInv
  <2>3. CanStep(s)
    BY <2>2 DEF Holds, CanStep
  <2>4. QED
    BY <2>3
<1>2. ASSUME NEW s \in Schedule PROVE pc[s] \in {"parked", "hung", "done"}
  <2>1. CASE pc[s] = "lockOwner"
    <3>1. Owner(Child(s)) \in Schedule
      BY <2>1, ChildIsTask, Owners DEF IInv, ThreadInv
    <3>2. QED
      BY <1>1, <2>1, <3>1 DEF CanStep
  <2>2. CASE pc[s] # "lockOwner"
    BY <1>1, <2>2 DEF CanStep
  <2>3. QED
    BY <2>1, <2>2
<1>3. QED
  BY <1>2

(***************************************************************************)
(* When all threads have stopped and no task has failed, a waiting task is *)
(* the current one of a parked thread or comes behind a waiting task.      *)
(***************************************************************************)
LEMMA WaitingWhenStopped ==
  ASSUME IInv, StopInv, \A s \in Schedule : pc[s] \in {"parked", "hung", "done"},
         \A u \in Task : outcome[u] # "failed", NEW t \in Waiting
  PROVE  \/ pc[Owner(t)] = "parked" /\ Current(Owner(t)) = t
         \/ Previous(t) \cap Waiting # {}
<1> DEFINE s == Owner(t)
<1>1. t \in Task /\ outcome[t] = "waiting"
  BY DEF Waiting
<1>2. s \in Schedule
  BY <1>1, Owners
<1>3. PICK i \in DOMAIN runTask[s] : t = runTask[s][i]
  BY <1>1, Owners
<1> HIDE DEF s
<1>4. /\ runTask[s] \in Seq(Task) /\ i \in Nat
      /\ pos[s] \in DOMAIN runTask[s] /\ pos[s] \in Nat
  BY <1>2, <1>3, PlanAssumption, Places DEF IInv, TypeOK
<1>5. DOMAIN runTask[s] = 1 .. Len(runTask[s]) /\ Len(runTask[s]) \in Nat
  BY <1>4
<1>6. ThreadInv(s) /\ PastInv(s)
  BY <1>2 DEF IInv, StopInv
<1>7. ~ (i < pos[s])
  BY <1>1, <1>3, <1>6 DEF PastInv
<1>8. CASE i = pos[s]
  <2>1. Current(s) = t
    BY <1>3, <1>8 DEF Current
  <2>2. pc[s] = "parked"
    BY <1>1, <1>2, <1>6, <2>1 DEF PastInv
  <2>3. QED
    BY <2>1, <2>2 DEF s
<1>9. CASE i > pos[s]
  <2>1. i - 1 \in DOMAIN runTask[s] /\ (i - 1) + 1 = i /\ (i - 1 = pos[s] \/ i - 1 > pos[s])
    BY <1>4, <1>5, <1>9
  <2>2. runTask[s][i - 1] \in Previous(t)
    BY <1>3, <2>1 DEF Previous, s
  <2>3. outcome[runTask[s][i - 1]] = "waiting"
    <3>1. CASE i - 1 > pos[s]
      BY <1>6, <2>1, <3>1 DEF ThreadInv
    <3>2. CASE i - 1 = pos[s]
      <4>1. pc[s] = "parked"
        <5>1. pc[s] # "done"
          BY <1>4, <1>5, <1>6, <1>9 DEF PastInv
        <5>2. pc[s] # "hung"
          BY <1>2, <1>6, Currents DEF PastInv, IInv
        <5>3. QED
          BY <1>2, <5>1, <5>2
      <4>2. QED
        BY <1>6, <3>2, <4>1 DEF ThreadInv, BeforeSubmit, Current
    <3>3. QED
      BY <2>1, <3>1, <3>2
  <2>4. runTask[s][i - 1] \in Task
    BY <1>2, <2>1, Places
  <2>5. QED
    BY <2>2, <2>3, <2>4 DEF Waiting
<1>10. QED
  BY <1>4, <1>7, <1>8, <1>9

\* A waiting task that is still owed a decrement when all threads have stopped has a waiting parent.
LEMMA PendingWhenStopped ==
  ASSUME IInv, StopInv, \A s \in Schedule : pc[s] \in {"parked", "hung", "done"},
         \A u \in Task : outcome[u] # "failed",
         \A u \in Task : ~ (entry[u] = "thrown" /\ Out(u) # {}), NEW t \in Task, Pending(t) # {}
  PROVE  Parents(t) \cap Waiting # {}
<1>1. PICK c \in In(t) : ~Notified(c)
  BY DEF Pending
<1>2. PICK p \in Task : p = srcTask[c] /\ p \in Parents(t) /\ c \in Out(p)
  BY GraphAssumption DEF In, Out, Parents
<1>3. PICK s \in Schedule : s = Owner(p)
  BY Owners
<1>4. PICK i \in DOMAIN runTask[s] : p = runTask[s][i]
  BY <1>3, Owners
<1>5. ThreadInv(s) /\ PastInv(s) /\ pc[s] \in {"parked", "hung", "done"}
  BY DEF IInv, StopInv
<1>6. outcome[p] # "completed"
  <2> SUFFICES ASSUME outcome[p] = "completed" PROVE FALSE
    OBVIOUS
  <2>1. Current(s) = p /\ pc[s] # "done"
    BY <1>1, <1>2, <1>3 DEF Notified
  <2>2. QED
    BY <1>5, <2>1 DEF ThreadInv, PastInv, BeforeSubmit
<1>7. outcome[p] # "running"
  <2>1. pos[s] \in Nat /\ i \in Nat
    BY <1>4, Places DEF IInv, TypeOK
  <2>2. CASE i < pos[s]
    BY <1>4, <1>5, <2>2 DEF PastInv
  <2>3. CASE i > pos[s]
    BY <1>4, <1>5, <2>3 DEF ThreadInv
  <2>4. CASE i = pos[s]
    <3>1. Current(s) = p
      BY <1>4, <2>4 DEF Current
    <3>2. QED
      BY <1>5, <3>1 DEF ThreadInv, PastInv, BeforeSubmit
  <2>5. QED
    BY <2>1, <2>2, <2>3, <2>4
<1>8. outcome[p] = "waiting"
  BY <1>6, <1>7 DEF IInv, TypeOK
<1>9. QED
  BY <1>2, <1>8 DEF Waiting

(***************************************************************************)
(* The executor gets stuck only for a failed task, a lost decrement or     *)
(* signal, an entry that threw, or local schedules whose orders contradict *)
(* the dependencies; its locks are never the reason.                       *)
(***************************************************************************)
THEOREM NeverStuckOnLocks == Spec => []StopsForAReason
<1>1. IInv /\ StopInv => StopsForAReason
  <2> SUFFICES ASSUME IInv, StopInv, \A s \in Schedule : ~CanStep(s),
                      ~ \E t \in Task : outcome[t] = "failed",
                      ~ \E s \in Schedule : pc[s] = "parked" /\ Pending(Current(s)) = {},
                      ~ \E t \in Task : entry[t] = "thrown" /\ Out(t) # {},
                      NEW t \in Waiting
               PROVE  (Parents(t) \cup Previous(t)) \cap Waiting # {}
    BY NoLockWhenStopped DEF StopsForAReason
  <2>1. \A s \in Schedule : pc[s] \in {"parked", "hung", "done"}
    BY NoLockWhenStopped
  <2>2. t \in Task
    BY DEF Waiting
  <2>3. CASE pc[Owner(t)] = "parked" /\ Current(Owner(t)) = t
    <3>1. Pending(t) # {}
      BY <2>2, <2>3, Owners
    <3>2. QED
      BY <2>1, <2>2, <3>1, PendingWhenStopped
  <2>4. CASE Previous(t) \cap Waiting # {}
    BY <2>4
  <2>5. QED
    BY <2>1, <2>3, <2>4, WaitingWhenStopped
<1>2. QED
  BY <1>1, Invariance, StopInvariance, PTL

-----------------------------------------------------------------------------
\* The ranks of the places, one by one.
LEMMA RankValues ==
  /\ Rank("new") = 0 /\ Rank("woken") = 0 /\ Rank("unlock") = 1 /\ Rank("check") = 2
  /\ Rank("lock") = 3 /\ Rank("await") = 4 /\ Rank("parked") = 5 /\ Rank("submit") = 6
  /\ Rank("answer") = 7 /\ Rank("hung") = 8 /\ Rank("add") = 8 /\ Rank("adding") = 9
  /\ Rank("readTaskNum") = 10 /\ Rank("writeTaskNum") = 11 /\ Rank("testTaskNum") = 12
  /\ Rank("record") = 13 /\ Rank("unlockOwner") = 14 /\ Rank("notify") = 15
  /\ Rank("decrement") = 16 /\ Rank("testNum") = 17 /\ Rank("lockOwner") = 18
  /\ Rank("signal") = 19 /\ Rank("done") = 20
BY DEF Rank

\* The channels a thread may still signal are channels of its own tasks.
LEMMA OwnChannels ==
  ASSUME TypeOK, NEW s \in Schedule, ThreadInv(s)
  PROVE  \A c \in Here(s) \cup Ahead(s) : Owner(srcTask[c]) = s
<1>1. \A c \in Here(s) : c \in Out(Current(s))
  BY DEF Here, ThreadInv
<1>2. \A c \in Here(s) : Owner(srcTask[c]) = s
  BY <1>1, Currents DEF Out
<1>3. \A c \in Ahead(s) : Owner(srcTask[c]) = s
  BY Places DEF Ahead, Out
<1>4. QED
  BY <1>2, <1>3

\* The end of a round leaves the channels of the task behind.
LEMMA AheadNext ==
  ASSUME TypeOK, NEW s \in Schedule, NEW from, NextTask(s, from)
  PROVE  (Here(s) \cup Ahead(s))' \subseteq Ahead(s)
<1> USE DEF TypeOK, Goto
<1>1. CASE pos[s] = Len(runTask[s])
  <2>1. pos'[s] = pos[s] /\ pc'[s] = "done"
    BY <1>1 DEF NextTask
  <2>2. Ahead(s)' = Ahead(s) /\ Here(s)' = {}
    BY <2>1 DEF Ahead, Here, Out, Channel
  <2>3. QED
    BY <2>2
<1>2. CASE pos[s] # Len(runTask[s])
  <2>1. pos'[s] = pos[s] + 1 /\ pc'[s] = "check"
    BY <1>2 DEF NextTask
  <2>2. pos[s] \in Nat /\ pos[s] + 1 \in DOMAIN runTask[s] /\ pos[s] + 1 > pos[s]
    BY <1>2, Later
  <2>3. Here(s)' = Out(runTask[s][pos[s] + 1])
    BY <2>1 DEF Here, Current, Out, Channel
  <2>4. Out(runTask[s][pos[s] + 1]) \subseteq Ahead(s)
    BY <2>2 DEF Ahead
  <2>5. \A i \in DOMAIN runTask[s] : i > pos'[s] => i > pos[s]
    BY <2>1, <2>2, Places
  <2>6. Ahead(s)' \subseteq Ahead(s)
    BY <2>5 DEF Ahead, Out, Channel
  <2>7. QED
    BY <2>3, <2>4, <2>6
<1>3. QED
  BY <1>1, <1>2

\* What the thread that takes a step may still signal only becomes less.
LEMMA OwnSignals ==
  ASSUME TypeOK, NEW s \in Schedule, ThreadInv(s), Step(s) \/ SpuriousWakeup(s)
  PROVE  (Here(s) \cup Ahead(s))' \subseteq Here(s) \cup Ahead(s)
<1> USE DEF TypeOK, Goto
<1>1. CASE SubmissionFails(s) \/ AddThrows(s) \/ RecordThrows(s) \/ Finish(s)
  BY <1>1, AheadNext DEF SubmissionFails, AddThrows, Enters, RecordThrows, Finish
<1>2. CASE ~ (SubmissionFails(s) \/ AddThrows(s) \/ RecordThrows(s) \/ Finish(s))
  <2>0. pos' = pos
    BY <1>2 DEF Step, Start, CheckReady, LockToWait, Await, ReturnFromAwait, UnlockAfterWait,
         SpuriousWakeup, Submit, Answered, VMHangs, BeginAdd, EndAdd, AddThrows, Enters, ReadTaskNum, WriteTaskNum,
         TestTaskNum, Record, ReadNum, WriteNum, TestNum, LockToSignal, Signal, UnlockAfterSignal
  <2>1. Ahead(s)' = Ahead(s) /\ Out(Current(s))' = Out(Current(s))
    BY <2>0 DEF Ahead, Out, Channel, Current
  <2>2. CASE \/ Start(s) \/ CheckReady(s) \/ LockToWait(s) \/ Await(s) \/ ReturnFromAwait(s)
             \/ UnlockAfterWait(s) \/ SpuriousWakeup(s) \/ Submit(s) \/ Answered(s) \/ VMHangs(s)
    <3>1. Here(s) = Out(Current(s)) /\ Here(s)' \subseteq Out(Current(s))'
      BY <2>2 DEF Here, Start, CheckReady, LockToWait, Await, ReturnFromAwait, UnlockAfterWait,
           SpuriousWakeup, Submit, Answered, VMHangs
    <3>2. QED
      BY <2>1, <3>1
  <2>3. CASE BeginAdd(s) \/ EndAdd(s) \/ ReadTaskNum(s) \/ WriteTaskNum(s)
    <3>1. Here(s) = Out(Current(s)) /\ Here(s)' = Out(Current(s))'
      BY <2>3 DEF Here, BeginAdd, EndAdd, AddThrows, Enters, ReadTaskNum, WriteTaskNum
    <3>2. QED
      BY <2>1, <3>1
  <2>4. CASE TestTaskNum(s) \/ Record(s)
    <3>1. Here(s) = Out(Current(s)) /\ Here(s)' \subseteq Out(Current(s))'
      BY <2>1, <2>4 DEF Here, TestTaskNum, Record
    <3>2. QED
      BY <2>1, <3>1
  <2>5. CASE \/ ReadNum(s) \/ WriteNum(s) \/ TestNum(s) \/ LockToSignal(s) \/ Signal(s)
             \/ UnlockAfterSignal(s)
    <3>1. Here(s)' \subseteq Here(s)
      BY <2>5 DEF Here, ReadNum, WriteNum, TestNum, LockToSignal, Signal, UnlockAfterSignal
    <3>2. QED
      BY <2>1, <3>1
  <2>6. QED
    BY <1>2, <2>2, <2>3, <2>4, <2>5 DEF Step
<1>3. QED
  BY <1>1, <1>2

\* What any thread may still signal only becomes less.
LEMMA SignalsShrink ==
  ASSUME IInv, NEW s \in Schedule, Step(s) \/ SpuriousWakeup(s), NEW r \in Schedule
  PROVE  (Here(r) \cup Ahead(r))' \subseteq Here(r) \cup Ahead(r)
<1>1. CASE r # s
  <2>1. /\ pos'[r] = pos[r] /\ todo'[r] = todo[r] /\ Current(r)' = Current(r)
        /\ pc'[r] = pc[r] \/ (pc[r] = "parked" /\ pc'[r] = "woken")
    BY <1>1, Others DEF IInv
  <2>2. Ahead(r)' = Ahead(r) /\ Out(Current(r))' = Out(Current(r))
    BY <2>1 DEF Ahead, Out, Channel
  <2>3. Here(r)' = Here(r)
    BY <2>1, <2>2 DEF Here
  <2>4. QED
    BY <2>2, <2>3
<1>2. CASE r = s
  BY <1>2, OwnSignals DEF IInv
<1>3. QED
  BY <1>1, <1>2

\* A channel of the current task that leaves Here(s) leaves Unsignalled.
LEMMA ChannelServed ==
  ASSUME IInv, NEW s \in Schedule, Step(s), NEW c, c \in Here(s),
         Unsignalled' = Unsignalled, pos' = pos
  PROVE  c \in Here(s)'
<1>1. c \in Unsignalled'
  BY DEF Unsignalled
<1>2. PICK r \in Schedule : c \in (Here(r) \cup Ahead(r))'
  BY <1>1 DEF Unsignalled
<1>3. c \in Here(r) \cup Ahead(r)
  BY <1>2, SignalsShrink
<1>4. Owner(srcTask[c]) = s
  BY OwnChannels DEF IInv
<1>5. r = s
  BY <1>3, <1>4, OwnChannels DEF IInv
<1>6. c \notin Ahead(s)
  <2>1. c \in Out(Current(s))
    BY DEF IInv, ThreadInv, Here
  <2>2. \A i \in DOMAIN runTask[s] : i > pos[s] => runTask[s][i] # Current(s)
    BY Later DEF IInv
  <2>3. QED
    BY <2>1, <2>2 DEF Ahead, Out
<1>7. Ahead(s)' = Ahead(s)
  BY DEF Ahead, Out, Channel
<1>8. QED
  BY <1>2, <1>5, <1>6, <1>7

\* A step takes its thread forward, unless it signals, gives a channel up or is a spurious wakeup.
LEMMA StepAdvances ==
  ASSUME IInv, NEW s \in Schedule, Step(s), ~Signal(s), Unsignalled' = Unsignalled
  PROVE  Advances(s)
<1> USE DEF IInv, TypeOK, Goto
<1>1. ASSUME NEW from, NEW to, Goto(s, from, to), pos' = pos, Rank(to) > Rank(from)
      PROVE  Advances(s)
  BY <1>1 DEF Advances
<1>2. ASSUME NEW from, NextTask(s, from), from \in {"answer", "adding", "record", "notify"}
      PROVE  Advances(s)
  <2>1. pc[s] = from /\ Rank(from) < Rank("done")
    BY <1>2, RankValues DEF NextTask
  <2>2. CASE pos[s] = Len(runTask[s])
    BY <1>2, <2>1, <2>2 DEF NextTask, Advances
  <2>3. CASE pos[s] # Len(runTask[s])
    <3>1. pos'[s] = pos[s] + 1 /\ pos[s] + 1 > pos[s] /\ pos[s] \in Nat
      BY <1>2, <2>3, Later DEF NextTask
    <3>2. QED
      BY <1>2, <3>1 DEF NextTask, Advances
  <2>4. QED
    BY <2>2, <2>3
<1>3. CASE SubmissionFails(s) \/ AddThrows(s) \/ RecordThrows(s) \/ Finish(s)
  BY <1>2, <1>3 DEF SubmissionFails, AddThrows, Enters, RecordThrows, Finish
<1>4. CASE Start(s) \/ LockToWait(s) \/ Await(s) \/ ReturnFromAwait(s) \/ UnlockAfterWait(s)
  <2>1. pos' = pos
    BY <1>4 DEF Start, LockToWait, Await, ReturnFromAwait, UnlockAfterWait
  <2>2. \/ Goto(s, "new", "check") \/ Goto(s, "lock", "await") \/ Goto(s, "await", "parked")
        \/ Goto(s, "woken", "unlock") \/ Goto(s, "unlock", "check")
    BY <1>4 DEF Start, LockToWait, Await, ReturnFromAwait, UnlockAfterWait
  <2> HIDE DEF IInv, TypeOK, Goto
  <2>3. QED
    BY <1>1, <2>1, <2>2, RankValues
<1>5. CASE CheckReady(s) \/ Submit(s) \/ Answered(s) \/ VMHangs(s)
  <2>1. pos' = pos
    BY <1>5 DEF CheckReady, Submit, Answered, VMHangs
  <2>2. \/ Goto(s, "check", "submit") \/ Goto(s, "check", "lock") \/ Goto(s, "submit", "answer")
        \/ Goto(s, "answer", "add") \/ Goto(s, "answer", "hung")
    BY <1>5 DEF CheckReady, Submit, Answered, VMHangs
  <2> HIDE DEF IInv, TypeOK, Goto
  <2>3. QED
    BY <1>1, <2>1, <2>2, RankValues
<1>6. CASE \/ BeginAdd(s) \/ EndAdd(s) \/ ReadTaskNum(s) \/ WriteTaskNum(s) \/ TestTaskNum(s)
           \/ Record(s)
  <2>1. pos' = pos
    BY <1>6 DEF BeginAdd, EndAdd, AddThrows, Enters, ReadTaskNum, WriteTaskNum, TestTaskNum, Record
  <2>2. \/ Goto(s, "add", "adding") \/ Goto(s, "adding", "readTaskNum")
        \/ Goto(s, "readTaskNum", "writeTaskNum") \/ Goto(s, "writeTaskNum", "testTaskNum")
        \/ Goto(s, "testTaskNum", "record") \/ Goto(s, "testTaskNum", "notify")
        \/ Goto(s, "record", "notify")
    BY <1>6 DEF BeginAdd, EndAdd, AddThrows, Enters, ReadTaskNum, WriteTaskNum, TestTaskNum, Record
  <2> HIDE DEF IInv, TypeOK, Goto
  <2>3. QED
    BY <1>1, <2>1, <2>2, RankValues
<1>7. CASE ReadNum(s) \/ WriteNum(s) \/ LockToSignal(s) \/ UnlockAfterSignal(s)
  BY <1>7, RankValues DEF Advances, ReadNum, WriteNum, LockToSignal, UnlockAfterSignal
<1>8. CASE TestNum(s)
  <2>1. CASE num[Child(s)] = 0
    BY <1>8, <2>1, RankValues DEF TestNum, Advances
  <2>2. CASE num[Child(s)] # 0
    <3>1. First(todo[s]) \in Here(s)
      BY <1>8, ChildIsTask DEF TestNum, Here, ThreadInv
    <3>2. First(todo[s]) \notin Here(s)'
      BY <1>8, <2>2 DEF TestNum, Here
    <3>3. pos' = pos
      BY <1>8 DEF TestNum
    <3>4. QED
      BY <3>1, <3>2, <3>3, ChannelServed
  <2>3. QED
    BY <2>1, <2>2
<1>9. QED
  BY <1>3, <1>4, <1>5, <1>6, <1>7, <1>8 DEF Step

(***************************************************************************)
(* No thread of the executor goes round in circles: a step brings nearer   *)
(* the moment at which only spurious wakeups can happen.                   *)
(***************************************************************************)
THEOREM NoCircles == Spec => AlwaysOnward
<1>1. ASSUME IInv, [Next]_vars PROVE [Onward]_vars
  <2> SUFFICES ASSUME Next PROVE Onward
    BY <1>1
  <2> USE <1>1
  <2>1. PICK s \in Schedule : Step(s) \/ SpuriousWakeup(s)
    BY DEF Next
  <2>2. Unsignalled' \subseteq Unsignalled
    BY <2>1, SignalsShrink DEF Unsignalled
  <2>3. CASE SpuriousWakeup(s)
    <3>1. spurious' = spurious + 1 /\ spurious \in Nat
      BY <2>3, PlanAssumption DEF SpuriousWakeup, IInv, TypeOK
    <3>2. QED
      BY <2>2, <3>1 DEF Onward
  <2>4. CASE Step(s)
    <3>1. spurious' = spurious /\ spurious \in Nat
      BY <2>4, PlanAssumption
         DEF IInv, TypeOK, Step, Start, CheckReady, LockToWait, Await, ReturnFromAwait,
             UnlockAfterWait, Submit, Answered, SubmissionFails, VMHangs, BeginAdd, EndAdd, AddThrows, Enters,
             ReadTaskNum, WriteTaskNum, TestTaskNum, Record, RecordThrows, ReadNum, WriteNum,
             TestNum, LockToSignal, Signal, UnlockAfterSignal, Finish
    <3>2. CASE Signal(s)
      <4>1. First(todo[s]) \in Here(s) /\ First(todo[s]) \notin Here(s)' /\ pos' = pos
        BY <3>2, ChildIsTask DEF Signal, Here, IInv, ThreadInv
      <4>2. Unsignalled' # Unsignalled
        BY <2>4, <4>1, ChannelServed
      <4>3. QED
        BY <2>2, <3>1, <4>2 DEF Onward
    <3>3. CASE ~Signal(s)
      BY <2>2, <2>4, <3>1, <3>3, StepAdvances DEF Onward
    <3>4. QED
      BY <3>2, <3>3
  <2>5. QED
    BY <2>1, <2>3, <2>4
<1>2. QED
  BY <1>1, Invariance, PTL DEF Spec, AlwaysOnward

=============================================================================
