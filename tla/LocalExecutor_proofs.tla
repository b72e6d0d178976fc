------------------------ MODULE LocalExecutor_proofs ------------------------
(***************************************************************************)
(* Proofs about WorkflowExecutor_Local for every workflow graph.           *)
(***************************************************************************)
EXTENDS LocalExecutor, FiniteSetTheorems, WellFoundedInduction, NaturalsInduction, TLAPS

(***************************************************************************)
(* A loop over the children visits an entry of its queue: First(S) is a    *)
(* member of every non-empty set of channels.                              *)
(***************************************************************************)
LEMMA FirstIn ==
  ASSUME NEW S, S \subseteq Channel, S # {}
  PROVE  First(S) \in S
<1> DEFINE Less == {p \in Nat \X Nat : p[1] < p[2]}
<1>1. IsWellFoundedOn(OpToRel(<, Nat), Nat)
  BY NatLessThanWellFounded
<1>2. OpToRel(<, Nat) = Less
  BY DEF OpToRel
<1>3. S \subseteq Nat
  BY GraphAssumption DEF Channel
<1> HIDE DEF Less
<1>4. PICK c \in S : \A d \in S : ~ (<<d, c>> \in Less)
  BY <1>1, <1>2, <1>3, WFMin
<1>5. ASSUME NEW d \in S PROVE c <= d
  <2>1. c \in Nat /\ d \in Nat
    BY <1>3
  <2>2. ~ (<<d, c>> \in Less)
    BY <1>4
  <2>3. ~ (d < c)
    BY <2>1, <2>2 DEF Less
  <2>4. QED
    BY <2>1, <2>3
<1>6. QED
  BY <1>5 DEF First

\* getParents() of a task and any part of it is a finite collection.
LEMMA InFinite ==
  ASSUME NEW t, NEW S \in SUBSET In(t)
  PROVE  IsFiniteSet(S) /\ Cardinality(S) \in Nat
<1>1. IsFiniteSet(Channel)
  BY GraphAssumption, FS_Interval DEF Channel
<1>2. S \subseteq Channel
  BY DEF In
<1>3. QED
  BY <1>1, <1>2, FS_Subset, FS_CardinalityType

-----------------------------------------------------------------------------
\* Every step leaves the counters of the loops alone or is one of the thread's.
LEMMA LoopStep == IInv /\ [Next]_vars => LoopInv'
<1> SUFFICES ASSUME IInv, [Next]_vars PROVE LoopInv'
  OBVIOUS
<1> USE DEF IInv, TypeOK, LoopInv, Counted, Executed, Begun, Goto
<1>1. CASE UNCHANGED vars
  BY <1>1 DEF vars
<1>2. CASE Return
  BY <1>2 DEF Return
<1>3. ASSUME NEW t \in Task, Start(t) \/ CheckReady(t) \/ TaskSucceeds(t) \/ TaskThrows(t)
                             \/ ReadTaskNum(t) \/ WriteTaskNum(t) \/ SpuriousWakeup(t)
      PROVE  LoopInv'
  BY <1>3 DEF Start, CheckReady, TaskSucceeds, TaskThrows, ReadTaskNum, WriteTaskNum, SpuriousWakeup
<1>4. ASSUME NEW t \in Task, LockToWait(t) \/ Await(t) \/ ReturnFromAwait(t)
                             \/ UnlockAfterWait(t)
      PROVE  LoopInv'
  BY <1>4 DEF LockToWait, Await, ReturnFromAwait, UnlockAfterWait
<1>5. ASSUME NEW t \in Task, TestTaskNum(t)
      PROVE  LoopInv'
  BY <1>5 DEF TestTaskNum
<1>6. ASSUME NEW t \in Task, ReadPredecessors(t) \/ WritePredecessors(t) \/ LockToSignal(t)
      PROVE  LoopInv'
  BY <1>6 DEF ReadPredecessors, WritePredecessors, LockToSignal
<1>7. ASSUME NEW t \in Task, Signal(t)
      PROVE  LoopInv'
  BY <1>7 DEF Signal
<1>8. ASSUME NEW t \in Task, UnlockAfterSignal(t)
      PROVE  LoopInv'
  BY <1>8 DEF UnlockAfterSignal
<1>9. ASSUME NEW t \in Task, Finish(t)
      PROVE  LoopInv'
  BY <1>9 DEF Finish
<1>10. QED
  BY <1>1, <1>2, <1>3, <1>4, <1>5, <1>6, <1>7, <1>8, <1>9 DEF Next, Step

-----------------------------------------------------------------------------
(***************************************************************************)
(* A decrement that has been written stays written: the channels of a task *)
(* that are still pending only become fewer.                               *)
(***************************************************************************)
LEMMA PendingShrinks ==
  ASSUME IInv, [Next]_vars, NEW t \in Task
  PROVE  /\ Pending(t)' \subseteq Pending(t)
         /\ Cardinality(Pending(t)') <= Cardinality(Pending(t))
<1> USE DEF IInv, TypeOK, LoopInv, Goto
<1>1. ASSUME NEW c \in In(t), Notified(c) PROVE Notified(c)'
  <2> DEFINE p == srcTask[c]
  <2>1. p \in Task
    BY GraphAssumption DEF In
  <2>2. c \in Channel /\ c \in Out(p)
    BY GraphAssumption DEF In, Out
  <2>3. CASE UNCHANGED vars
    BY <1>1, <2>3 DEF vars, Notified
  <2>4. CASE Return
    BY <1>1, <2>4 DEF Return, Notified
  <2>5. ASSUME NEW u \in Task, Start(u) \/ CheckReady(u) \/ TaskSucceeds(u) \/ TaskThrows(u)
                               \/ ReadTaskNum(u) \/ WriteTaskNum(u) \/ SpuriousWakeup(u)
        PROVE  Notified(c)'
    BY <1>1, <2>1, <2>5 DEF Notified, Start, CheckReady, TaskSucceeds, TaskThrows,
         ReadTaskNum, WriteTaskNum, SpuriousWakeup
  <2>6. ASSUME NEW u \in Task, LockToWait(u) \/ Await(u) \/ ReturnFromAwait(u)
                               \/ UnlockAfterWait(u)
        PROVE  Notified(c)'
    BY <1>1, <2>1, <2>6 DEF Notified, LockToWait, Await, ReturnFromAwait, UnlockAfterWait
  <2>7. ASSUME NEW u \in Task, TestTaskNum(u)
        PROVE  Notified(c)'
    BY <1>1, <2>1, <2>7 DEF Notified, TestTaskNum
  <2>8. ASSUME NEW u \in Task, ReadPredecessors(u) \/ WritePredecessors(u) \/ LockToSignal(u)
        PROVE  Notified(c)'
    BY <1>1, <2>1, <2>8 DEF Notified, ReadPredecessors, WritePredecessors, LockToSignal
  <2>9. ASSUME NEW u \in Task, Signal(u)
        PROVE  Notified(c)'
    BY <1>1, <2>1, <2>9 DEF Notified, Signal
  <2>10. ASSUME NEW u \in Task, UnlockAfterSignal(u)
        PROVE  Notified(c)'
    BY <1>1, <2>1, <2>10 DEF Notified, UnlockAfterSignal
  <2>11. ASSUME NEW u \in Task, Finish(u)
        PROVE  Notified(c)'
    BY <1>1, <2>1, <2>11 DEF Notified, Finish
  <2>12. QED
    BY <2>3, <2>4, <2>5, <2>6, <2>7, <2>8, <2>9, <2>10, <2>11 DEF Next, Step
<1>2. Pending(t)' \subseteq Pending(t)
  BY <1>1 DEF Pending
<1>3. Pending(t) \subseteq In(t)
  BY DEF Pending
<1>4. QED
  BY <1>2, <1>3, InFinite, FS_Subset

(***************************************************************************)
(* The write of a decrement takes exactly the channel being visited off    *)
(* the pending channels of the child.                                      *)
(***************************************************************************)
LEMMA PendingWrite ==
  ASSUME IInv, NEW p \in Task, WritePredecessors(p)
  PROVE  /\ Child(p) \in Task
         /\ Child(p)' = Child(p)
         /\ Cardinality(Pending(Child(p))') <= Cardinality(Pending(Child(p))) - 1
         /\ Cardinality(Pending(Child(p))) \in Nat
<1> PICK c : c = First(todo[p])
  OBVIOUS
<1> PICK d : d = Child(p)
  OBVIOUS
<1>1. todo[p] # {} /\ todo[p] \subseteq Out(p)
  BY DEF IInv, LoopInv, WritePredecessors, Goto
<1>2. c \in todo[p]
  BY <1>1, FirstIn DEF Out
<1>3. c \in Channel /\ srcTask[c] = p /\ destTask[c] = d /\ d \in Task
  BY <1>1, <1>2, GraphAssumption DEF Out, Child
<1>4. c \in In(d)
  BY <1>3, GraphAssumption DEF In
<1>5. todo' = todo /\ Child(p)' = d
  BY DEF WritePredecessors, Child
<1>6. ~Notified(c)
  BY <1>2, <1>3 DEF Notified, WritePredecessors, Goto, IInv, TypeOK
<1>7. Notified(c)'
  BY <1>2, <1>3, <1>5 DEF Notified, WritePredecessors, Goto, IInv, TypeOK
<1>8. [Next]_vars
  BY DEF Next, Step
<1>9. Pending(d)' \subseteq Pending(d) \ {c}
  <2>1. {x \in In(d) : ~Notified(x)'} \subseteq Pending(d)
    BY <1>3, <1>5, <1>8, PendingShrinks DEF Pending
  <2>2. Pending(d)' = {x \in In(d) : ~Notified(x)'}
    BY <1>5 DEF Pending
  <2>3. QED
    BY <1>7, <2>1, <2>2
<1>10. c \in Pending(d)
  BY <1>4, <1>6 DEF Pending
<1>11. IsFiniteSet(Pending(d)) /\ Cardinality(Pending(d)) \in Nat
  BY InFinite DEF Pending
<1>12. /\ IsFiniteSet(Pending(d) \ {c})
       /\ Cardinality(Pending(d) \ {c}) = Cardinality(Pending(d)) - 1
  BY <1>10, <1>11, FS_RemoveElement
<1>13. Cardinality(Pending(d)') <= Cardinality(Pending(d)) - 1
  BY <1>9, <1>12, FS_Subset
<1>14. QED
  BY <1>3, <1>5, <1>11, <1>13

-----------------------------------------------------------------------------
\* The counters of unfinished parents never promise too much.
LEMMA CounterStep == IInv /\ [Next]_vars => CounterInv'
<1> SUFFICES ASSUME IInv, [Next]_vars PROVE CounterInv'
  OBVIOUS
<1>1. \A t \in Task : /\ Pending(t)' \subseteq Pending(t)
                      /\ Cardinality(Pending(t)') <= Cardinality(Pending(t))
                      /\ Cardinality(Pending(t)) \in Nat
                      /\ Cardinality(Pending(t)') \in Nat
  <2>1. \A t \in Task : Pending(t) \subseteq In(t) /\ Pending(t)' \subseteq In(t)
    BY DEF Pending
  <2>2. QED
    BY <2>1, PendingShrinks, InFinite
\* predecessors and the readings of it hold no less than what is pending
<1>2. \A t \in Task : predecessors'[t] >= Cardinality(Pending(t)')
  <2>1. CASE UNCHANGED predecessors
    BY <1>1, <2>1 DEF IInv, CounterInv, TypeOK
  <2>2. ASSUME NEW p \in Task, WritePredecessors(p)
        PROVE  \A t \in Task : predecessors'[t] >= Cardinality(Pending(t)')
    <3>1. PICK d \in Task : /\ d = Child(p)
                            /\ Cardinality(Pending(d)') <= Cardinality(Pending(d)) - 1
      BY <2>2, PendingWrite
    <3>2. reg[p] >= Cardinality(Pending(d)) /\ reg[p] \in Nat
      BY <2>2, <3>1 DEF IInv, CounterInv, TypeOK, WritePredecessors, Goto
    <3>3. predecessors' = [predecessors EXCEPT ![d] = reg[p] - 1]
      BY <2>2, <3>1 DEF WritePredecessors
    <3>4. QED
      BY <1>1, <3>1, <3>2, <3>3 DEF IInv, CounterInv, TypeOK
  <2>3. QED
    BY <2>1, <2>2 DEF Next, Step, vars, Start, Return, CheckReady, LockToWait, Await,
         SpuriousWakeup, ReturnFromAwait, UnlockAfterWait, TaskSucceeds, TaskThrows, ReadTaskNum,
         WriteTaskNum, TestTaskNum, ReadPredecessors, LockToSignal, Signal, UnlockAfterSignal, Finish
<1>3. \A p \in Task : pc'[p] = "decrement" => reg'[p] >= Cardinality(Pending(Child(p))')
  <2> SUFFICES ASSUME NEW p \in Task, pc'[p] = "decrement"
               PROVE  reg'[p] >= Cardinality(Pending(Child(p))')
    OBVIOUS
  <2> USE DEF IInv, TypeOK, Goto
  <2>1. \/ ReadPredecessors(p)
        \/ pc[p] = "decrement" /\ reg'[p] = reg[p] /\ todo'[p] = todo[p]
    BY DEF Next, Step, vars, Start, Return, CheckReady, LockToWait, Await, SpuriousWakeup,
         ReturnFromAwait, UnlockAfterWait, TaskSucceeds, TaskThrows, ReadTaskNum, WriteTaskNum,
         TestTaskNum, ReadPredecessors, WritePredecessors, LockToSignal, Signal,
         UnlockAfterSignal, Finish
  <2>2. todo[p] # {} /\ todo[p] \subseteq Out(p) /\ todo'[p] = todo[p]
    BY <2>1 DEF LoopInv, ReadPredecessors
  <2>3. PICK d \in Task : d = Child(p) /\ d = Child(p)'
    BY <2>2, FirstIn, GraphAssumption DEF Child, Out
  <2>4. reg'[p] >= Cardinality(Pending(d))
    BY <2>1, <2>3 DEF CounterInv, ReadPredecessors
  <2>5. reg'[p] \in Nat
    BY <2>1, <2>3 DEF ReadPredecessors
  <2>6. reg'[p] >= Cardinality(Pending(d)')
    BY <1>1, <2>3, <2>4, <2>5
  <2>7. QED
    BY <2>3, <2>6
\* a task that has begun has found its counter at zero
<1>4. \A t \in Task : Begun(t)' => Pending(t)' = {}
  <2> SUFFICES ASSUME NEW t \in Task, Begun(t)' PROVE Pending(t)' = {}
    OBVIOUS
  <2>1. Begun(t) \/ (CheckReady(t) /\ predecessors[t] = 0)
    BY DEF IInv, TypeOK, Begun, Goto, Next, Step, vars, Start, Return, CheckReady, LockToWait,
         Await, SpuriousWakeup, ReturnFromAwait, UnlockAfterWait, TaskSucceeds, TaskThrows,
         ReadTaskNum, WriteTaskNum, TestTaskNum, ReadPredecessors, WritePredecessors,
         LockToSignal, Signal, UnlockAfterSignal, Finish
  <2>2. Pending(t) = {}
    <3>1. CASE predecessors[t] = 0
      <4>1. Cardinality(Pending(t)) = 0
        BY <1>1, <3>1 DEF IInv, CounterInv, TypeOK
      <4>2. IsFiniteSet(Pending(t))
        BY InFinite DEF Pending
      <4>3. QED
        BY <4>1, <4>2, FS_EmptySet
    <3>2. QED
      BY <2>1, <3>1 DEF IInv, CounterInv
  <2>3. QED
    BY <1>1, <2>2
<1>5. QED
  BY <1>2, <1>3, <1>4 DEF CounterInv

-----------------------------------------------------------------------------
\* taskNum never promises too much either.
LEMMA TaskNumStep == IInv /\ [Next]_vars => TaskNumInv'
<1> SUFFICES ASSUME IInv, [Next]_vars PROVE TaskNumInv'
  OBVIOUS
<1>1. /\ IsFiniteSet(Uncounted) /\ Cardinality(Uncounted) \in Nat
      /\ IsFiniteSet(Uncounted') /\ Cardinality(Uncounted') \in Nat
  BY GraphAssumption, FS_Subset, FS_CardinalityType DEF Uncounted
<1>2. Uncounted' \subseteq Uncounted /\ Cardinality(Uncounted') <= Cardinality(Uncounted)
  <2>1. \A t \in Task : Counted(t) => Counted(t)'
    BY DEF Next, Step, vars, Start, Return, CheckReady, LockToWait, Await, SpuriousWakeup,
         ReturnFromAwait, UnlockAfterWait, TaskSucceeds, TaskThrows, ReadTaskNum, WriteTaskNum,
         TestTaskNum, ReadPredecessors, WritePredecessors, LockToSignal, Signal,
         UnlockAfterSignal, Finish, Counted, Executed, Begun, Goto, IInv, TypeOK
  <2>2. QED
    BY <1>1, <2>1, FS_Subset DEF Uncounted
<1>3. taskNum' >= Cardinality(Uncounted')
  <2>1. CASE UNCHANGED taskNum
    BY <1>1, <1>2, <2>1 DEF IInv, TypeOK, TaskNumInv
  <2>2. ASSUME NEW u \in Task, WriteTaskNum(u)
        PROVE  taskNum' >= Cardinality(Uncounted')
    <3>1. u \in Uncounted /\ u \notin Uncounted'
      BY <2>2 DEF WriteTaskNum, Goto, IInv, TypeOK, Uncounted, Counted, Executed, Begun
    <3>2. /\ IsFiniteSet(Uncounted \ {u})
          /\ Cardinality(Uncounted \ {u}) = Cardinality(Uncounted) - 1
      BY <1>1, <3>1, FS_RemoveElement
    <3>3. Cardinality(Uncounted') <= Cardinality(Uncounted) - 1
      BY <1>2, <3>1, <3>2, FS_Subset
    <3>4. reg[u] >= Cardinality(Uncounted) /\ reg[u] \in Nat
      BY <2>2 DEF WriteTaskNum, Goto, IInv, TypeOK, TaskNumInv
    <3>5. taskNum' = reg[u] - 1
      BY <2>2 DEF WriteTaskNum
    <3>6. QED
      BY <1>1, <3>3, <3>4, <3>5
  <2>3. QED
    BY <2>1, <2>2 DEF Next, Step, vars, Start, Return, CheckReady, LockToWait, Await, SpuriousWakeup,
         ReturnFromAwait, UnlockAfterWait, TaskSucceeds, TaskThrows, ReadTaskNum, WriteTaskNum,
         TestTaskNum, ReadPredecessors, WritePredecessors, LockToSignal, Signal,
         UnlockAfterSignal, Finish
<1>4. \A t \in Task : pc'[t] = "writeTaskNum" => reg'[t] >= Cardinality(Uncounted')
  <2> SUFFICES ASSUME NEW t \in Task, pc'[t] = "writeTaskNum"
               PROVE  reg'[t] >= Cardinality(Uncounted')
    OBVIOUS
  <2>1. \/ ReadTaskNum(t)
        \/ pc[t] = "writeTaskNum" /\ reg'[t] = reg[t]
    BY DEF Next, Step, vars, Start, Return, CheckReady, LockToWait, Await, SpuriousWakeup,
         ReturnFromAwait, UnlockAfterWait, TaskSucceeds, TaskThrows, ReadTaskNum, WriteTaskNum,
         TestTaskNum, ReadPredecessors, WritePredecessors, LockToSignal, Signal,
         UnlockAfterSignal, Finish, Goto, IInv, TypeOK
  <2>2. reg'[t] >= Cardinality(Uncounted) /\ reg'[t] \in Nat
    BY <2>1 DEF ReadTaskNum, IInv, TypeOK, TaskNumInv
  <2>3. QED
    BY <1>1, <1>2, <2>2
<1>5. reports' > 0 => Uncounted' = {}
  <2> SUFFICES ASSUME reports' > 0 PROVE Uncounted = {}
    BY <1>2
  <2>1. reports > 0 \/ taskNum = 0
    BY DEF Next, Step, vars, Start, Return, CheckReady, LockToWait, Await, SpuriousWakeup,
         ReturnFromAwait, UnlockAfterWait, TaskSucceeds, TaskThrows, ReadTaskNum, WriteTaskNum,
         TestTaskNum, ReadPredecessors, WritePredecessors, LockToSignal, Signal,
         UnlockAfterSignal, Finish, IInv, TypeOK
  <2>2. CASE taskNum = 0
    <3>1. Cardinality(Uncounted) = 0
      BY <1>1, <2>2 DEF IInv, TypeOK, TaskNumInv
    <3>2. QED
      BY <1>1, <3>1, FS_EmptySet
  <2>3. QED
    BY <2>1, <2>2 DEF IInv, TaskNumInv
<1>6. QED
  BY <1>3, <1>4, <1>5 DEF TaskNumInv

-----------------------------------------------------------------------------
\* With the counters bounded from below the types are preserved: none of them goes negative.
LEMMA TypeStep == IInv /\ [Next]_vars => TypeOK'
<1> SUFFICES ASSUME IInv, [Next]_vars PROVE TypeOK'
  OBVIOUS
<1> USE LocalAssumption, GraphAssumption
<1> USE DEF IInv, TypeOK, PC, Goto
<1>1. CASE UNCHANGED vars \/ Return
  BY <1>1 DEF vars, Return
<1>2. ASSUME NEW t \in Task, Start(t) \/ CheckReady(t) \/ TaskSucceeds(t) \/ TaskThrows(t)
                             \/ ReadTaskNum(t) \/ SpuriousWakeup(t) \/ Finish(t)
      PROVE  TypeOK'
  BY <1>2 DEF Start, CheckReady, TaskSucceeds, TaskThrows, ReadTaskNum, SpuriousWakeup, Finish
<1>3. ASSUME NEW t \in Task, LockToWait(t) \/ Await(t) \/ ReturnFromAwait(t)
                             \/ UnlockAfterWait(t)
      PROVE  TypeOK'
  BY <1>3 DEF LockToWait, Await, ReturnFromAwait, UnlockAfterWait, Acquire, Release
<1>4. ASSUME NEW t \in Task, WriteTaskNum(t)
      PROVE  TypeOK'
  <2>1. t \in Uncounted
    BY <1>4 DEF WriteTaskNum, Uncounted, Counted
  <2>2. IsFiniteSet(Uncounted) /\ Cardinality(Uncounted) \in Nat /\ Cardinality(Uncounted) # 0
    BY <2>1, FS_Subset, FS_CardinalityType, FS_EmptySet DEF Uncounted
  <2>3. reg[t] - 1 \in Nat
    BY <1>4, <2>2 DEF WriteTaskNum, TaskNumInv
  <2>4. QED
    BY <1>4, <2>3 DEF WriteTaskNum
<1>5. ASSUME NEW t \in Task, TestTaskNum(t)
      PROVE  TypeOK'
  BY <1>5 DEF TestTaskNum, Out
<1>6. ASSUME NEW t \in Task, ReadPredecessors(t) \/ LockToSignal(t)
      PROVE  TypeOK'
  <2>1. todo[t] # {} /\ todo[t] \subseteq Out(t)
    BY <1>6 DEF LoopInv, ReadPredecessors, LockToSignal
  <2>2. Child(t) \in Task
    BY <2>1, FirstIn DEF Child, Out
  <2>3. QED
    BY <1>6, <2>2 DEF ReadPredecessors, LockToSignal, Acquire
<1>7. ASSUME NEW t \in Task, WritePredecessors(t)
      PROVE  TypeOK'
  <2>1. PICK d \in Task : /\ d = Child(t)
                          /\ Cardinality(Pending(d)') <= Cardinality(Pending(d)) - 1
                          /\ Cardinality(Pending(d)) \in Nat
    BY <1>7, PendingWrite
  <2>2. Cardinality(Pending(d)') \in Nat
    BY InFinite DEF Pending
  <2>3. reg[t] - 1 \in Nat
    BY <1>7, <2>1, <2>2 DEF WritePredecessors, CounterInv
  <2>4. QED
    BY <1>7, <2>1, <2>3 DEF WritePredecessors
<1>8. ASSUME NEW t \in Task, Signal(t)
      PROVE  TypeOK'
  BY <1>8 DEF Signal
<1>9. ASSUME NEW t \in Task, UnlockAfterSignal(t)
      PROVE  TypeOK'
  BY <1>9 DEF UnlockAfterSignal, Release
<1>10. QED
  BY <1>1, <1>2, <1>3, <1>4, <1>5, <1>6, <1>7, <1>8, <1>9 DEF Next, Step

-----------------------------------------------------------------------------
\* The child a loop visits is a task of the workflow.
LEMMA ChildIsTask ==
  ASSUME TypeOK, LoopInv, NEW t \in Task,
         pc[t] \in {"decrement", "lockChild", "signal", "unlockChild"}
  PROVE  Child(t) \in Task
<1>1. todo[t] # {} /\ todo[t] \subseteq Out(t)
  BY DEF LoopInv
<1>2. First(todo[t]) \in Out(t)
  BY <1>1, FirstIn DEF Out
<1>3. QED
  BY <1>2, GraphAssumption DEF Child, Out

(***************************************************************************)
(* A step that leaves the locks alone starts and ends no critical section. *)
(***************************************************************************)
LEMMA LockUntouched ==
  ASSUME IInv, [Next]_vars, UNCHANGED owner, NEW t \in Task, NEW u \in Task
  PROVE  Holds(t, u)' <=> Holds(t, u)
<1> USE DEF IInv, TypeOK, Goto, Acquire, Release
<1>1. CASE UNCHANGED vars \/ Return
  BY <1>1 DEF vars, Return, Holds, Child
<1>2. ASSUME NEW r \in Task, Start(r) \/ CheckReady(r) \/ TaskSucceeds(r) \/ TaskThrows(r)
                             \/ SpuriousWakeup(r) \/ Finish(r)
      PROVE  Holds(t, u)' <=> Holds(t, u)
  BY <1>2 DEF Start, CheckReady, TaskSucceeds, TaskThrows, SpuriousWakeup, Finish, Holds, Child
<1>3. ASSUME NEW r \in Task, ReadTaskNum(r) \/ WriteTaskNum(r) \/ TestTaskNum(r)
                             \/ ReadPredecessors(r) \/ WritePredecessors(r)
      PROVE  Holds(t, u)' <=> Holds(t, u)
  BY <1>3 DEF ReadTaskNum, WriteTaskNum, TestTaskNum, ReadPredecessors, WritePredecessors,
       Holds, Child
<1>4. ASSUME NEW r \in Task, Signal(r)
      PROVE  Holds(t, u)' <=> Holds(t, u)
  BY <1>4 DEF Signal, Holds, Child
<1>5. ASSUME NEW r \in Task, LockToWait(r) \/ Await(r) \/ ReturnFromAwait(r)
                             \/ UnlockAfterWait(r)
      PROVE  FALSE
  BY <1>5, GraphAssumption DEF LockToWait, Await, ReturnFromAwait, UnlockAfterWait
<1>6. ASSUME NEW r \in Task, LockToSignal(r) \/ UnlockAfterSignal(r)
      PROVE  FALSE
  <2>1. Child(r) \in Task
    BY <1>6, ChildIsTask DEF LockToSignal, UnlockAfterSignal
  <2>2. QED
    BY <1>6, <2>1, GraphAssumption DEF LockToSignal, UnlockAfterSignal
<1>7. QED
  BY <1>1, <1>2, <1>3, <1>4, <1>5, <1>6 DEF Next, Step

\* Each lock is taken and released by the thread whose critical section begins and ends.
LEMMA LockStep == IInv /\ [Next]_vars => LockInv'
<1> SUFFICES ASSUME IInv, [Next]_vars, NEW t \in Task, NEW u \in Task
             PROVE  owner'[u] = t <=> Holds(t, u)'
  BY DEF LockInv
<1>0. \A r, x \in Task : owner[x] = r <=> Holds(r, x)
  BY DEF IInv, LockInv
<1> USE DEF IInv, TypeOK, Goto, Acquire, Release
<1>1. CASE UNCHANGED owner
  BY <1>0, <1>1, LockUntouched
<1>2. ASSUME NEW r \in Task, LockToWait(r) \/ Await(r) \/ ReturnFromAwait(r)
                             \/ UnlockAfterWait(r)
      PROVE  owner'[u] = t <=> Holds(t, u)'
  <2>1. CASE t # r \/ u # r
    BY <1>0, <1>2, <2>1, GraphAssumption
       DEF LockToWait, Await, ReturnFromAwait, UnlockAfterWait, Holds, Child
  <2>2. CASE t = r /\ u = r
    BY <1>2, <2>2, GraphAssumption
       DEF LockToWait, Await, ReturnFromAwait, UnlockAfterWait, Holds, Child
  <2>3. QED
    BY <2>1, <2>2
<1>3. ASSUME NEW r \in Task, LockToSignal(r)
      PROVE  owner'[u] = t <=> Holds(t, u)'
  <2>1. PICK d \in Task : d = Child(r)
    BY <1>3, ChildIsTask DEF LockToSignal
  <2>2. /\ pc[r] = "lockChild" /\ pc' = [pc EXCEPT ![r] = "signal"]
        /\ owner[d] = NoTask /\ owner' = [owner EXCEPT ![d] = r]
        /\ todo' = todo
    BY <1>3, <2>1 DEF LockToSignal
  <2>3. Child(t)' = Child(t)
    BY <2>2 DEF Child
  <2>4. CASE t = r
    BY <1>0, <2>1, <2>2, <2>3, <2>4, GraphAssumption DEF Holds
  <2>5. CASE t # r
    BY <1>0, <2>1, <2>2, <2>3, <2>5, GraphAssumption DEF Holds
  <2>6. QED
    BY <2>4, <2>5
<1>4. ASSUME NEW r \in Task, UnlockAfterSignal(r)
      PROVE  owner'[u] = t <=> Holds(t, u)'
  <2>1. PICK d \in Task : d = Child(r)
    BY <1>4, ChildIsTask DEF UnlockAfterSignal
  <2>2. /\ pc[r] = "unlockChild" /\ pc' = [pc EXCEPT ![r] = "notify"]
        /\ owner[d] = r /\ owner' = [owner EXCEPT ![d] = NoTask]
        /\ todo' = [todo EXCEPT ![r] = @ \ {First(@)}]
    BY <1>4, <2>1 DEF UnlockAfterSignal
  <2>3. CASE t = r
    BY <1>0, <2>1, <2>2, <2>3, GraphAssumption DEF Holds
  <2>4. CASE t # r
    <3>1. Child(t)' = Child(t)
      BY <2>2, <2>4 DEF Child
    <3>2. QED
      BY <1>0, <2>1, <2>2, <2>4, <3>1, GraphAssumption DEF Holds
  <2>5. QED
    BY <2>3, <2>4
<1>5. QED
  BY <1>1, <1>2, <1>3, <1>4 DEF Next, Step, vars, Start, Return, CheckReady, SpuriousWakeup,
       TaskSucceeds, TaskThrows, ReadTaskNum, WriteTaskNum, TestTaskNum, ReadPredecessors,
       WritePredecessors, Signal, Finish

-----------------------------------------------------------------------------
\* The inductive invariant holds at the start.
LEMMA Initially == Init => IInv
<1> SUFFICES ASSUME Init PROVE IInv
  OBVIOUS
<1> USE GraphAssumption, LocalAssumption
<1>1. \A t \in Task : Cardinality(In(t)) \in Nat /\ Pending(t) = In(t)
  <2>1. \A t \in Task : ~Begun(t) /\ pc[t] = "new"
    BY DEF Init, Begun
  <2>2. \A t \in Task : \A c \in In(t) : srcTask[c] \in Task /\ ~Notified(c)
    BY <2>1 DEF In, Notified
  <2>3. QED
    BY <2>2, InFinite DEF Pending
<1>2. Cardinality(Task) \in Nat /\ Uncounted = Task
  BY FS_CardinalityType DEF Init, Uncounted, Counted, Executed, Begun
<1>3. TypeOK
  <2>1. pc \in [Task -> PC] /\ owner \in [Task -> Task \cup {NoTask}]
    BY DEF Init, PC
  <2>2. predecessors \in [Task -> Nat] /\ reg \in [Task -> Nat]
    BY <1>1 DEF Init
  <2>3. todo \in [Task -> SUBSET Channel]
    BY DEF Init
  <2>4. spurious \in 0 .. MaxSpurious /\ reports \in Nat
    BY DEF Init
  <2>5. taskNum \in Nat
    BY <1>2 DEF Init
  <2>6. returned \in BOOLEAN
    BY Zenon DEF Init
  <2>7. QED
    BY <2>1, <2>2, <2>3, <2>4, <2>5, <2>6 DEF TypeOK
<1>4. LoopInv
  BY DEF Init, LoopInv
<1>5. CounterInv
  BY <1>1 DEF Init, CounterInv, Begun
<1>6. TaskNumInv
  BY <1>2 DEF Init, TaskNumInv
<1>7. LockInv
  BY DEF Init, LockInv, Holds
<1>8. QED
  BY <1>3, <1>4, <1>5, <1>6, <1>7 DEF IInv

(***************************************************************************)
(* The inductive invariant: all counters have the right type and bound     *)
(* what is still to come from above.                                       *)
(***************************************************************************)
THEOREM Invariance == Spec => []IInv
<1>1. IInv /\ [Next]_vars => IInv'
  BY TypeStep, LoopStep, CounterStep, TaskNumStep, LockStep DEF IInv
<1>2. QED
  BY Initially, <1>1, PTL DEF Spec

(***************************************************************************)
(* What the invariant says of the schedule: a task that has begun has had  *)
(* each of its parents executed, and the report is the last thing to come. *)
(***************************************************************************)
LEMMA InvariantMeaning == IInv => ParentsFirst /\ ReportsOnlyAtTheEnd
<1> SUFFICES ASSUME IInv PROVE ParentsFirst /\ ReportsOnlyAtTheEnd
  OBVIOUS
<1>1. ASSUME NEW t \in Task, Begun(t), NEW p \in Parents(t)
      PROVE  Executed(p)
  <2>1. PICK c \in In(t) : p = srcTask[c]
    BY <1>1 DEF Parents
  <2>2. Notified(c)
    BY <1>1, <2>1 DEF IInv, CounterInv, Pending
  <2>3. QED
    BY <2>1, <2>2 DEF Notified, Executed, Begun
<1>2. reports > 0 => \A t \in Task : Executed(t)
  BY DEF IInv, TaskNumInv, Uncounted, Counted
<1>3. QED
  BY <1>1, <1>2 DEF ParentsFirst, ReportsOnlyAtTheEnd

(***************************************************************************)
(* In every workflow and under every interleaving, lost decrement and      *)
(* lost or spurious wakeup, no task starts before its parents are done.    *)
(***************************************************************************)
THEOREM ParentsBeforeChildren == Spec => []ParentsFirst
BY Invariance, InvariantMeaning, PTL

(***************************************************************************)
(* The report of the execution time comes after the last task.             *)
(***************************************************************************)
THEOREM ReportIsLast == Spec => []ReportsOnlyAtTheEnd
BY Invariance, InvariantMeaning, PTL

-----------------------------------------------------------------------------
(* Refinement: each step of a thread is a step of Dataflow or stutters.    *)

\* Every step of the threads is a step of the abstract dataflow or a stutter.
LEMMA StepRefinement == IInv /\ [Next]_vars => [D!Next]_(D!vars)
<1> SUFFICES ASSUME IInv, [Next]_vars PROVE [D!Next]_(D!vars)
  OBVIOUS
<1> USE DEF IInv, TypeOK, Goto, D!vars, status
<1>1. CASE UNCHANGED pc
  BY <1>1 DEF Begun
<1>2. ASSUME NEW t \in Task, CheckReady(t)
      PROVE  [D!Next]_(D!vars)
  <2>1. CASE predecessors[t] # 0
    BY <1>2, <2>1 DEF CheckReady, Begun
  <2>2. CASE predecessors[t] = 0
    <3>1. pc' = [pc EXCEPT ![t] = "running"]
      BY <1>2, <2>2 DEF CheckReady
    <3>2. Begun(t)' /\ Parents(t)' = Parents(t)
      BY <3>1 DEF Begun, Parents
    <3>3. \A p \in Parents(t) : p \in Task /\ p # t /\ Executed(p)
      <4>1. IInv'
        BY TypeStep, LoopStep, CounterStep, TaskNumStep, LockStep
      <4>2. ParentsFirst'
        BY <4>1, InvariantMeaning, PTL
      <4>3. \A p \in Parents(t) : p \in Task /\ Executed(p)'
        BY <3>2, <4>2, GraphAssumption DEF ParentsFirst, Parents, In
      <4>4. QED
        BY <3>1, <4>3 DEF Executed, Begun
    <3>4. \A p \in Parents(t) : status[p] = "completed"
      BY <3>3 DEF Executed
    <3>5. status[t] = "waiting" /\ status' = [status EXCEPT ![t] = "running"]
      BY <1>2, <3>1 DEF CheckReady, Begun
    <3>6. D!Begin(t)
      BY <3>4, <3>5 DEF D!Begin, D!Parents, D!In, D!Channel, Parents, In, Channel
    <3>7. QED
      BY <3>6 DEF D!Next
  <2>3. QED
    BY <2>1, <2>2
<1>3. ASSUME NEW t \in Task, TaskSucceeds(t)
      PROVE  [D!Next]_(D!vars)
  <2>1. status[t] = "running" /\ status' = [status EXCEPT ![t] = "completed"]
    BY <1>3 DEF TaskSucceeds, Begun
  <2>2. QED
    BY <2>1 DEF D!Complete, D!Next
<1>4. ASSUME NEW t \in Task, TaskThrows(t)
      PROVE  [D!Next]_(D!vars)
  <2>1. status[t] = "running" /\ status' = [status EXCEPT ![t] = "failed"]
    BY <1>4 DEF TaskThrows, Begun
  <2>2. QED
    BY <2>1 DEF D!Fail, D!Next
<1>5. ASSUME NEW t \in Task, Start(t) \/ LockToWait(t) \/ Await(t) \/ SpuriousWakeup(t)
                             \/ ReturnFromAwait(t) \/ UnlockAfterWait(t)
      PROVE  status' = status
  BY <1>5 DEF Start, LockToWait, Await, SpuriousWakeup, ReturnFromAwait, UnlockAfterWait, Begun
<1>6. ASSUME NEW t \in Task, ReadTaskNum(t) \/ WriteTaskNum(t) \/ TestTaskNum(t)
                             \/ ReadPredecessors(t) \/ WritePredecessors(t) \/ LockToSignal(t)
                             \/ UnlockAfterSignal(t) \/ Finish(t)
      PROVE  status' = status
  BY <1>6 DEF ReadTaskNum, WriteTaskNum, TestTaskNum, ReadPredecessors, WritePredecessors,
       LockToSignal, UnlockAfterSignal, Finish, Begun
<1>7. ASSUME NEW t \in Task, Signal(t)
      PROVE  status' = status
  BY <1>7 DEF Signal, Begun
<1>8. QED
  BY <1>1, <1>2, <1>3, <1>4, <1>5, <1>6, <1>7 DEF Next, Step, vars, Return

(***************************************************************************)
(* WorkflowExecutor_Local implements Dataflow: a task is executed at most  *)
(* once, after its parents, and a failed task holds up all below it.       *)
(***************************************************************************)
THEOREM Refinement == Spec => ImplementsDataflow
<1>1. Init => D!Init
  BY DEF Init, D!Init, status, Begun
<1>2. QED
  BY <1>1, Invariance, StepRefinement, PTL DEF Spec, ImplementsDataflow, D!Spec

\* The theorems about Dataflow, for the status of the tasks of this executor.
DP == INSTANCE Dataflow_proofs

(***************************************************************************)
(* In WorkflowExecutor_Local a failure is contained: what depends on a     *)
(* task that has failed or is still running waits, and so does every task  *)
(* of a cycle; this says nothing against any other task.                   *)
(***************************************************************************)
THEOREM FailuresAreContained == Spec => []D!FailuresContained
<1>1. DP!GraphAssumption
  BY GraphAssumption, Zenon
     DEF GraphAssumption, DP!GraphAssumption, Channel, DP!Channel, IsFiniteSet, DP!IsFiniteSet
<1>2. D!Init => D!TypeOK /\ D!FailuresContained
  BY DEF D!Init, D!TypeOK, D!FailuresContained
<1>3. D!TypeOK /\ [D!Next]_(D!vars) => D!TypeOK'
  BY DEF D!TypeOK, D!Next, D!vars, D!Begin, D!Complete, D!Fail
<1>4. D!TypeOK /\ D!FailuresContained /\ [D!Next]_(D!vars) => D!FailuresContained'
  <2>1. \A t : D!Parents(t) = DP!Parents(t)
    BY DEF D!Parents, DP!Parents, D!In, DP!In, D!Channel, DP!Channel
  <2>2. D!TypeOK => DP!TypeOK
    BY DEF D!TypeOK, DP!TypeOK
  <2>3. D!FailuresContained => DP!FailuresContained
    BY <2>1, Zenon DEF D!FailuresContained, DP!FailuresContained
  <2>4. [D!Next]_(D!vars) => [DP!Next]_(DP!vars)
    BY <2>1, Zenon
       DEF D!Next, DP!Next, D!vars, DP!vars, D!Begin, DP!Begin, D!Complete, DP!Complete,
           D!Fail, DP!Fail
  <2>5. DP!FailuresContained' => D!FailuresContained'
    BY <2>1, Zenon
       DEF D!FailuresContained, DP!FailuresContained, D!Parents, DP!Parents, D!In, DP!In,
           D!Channel, DP!Channel
  <2>6. QED
    BY <1>1, <2>2, <2>3, <2>4, <2>5, DP!ContainedStep
<1>5. D!Spec => []D!FailuresContained
  BY <1>2, <1>3, <1>4, PTL DEF D!Spec
<1>6. QED
  BY <1>5, Refinement, PTL DEF ImplementsDataflow

-----------------------------------------------------------------------------
(* Why execute() may never return.                                         *)

\* When no thread can go on, no lock is held, so none of them waits for one.
LEMMA NoLockWhenStopped ==
  ASSUME IInv, \A t \in Task : ~CanStep(t)
  PROVE  \A t \in Task : owner[t] = NoTask /\ pc[t] \in {"parked", "failed", "done"}
<1>1. \A u \in Task : owner[u] = NoTask
  <2> SUFFICES ASSUME NEW u \in Task, owner[u] # NoTask PROVE FALSE
    OBVIOUS
  <2>1. PICK r \in Task : owner[u] = r
    BY DEF IInv, TypeOK
  <2>2. Holds(r, u)
    BY <2>1 DEF IInv, LockInv
  <2>3. CanStep(r)
    BY <2>2 DEF Holds, CanStep
  <2>4. QED
    BY <2>3
<1>2. ASSUME NEW t \in Task PROVE pc[t] \in {"parked", "failed", "done"}
  <2>1. CASE pc[t] = "lockChild"
    <3>1. Child(t) \in Task
      BY <2>1, ChildIsTask DEF IInv
    <3>2. QED
      BY <1>1, <2>1, <3>1 DEF CanStep
  <2>2. CASE pc[t] # "lockChild"
    BY <1>1, <2>2 DEF CanStep
  <2>3. QED
    BY <2>1, <2>2
<1>3. QED
  BY <1>1, <1>2

\* A parked task that is still owed a decrement has a parent that has not ended.
LEMMA PendingHasParent ==
  ASSUME IInv, NEW t \in Task, Pending(t) # {}
  PROVE  \E p \in Parents(t) \cap Task : pc[p] # "done"
<1>1. PICK c \in In(t) : ~Notified(c)
  BY DEF Pending
<1>2. srcTask[c] \in Task /\ srcTask[c] \in Parents(t)
  BY GraphAssumption DEF In, Parents
<1>3. QED
  BY <1>1, <1>2 DEF Notified

(***************************************************************************)
(* The executor gets stuck only for a failed task, a lost decrement or     *)
(* signal, or a cyclic workflow; its locks are never the reason.           *)
(***************************************************************************)
THEOREM NeverStuckOnLocks == Spec => []StopsForAReason
<1>1. IInv => StopsForAReason
  <2> SUFFICES ASSUME IInv, \A t \in Task : ~CanStep(t),
                      ~ \E t \in Task : pc[t] = "failed",
                      ~ \E t \in Parked : Pending(t) = {},
                      NEW t \in Parked
               PROVE  Parents(t) \cap Parked # {}
    BY NoLockWhenStopped DEF StopsForAReason
  <2>1. t \in Task
    BY DEF Parked
  <2>2. PICK p \in Parents(t) \cap Task : pc[p] # "done"
    BY <2>1, PendingHasParent
  <2>3. p \in Parked
    BY <2>2, NoLockWhenStopped DEF Parked
  <2>4. QED
    BY <2>2, <2>3
<1>2. QED
  BY <1>1, Invariance, PTL

-----------------------------------------------------------------------------
\* The ranks of the places, one by one.
LEMMA RankValues ==
  /\ Rank("new") = 0 /\ Rank("woken") = 0 /\ Rank("unlock") = 1 /\ Rank("check") = 2
  /\ Rank("lock") = 3 /\ Rank("await") = 4 /\ Rank("parked") = 5 /\ Rank("running") = 6
  /\ Rank("failed") = 7 /\ Rank("readTaskNum") = 7 /\ Rank("writeTaskNum") = 8
  /\ Rank("testTaskNum") = 9 /\ Rank("unlockChild") = 10 /\ Rank("notify") = 11
  /\ Rank("decrement") = 12 /\ Rank("lockChild") = 13 /\ Rank("signal") = 14
  /\ Rank("done") = 15
BY DEF Rank

\* What onFinished of a task still has to signal only becomes less, and is its own channels.
LEMMA ToSignalShrinks ==
  ASSUME IInv, [Next]_vars, NEW p \in Task
  PROVE  ToSignal(p)' \subseteq ToSignal(p) /\ ToSignal(p) \subseteq Out(p)
<1> USE DEF IInv, TypeOK, LoopInv, Goto, ToSignal, Counted, Executed, Begun
<1>1. Out(p)' = Out(p)
  BY DEF Out, Channel
<1>2. ToSignal(p) \subseteq Out(p)
  OBVIOUS
<1>3. CASE UNCHANGED <<pc, todo>>
  BY <1>1, <1>3
<1>4. ASSUME NEW t \in Task, Start(t) \/ CheckReady(t) \/ LockToWait(t) \/ Await(t)
                             \/ SpuriousWakeup(t) \/ ReturnFromAwait(t) \/ UnlockAfterWait(t)
                             \/ TaskSucceeds(t) \/ TaskThrows(t) \/ ReadTaskNum(t)
      PROVE  ToSignal(p)' \subseteq ToSignal(p)
  BY <1>1, <1>4 DEF Start, CheckReady, LockToWait, Await, SpuriousWakeup, ReturnFromAwait,
       UnlockAfterWait, TaskSucceeds, TaskThrows, ReadTaskNum
<1>5. ASSUME NEW t \in Task, WriteTaskNum(t) \/ TestTaskNum(t)
      PROVE  ToSignal(p)' \subseteq ToSignal(p)
  BY <1>1, <1>5 DEF WriteTaskNum, TestTaskNum
<1>6. ASSUME NEW t \in Task, ReadPredecessors(t) \/ WritePredecessors(t) \/ LockToSignal(t)
                             \/ Finish(t)
      PROVE  ToSignal(p)' \subseteq ToSignal(p)
  BY <1>1, <1>6 DEF ReadPredecessors, WritePredecessors, LockToSignal, Finish
<1>7. ASSUME NEW t \in Task, Signal(t)
      PROVE  ToSignal(p)' \subseteq ToSignal(p)
  BY <1>1, <1>7 DEF Signal
<1>8. ASSUME NEW t \in Task, UnlockAfterSignal(t)
      PROVE  ToSignal(p)' \subseteq ToSignal(p)
  BY <1>1, <1>8 DEF UnlockAfterSignal
<1>9. QED
  BY <1>2, <1>3, <1>4, <1>5, <1>6, <1>7, <1>8 DEF Next, Step, vars, Return

\* A signal takes the channel that is being visited off what is still to be signalled.
LEMMA SignalServes ==
  ASSUME IInv, NEW t \in Task, Signal(t)
  PROVE  Unsignalled' # Unsignalled
<1> DEFINE c == First(todo[t])
<1>1. c \in todo[t] /\ todo[t] \subseteq Out(t)
  BY FirstIn DEF IInv, LoopInv, Signal, Out
<1>2. c \in ToSignal(t)
  BY <1>1 DEF ToSignal, Signal, Counted, Executed, Begun
<1>3. c \notin ToSignal(t)'
  BY DEF ToSignal, Signal, Counted, Executed, Begun, IInv, TypeOK
<1>4. ASSUME NEW p \in Task \ {t} PROVE c \notin ToSignal(p)'
  <2>1. [Next]_vars
    BY DEF Next, Step
  <2>2. ToSignal(p)' \subseteq Out(p)
    BY <2>1, ToSignalShrinks
  <2>3. QED
    BY <1>1, <2>2 DEF Out
<1>5. c \in Unsignalled /\ c \notin Unsignalled'
  BY <1>2, <1>3, <1>4 DEF Unsignalled
<1>6. QED
  BY <1>5

(***************************************************************************)
(* No thread of the executor goes round in circles: a step brings nearer   *)
(* the moment at which only spurious wakeups can happen.                   *)
(***************************************************************************)
THEOREM NoCircles == Spec => AlwaysOnward
<1>1. ASSUME IInv, [Next]_vars PROVE [Onward]_vars
  <2> SUFFICES ASSUME Next PROVE Onward
    BY <1>1
  <2> USE <1>1 DEF IInv, TypeOK, Goto
  <2>1. spurious <= spurious' /\ (returned => returned')
    <3>1. spurious' = spurious \/ spurious' = spurious + 1
      BY DEF Next, Step, Start, Return, CheckReady, LockToWait, Await, SpuriousWakeup,
           ReturnFromAwait, UnlockAfterWait, TaskSucceeds, TaskThrows, ReadTaskNum, WriteTaskNum,
           TestTaskNum, ReadPredecessors, WritePredecessors, LockToSignal, Signal,
           UnlockAfterSignal, Finish
    <3>2. returned' = returned \/ returned'
      BY DEF Next, Step, Start, Return, CheckReady, LockToWait, Await, SpuriousWakeup,
           ReturnFromAwait, UnlockAfterWait, TaskSucceeds, TaskThrows, ReadTaskNum, WriteTaskNum,
           TestTaskNum, ReadPredecessors, WritePredecessors, LockToSignal, Signal,
           UnlockAfterSignal, Finish
    <3>3. spurious \in Nat
      BY LocalAssumption
    <3>4. QED
      BY <3>1, <3>2, <3>3
  <2>2. Unsignalled' \subseteq Unsignalled
    BY ToSignalShrinks DEF Unsignalled
  <2>3. CASE Return
    BY <2>1, <2>2, <2>3 DEF Onward, Return
  <2>4. ASSUME NEW t \in Task, SpuriousWakeup(t)
        PROVE  Onward
    <3>1. spurious' # spurious
      BY <2>4, LocalAssumption DEF SpuriousWakeup
    <3>2. QED
      BY <2>1, <2>2, <3>1 DEF Onward
  <2>5. ASSUME NEW t \in Task, Signal(t)
        PROVE  Onward
    BY <2>1, <2>2, <2>5, SignalServes DEF Onward
  <2>6. ASSUME NEW t \in Task, Start(t) \/ CheckReady(t) \/ LockToWait(t) \/ Await(t)
                               \/ ReturnFromAwait(t) \/ UnlockAfterWait(t)
                               \/ TaskSucceeds(t) \/ TaskThrows(t)
        PROVE  Onward
    <3>1. Advances(t)
      BY <2>6, RankValues DEF Advances, Start, CheckReady, LockToWait, Await, ReturnFromAwait,
           UnlockAfterWait, TaskSucceeds, TaskThrows
    <3>2. QED
      BY <2>1, <2>2, <3>1 DEF Onward
  <2>7. ASSUME NEW t \in Task, ReadTaskNum(t) \/ WriteTaskNum(t) \/ TestTaskNum(t)
                               \/ ReadPredecessors(t) \/ WritePredecessors(t)
                               \/ LockToSignal(t) \/ UnlockAfterSignal(t) \/ Finish(t)
        PROVE  Onward
    <3>1. Advances(t)
      BY <2>7, RankValues DEF Advances, ReadTaskNum, WriteTaskNum, TestTaskNum, ReadPredecessors,
           WritePredecessors, LockToSignal, UnlockAfterSignal, Finish
    <3>2. QED
      BY <2>1, <2>2, <3>1 DEF Onward
  <2>8. QED
    BY <2>3, <2>4, <2>5, <2>6, <2>7 DEF Next, Step
<1>2. QED
  BY <1>1, Invariance, PTL DEF Spec, AlwaysOnward

=============================================================================
