-------------------------- MODULE Dataflow_proofs --------------------------
(***************************************************************************)
(* What the promise of the executors implies for every workflow graph.     *)
(***************************************************************************)
EXTENDS Dataflow, TLAPS

\* A step of the dataflow starts no task of a set that waits for a task not completed.
LEMMA ContainedStep == TypeOK /\ FailuresContained /\ [Next]_vars => FailuresContained'
<1> SUFFICES ASSUME TypeOK, FailuresContained, [Next]_vars,
                    NEW f \in Task, NEW S \in SUBSET Task, status'[f] # "completed",
                    \A t \in S : Parents(t) \cap (S \cup {f}) # {},
                    NEW t \in S
             PROVE  status'[t] = "waiting"
  BY DEF FailuresContained, Parents, In, Channel
<1> USE DEF TypeOK
<1>1. status[f] # "completed"
  <2>1. CASE UNCHANGED vars
    BY <2>1 DEF vars
  <2>2. ASSUME NEW u \in Task, Begin(u) \/ Complete(u) \/ Fail(u)
        PROVE  status[f] # "completed"
    <3>1. status[u] # "completed"
      BY <2>2 DEF Begin, Complete, Fail
    <3>2. u # f => status'[f] = status[f]
      BY <2>2 DEF Begin, Complete, Fail
    <3>3. QED
      BY <3>1, <3>2
  <2>3. QED
    BY <2>1, <2>2 DEF Next
<1>2. \A u \in S : status[u] = "waiting"
  BY <1>1 DEF FailuresContained
<1>3. CASE UNCHANGED vars
  BY <1>2, <1>3 DEF vars
<1>4. ASSUME NEW u \in Task, Begin(u)
      PROVE  status'[t] = "waiting"
  <2>1. \A p \in Parents(u) : status[p] = "completed"
    BY <1>4 DEF Begin
  <2>2. u # t
    BY <1>1, <1>2, <2>1
  <2>3. QED
    BY <1>2, <1>4, <2>2 DEF Begin
<1>5. ASSUME NEW u \in Task, Complete(u) \/ Fail(u)
      PROVE  status'[t] = "waiting"
  <2>1. u # t
    BY <1>2, <1>5 DEF Complete, Fail
  <2>2. QED
    BY <1>2, <1>5, <2>1 DEF Complete, Fail
<1>6. QED
  BY <1>3, <1>4, <1>5 DEF Next

(***************************************************************************)
(* A task that fails, or never ends, holds up exactly what depends on it:  *)
(* the promise of the executors has failures contained.                    *)
(***************************************************************************)
THEOREM Containment == Spec => []FailuresContained
<1>1. Init => FailuresContained
  BY DEF Init, FailuresContained
<1>2. Init => TypeOK
  BY DEF Init, TypeOK
<1>3. TypeOK /\ [Next]_vars => TypeOK'
  BY DEF TypeOK, Next, vars, Begin, Complete, Fail
<1>4. QED
  BY <1>1, <1>2, <1>3, ContainedStep, PTL DEF Spec

=============================================================================
