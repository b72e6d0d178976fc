------------------------------ MODULE Dataflow ------------------------------
(***************************************************************************)
(* What every workflow executor of DATAVIEW promises: a task runs at most  *)
(* once, and only after all the tasks that produce its inputs have         *)
(* completed.  A task that fails never completes, so nothing downstream of *)
(* it ever runs.                                                           *)
(***************************************************************************)
EXTENDS WorkflowGraph

VARIABLE status   \* what has become of each task

vars == status

Init == status = [t \in Task |-> "waiting"]

\* A task whose parents have all completed starts to run.
Begin(t) ==
  /\ status[t] = "waiting"
  /\ \A p \in Parents(t) : status[p] = "completed"
  /\ status' = [status EXCEPT ![t] = "running"]

Complete(t) ==
  /\ status[t] = "running"
  /\ status' = [status EXCEPT ![t] = "completed"]

Fail(t) ==
  /\ status[t] = "running"
  /\ status' = [status EXCEPT ![t] = "failed"]

Next == \E t \in Task : Begin(t) \/ Complete(t) \/ Fail(t)

Spec == Init /\ [][Next]_vars

TypeOK == status \in [Task -> {"waiting", "running", "completed", "failed"}]

(***************************************************************************)
(* Failures are contained: as long as f has not completed, whatever its    *)
(* reason, the tasks that depend on it, directly or through each other,    *)
(* are left waiting.  The same holds of tasks that wait for each other.    *)
(***************************************************************************)
FailuresContained ==
  \A f \in Task : \A S \in SUBSET Task :
    status[f] # "completed" /\ (\A t \in S : Parents(t) \cap (S \cup {f}) # {})
      => \A t \in S : status[t] = "waiting"

=============================================================================
