----------------------------- MODULE RemoteCall -----------------------------
(***************************************************************************)
(* What a workflow executor may rely on when it submits a task to the      *)
(* TaskExecutor of a VM: the task is executed at most once, and an answer  *)
(* comes only after the task has been executed.  A call that fails tells   *)
(* nothing: the task may have been executed before, may be executed later  *)
(* or never.                                                               *)
(***************************************************************************)
CONSTANT Client   \* the submissions

VARIABLES
  call,       \* what the caller knows of each submission
  executed    \* the submissions whose task has been executed

vars == <<call, executed>>

Init ==
  /\ call = [c \in Client |-> "new"]
  /\ executed = {}

Call(c) ==
  /\ call[c] = "new"
  /\ call' = [call EXCEPT ![c] = "called"]
  /\ UNCHANGED executed

\* Also after the caller has given up.
Execute(c) ==
  /\ c \notin executed /\ call[c] \in {"called", "failed"}
  /\ executed' = executed \cup {c}
  /\ UNCHANGED call

Answer(c) ==
  /\ call[c] = "called" /\ c \in executed
  /\ call' = [call EXCEPT ![c] = "answered"]
  /\ UNCHANGED executed

Fail(c) ==
  /\ call[c] \in {"new", "called"}
  /\ call' = [call EXCEPT ![c] = "failed"]
  /\ UNCHANGED executed

Next == \E c \in Client : Call(c) \/ Execute(c) \/ Answer(c) \/ Fail(c)

Spec == Init /\ [][Next]_vars

=============================================================================
