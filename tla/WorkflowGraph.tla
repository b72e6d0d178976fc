--------------------------- MODULE WorkflowGraph ---------------------------
(***************************************************************************)
(* The part of a workflow that its executors look at: the tasks and the    *)
(* data channels between them (Workflow.myEdges as seen through            *)
(* TaskSchedule.getParents and getChildren).  A channel without a source   *)
(* task brings a workflow input, one without a destination task yields a   *)
(* workflow output.  Two tasks may be connected by several channels, one   *)
(* for each pair of ports.                                                 *)
(***************************************************************************)
EXTENDS Naturals, FiniteSets

CONSTANTS
  Task,          \* the task instances of the workflow
  NoTask,        \* null: the missing end of an input or output channel
  NumChannels,   \* how many edges the workflow has
  srcTask,       \* the source task of each channel
  destTask       \* the destination task of each channel

(***************************************************************************)
(* Channels are numbered in the order in which an executor visits them     *)
(* when it fills its relationMap.                                          *)
(***************************************************************************)
Channel == 1 .. NumChannels

ASSUME GraphAssumption ==
  /\ IsFiniteSet(Task)
  /\ NoTask \notin Task
  /\ NumChannels \in Nat
  /\ srcTask \in [Channel -> Task \cup {NoTask}]
  /\ destTask \in [Channel -> Task \cup {NoTask}]

\* The entries of getParents(): one for each incoming channel that has a source.
In(t) == {c \in Channel : destTask[c] = t /\ srcTask[c] # NoTask}

\* The entries of relationMap.get(t): one for each channel from t to a task.
Out(t) == {c \in Channel : srcTask[c] = t /\ destTask[c] # NoTask}

Parents(t) == {srcTask[c] : c \in In(t)}

\* The entry a loop over the children visits next.
First(S) == CHOOSE c \in S : \A d \in S : c <= d

=============================================================================
