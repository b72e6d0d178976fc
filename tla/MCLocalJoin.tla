----------------------------- MODULE MCLocalJoin -----------------------------
(***************************************************************************)
(* Two parents of one child: a -> c, b -> c.                               *)
(***************************************************************************)
EXTENDS LocalExecutor, Sequences

CONSTANTS a, b, c

MCTask == {a, b, c}
MCEdges == << <<NoTask, a>>, <<NoTask, b>>, <<a, c>>, <<b, c>>, <<c, NoTask>> >>
MCNumChannels == Len(MCEdges)
MCsrcTask == [i \in 1 .. Len(MCEdges) |-> MCEdges[i][1]]
MCdestTask == [i \in 1 .. Len(MCEdges) |-> MCEdges[i][2]]
MCNoTasks == {}
=============================================================================
