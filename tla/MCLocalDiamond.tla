--------------------------- MODULE MCLocalDiamond ---------------------------
(***************************************************************************)
(* A diamond a -> b, c -> d with a workflow input and a workflow output, c *)
(* reading two outputs of a; the schedule lists c before b, so that the    *)
(* children of a are visited in that order.                                *)
(***************************************************************************)
EXTENDS LocalExecutor, Sequences

CONSTANTS a, b, c, d

MCTask == {a, b, c, d}
MCEdges == << <<NoTask, a>>, <<a, c>>, <<a, c>>, <<a, b>>, <<c, d>>, <<b, d>>, <<d, NoTask>> >>
MCNumChannels == Len(MCEdges)
MCsrcTask == [i \in 1 .. Len(MCEdges) |-> MCEdges[i][1]]
MCdestTask == [i \in 1 .. Len(MCEdges) |-> MCEdges[i][2]]
MCMayThrow == {b}
=============================================================================
