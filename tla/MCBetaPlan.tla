----------------------------- MODULE MCBetaPlan -----------------------------
(***************************************************************************)
(* Four tasks on three VMs: a and c on the first, b and d on one each; c   *)
(* reads two outputs of a and one of b, d reads one of b and one of c.     *)
(***************************************************************************)
EXTENDS BetaExecutor

CONSTANTS a, b, c, d, s1, s2, s3

MCTask == {a, b, c, d}
MCEdges == << <<NoTask, a>>, <<NoTask, b>>, <<a, c>>, <<a, c>>, <<b, c>>, <<b, d>>, <<c, d>>,
              <<d, NoTask>> >>
MCNumChannels == Len(MCEdges)
MCsrcTask == [i \in 1 .. Len(MCEdges) |-> MCEdges[i][1]]
MCdestTask == [i \in 1 .. Len(MCEdges) |-> MCEdges[i][2]]
MCSchedule == {s1, s2, s3}
MCrunTask == [s \in MCSchedule |-> CASE s = s1 -> <<a, c>> [] s = s2 -> <<b>> [] s = s3 -> <<d>>]
MCMayFail == {a, d}
MCMayHang == {b}
MCNoTasks == {}
=============================================================================
