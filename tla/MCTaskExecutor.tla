--------------------------- MODULE MCTaskExecutor ---------------------------
(***************************************************************************)
(* Three submissions to one VM: the task of c1 has two outputs to move,    *)
(* that of c2 one; the task of c2 may throw, the process of c3 may die.    *)
(***************************************************************************)
EXTENDS TaskExecutor

CONSTANTS c1, c2, c3, x, y, z

MCClient == {c1, c2, c3}
MCTransfer == {x, y, z}
MCtransfers == [c \in MCClient |-> CASE c = c1 -> {x, y} [] c = c2 -> {z} [] c = c3 -> {}]
MCMayThrow == {c2}
MCMayCrash == {c3}
MCMayLose == {x, z}
MCNobody == {}
=============================================================================
