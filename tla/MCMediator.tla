----------------------------- MODULE MCMediator -----------------------------
(***************************************************************************)
(* Two users, each with a browser, one workflow name and two diagrams.     *)
(* Users, threads and diagrams are interchangeable; nothing that is        *)
(* checked here is about liveness.                                         *)
(***************************************************************************)
EXTENDS Mediator, TLC

Interchangeable == Permutations(Thread) \cup Permutations(User) \cup Permutations(Diagram)
=============================================================================
