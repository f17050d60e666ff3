--------------------------- MODULE MCRunLifecycle ---------------------------
(***************************************************************************)
(* A small instance of RunLifecycle for TLC: two processes with a context  *)
(* each.                                                                   *)
(***************************************************************************)
EXTENDS RunLifecycle

CONSTANTS p1, p2, c1, c2

MCTwoProcesses == [c \in Contexts |-> IF c = c1 THEN p1 ELSE p2]
=============================================================================
