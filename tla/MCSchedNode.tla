---------------------------- MODULE MCSchedNode ----------------------------
(* Model-checking instances of SchedNode. *)
EXTENDS SchedNode, TLC

\* Application threads are interchangeable (safety runs only).
AppSymmetry == Permutations(Apps)
=============================================================================
