---------------------------- MODULE MCRospyTopic ----------------------------
(* Model-checking instance of RospyTopic: one publisher. *)
EXTENDS RospyTopic

CONSTANT p1
=============================================================================
