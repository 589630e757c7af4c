-------------------------- MODULE MCProcessMonitor --------------------------
(* Model-checking instance of ProcessMonitor: the master and rosout, a     *)
(* required node and a respawn node.                                       *)
EXTENDS ProcessMonitor

CONSTANTS master, rosout, required, respawned_node

MCOrder == <<master, rosout, required, respawned_node>>
=============================================================================
