---------------------------- MODULE MCRosMaster ----------------------------
(* Model-checking instance of RosMaster: two processes that share a name, *)
(* and one of another name.                                                *)
EXTENDS RosMaster

CONSTANTS a1, a2, b1, alice, bob

MCNameOf == [p \in Apis |-> IF p = b1 THEN bob ELSE alice]
=============================================================================
