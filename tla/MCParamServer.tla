---------------------------- MODULE MCParamServer ----------------------------
(* Model-checking instance of ParamServer: the parameters /a and /a/b. *)
EXTENDS ParamServer

CONSTANTS a, b, one, c1, c2

MCKeys == {<<a>>, <<a, b>>}
MCScalar == [p \in {<<>>} |-> one]
MCStruct == [p \in {<<>>, <<b>>} |-> IF p = <<>> THEN Dict ELSE one]
MCValues == {MCScalar, MCStruct}
MCReads == [c \in Clients |-> IF c = c1 THEN MCKeys ELSE {<<a>>}]
=============================================================================
