-------------------------- MODULE MCSchedAnalyzer --------------------------
(* Model-checking instances of SchedAnalyzer. *)
EXTENDS SchedAnalyzer

\* Files in which publishers come before their subscribers.
Ordered ==
    {g \in [0..N - 1 -> [0..N - 1 -> 0..1]] : \A i, j \in 0..N - 1 : g[i][j] > 0 => j < i}

\* Nodes of one or two cores; in one file a node asks for more than there are.
OneOrTwo ==
    [0..N - 1 -> {1, 2}] \cup {[n \in 0..N - 1 |-> IF n = 0 THEN C + 1 ELSE 1]}
=============================================================================
