---------------------------- MODULE MCNodeGraph ----------------------------
(* Model-checking instances of NodeGraph. *)
EXTENDS NodeGraph

Dags == {g \in [0..N - 1 -> [0..N - 1 -> 0..1]] : Acyclic(g)}

\* Files, with cycles too, in which every node subscribes to at most one other,
\* or is subscribed to by at most one.
Link(i, j) == IF i = j THEN 1 ELSE 0
Chains ==
    {[i \in 0..N - 1 |-> [j \in 0..N - 1 |-> Link(s[i], j)]] : s \in [0..N - 1 -> 0..N]}
    \cup {[i \in 0..N - 1 |-> [j \in 0..N - 1 |-> Link(i, s[j])]] : s \in [0..N - 1 -> 0..N]}

\* At most one pair of nodes of an acyclic file shares two topics.
MCGraphs ==
    Dags \cup Chains
    \cup UNION {{[g EXCEPT ![i][j] = 2 * @] : i, j \in 0..N - 1} : g \in Dags}
=============================================================================
