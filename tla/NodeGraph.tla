----------------------------- MODULE NodeGraph -----------------------------
(***************************************************************************)
(* The node graph of the ROSCH Analyzer: SingletonNodeGraphAnalyzer builds *)
(* it from node_graph.yaml, compute_laxity walks it.                       *)
(*                                                                         *)
(* A node is its index in the file.  A node that publishes a topic becomes *)
(* a child of every node that subscribes to it.  The children of a node    *)
(* are the list that starts at its child pointer and continues through the *)
(* children's next pointers: each node has ONE next pointer, whichever     *)
(* parent's list it is in.                                                 *)
(***************************************************************************)
EXTENDS Integers, Sequences, FiniteSets

CONSTANTS
    None,        \* NULL
    N,           \* number of entries of the file
    Graphs,      \* the files: links[i][j] pairs of equal topics, i subscribes
    MaxLinks,    \* bound: pairs of equal topics of two nodes
    RunTimes,    \* values of run_time
    ParentMax,   \* PARENT_MAX
    StackMax     \* bound: calls the process stack has room for

Nodes == 0..N - 1
Root  == -10

ASSUME GraphAssumption ==
    /\ N \in Nat /\ MaxLinks \in Nat /\ ParentMax \in Nat \ {0}
    /\ StackMax \in Nat /\ StackMax > N
    /\ RunTimes \subseteq Nat
    /\ Graphs \subseteq [Nodes -> [Nodes -> 0..MaxLinks]]
    /\ None \notin Int

VARIABLES
    links, run_time,      \* the file
    child, next, parent,  \* node_t
    pending,              \* insertions the constructor still has to make
    gpc,                  \* where the graph's code is
    stack,                \* pending calls of _compute_laxity, innermost first
    inv_laxity

file      == <<links, run_time>>
pointers  == <<child, next, parent>>
graphVars == <<file, pointers, pending, gpc, stack, inv_laxity>>

GraphPC == {"dag", "root", "laxity", "built", "hang", "overflow"}

-----------------------------------------------------------------------------
(* The constructor and insert_child_node.                                  *)

\* The nodes reached from n through next pointers, n included.
Walk(n) ==
    LET w[k \in 0..N] == IF k = 0 THEN n
                         ELSE IF w[k - 1] = None THEN None ELSE next[w[k - 1]]
    IN  {w[k] : k \in 0..N} \ {None}

\* Where the loop over next pointers stops; nowhere, if they form a cycle.
Tails(n) == {m \in Walk(n) : next[m] = None}

AfterFirst(p) == {child[p]}   \* faulty variant
InsertAfter(p) == Tails(child[p])

\* A full parent list silently loses the parent.
WithParent(c, p) ==
    IF Len(parent[c]) < ParentMax
    THEN [parent EXCEPT ![c] = Append(@, p)] ELSE parent

InsertChildNode(p, c) ==
    /\ parent' = WithParent(c, p)
    /\ IF child[p] = None
       THEN /\ child' = [child EXCEPT ![p] = c]
            /\ UNCHANGED next
       ELSE /\ \E m \in InsertAfter(p) : next' = [next EXCEPT ![m] = c]
            /\ UNCHANGED child

\* Triples subscriber, publisher, match, visited in this order.
Before(s, t) ==
    \/ s[1] < t[1]
    \/ s[1] = t[1] /\ s[2] < t[2]
    \/ s[1] = t[1] /\ s[2] = t[2] /\ s[3] < t[3]
FirstOf(S) == CHOOSE s \in S : \A t \in S \ {s} : Before(s, t)

Insertions(g) ==
    {t \in Nodes \X Nodes \X (1..MaxLinks) : t[3] <= g[t[1]][t[2]]}

CreateDag ==
    /\ gpc = "dag" /\ pending # {}
    /\ LET t == FirstOf(pending)
       IN  /\ InsertChildNode(t[1], t[2])
           /\ pending' = pending \ {t}
    /\ UNCHANGED <<file, gpc, stack, inv_laxity>>

\* Nodes nobody subscribes to become children of the root, in file order.
Everybody == Nodes   \* faulty variant
Orphans == {n \in Nodes : parent[n] = <<>>}

DagDone ==
    /\ gpc = "dag" /\ pending = {}
    /\ gpc' = "root"
    /\ pending' = {<<Root, n, 1>> : n \in Orphans}
    /\ UNCHANGED <<file, pointers, stack, inv_laxity>>

SetToRoot ==
    /\ gpc = "root" /\ pending # {}
    /\ LET t == FirstOf(pending)
       IN  /\ InsertChildNode(t[1], t[2])
           /\ pending' = pending \ {t}
    /\ UNCHANGED <<file, gpc, stack, inv_laxity>>

\* The list to append to has no end: insert_child_node never returns.
InsertHangs ==
    /\ gpc \in {"dag", "root"} /\ pending # {}
    /\ LET p == FirstOf(pending)[1]
       IN  child[p] # None /\ InsertAfter(p) = {}
    /\ gpc' = "hang"
    /\ UNCHANGED <<file, pointers, pending, stack, inv_laxity>>

-----------------------------------------------------------------------------
(* compute_laxity.  A pending call is a node, *sum_run_time and its depth. *)

RunTimeOf(n) == IF n = Root THEN -1 ELSE run_time[n]

StartLaxity ==
    /\ gpc = "root" /\ pending = {}
    /\ gpc' = "laxity"
    /\ stack' = <<<<Root, 0, 1>>>>
    /\ UNCHANGED <<file, pointers, pending, inv_laxity>>

CallOn(n, sum, depth) == IF n = None THEN <<>> ELSE <<<<n, sum, depth>>>>

SumForgotten(n, sum) == sum                  \* faulty variant
SumForChildren(n, sum) == IF RunTimeOf(n) >= 0 THEN sum + RunTimeOf(n) ELSE sum

ComputeLaxity ==
    /\ gpc = "laxity" /\ stack # <<>>
    /\ LET n == Head(stack)[1]  sum == Head(stack)[2]  depth == Head(stack)[3]
       IN  /\ depth <= StackMax
           /\ inv_laxity' =
                IF RunTimeOf(n) >= 0 /\ RunTimeOf(n) + sum > inv_laxity[n]
                THEN [inv_laxity EXCEPT ![n] = sum + RunTimeOf(n)]
                ELSE inv_laxity
           /\ stack' = CallOn(child[n], SumForChildren(n, sum), depth + 1)
                       \o CallOn(next[n], sum, depth + 1) \o Tail(stack)
    /\ UNCHANGED <<file, pointers, pending, gpc>>

\* A cycle of child and next pointers is walked until the stack is used up.
StackOverflow ==
    /\ gpc = "laxity" /\ stack # <<>> /\ Head(stack)[3] > StackMax
    /\ gpc' = "overflow"
    /\ UNCHANGED <<file, pointers, pending, stack, inv_laxity>>

LaxityDone ==
    /\ gpc = "laxity" /\ stack = <<>>
    /\ gpc' = "built"
    /\ UNCHANGED <<file, pointers, pending, stack, inv_laxity>>

-----------------------------------------------------------------------------
GraphInit ==
    /\ links \in Graphs
    /\ run_time \in [Nodes -> RunTimes]
    /\ child = [n \in Nodes \cup {Root} |-> None]
    /\ next = [n \in Nodes \cup {Root} |-> None]
    /\ parent = [n \in Nodes \cup {Root} |-> <<>>]
    /\ pending = Insertions(links)
    /\ gpc = "dag"
    /\ stack = <<>>
    /\ inv_laxity = [n \in Nodes \cup {Root} |-> -1]

GraphNext ==
    \/ CreateDag \/ DagDone \/ SetToRoot \/ InsertHangs
    \/ StartLaxity \/ ComputeLaxity \/ StackOverflow \/ LaxityDone

GraphSpec == GraphInit /\ [][GraphNext]_graphVars

-----------------------------------------------------------------------------
(* Properties.                                                             *)

Publishers(n) == {m \in Nodes : links[n][m] > 0}
Subscribers(m) == {n \in Nodes : links[n][m] > 0}

Children(n) == IF child[n] = None THEN {} ELSE Walk(child[n])

\* A file whose publishers can be chained: a publisher with several subscribers
\* is the only publisher of each, and no two nodes share two topics.
Chainable ==
    \A m \in Nodes :
        /\ \A n \in Nodes : links[n][m] <= 1
        /\ Cardinality(Subscribers(m)) > 1 =>
               \A n \in Subscribers(m) : Publishers(n) = {m}

\* A file without cycles: every set of nodes has one that none of them subscribes to.
Acyclic(g) == \A S \in SUBSET Nodes \ {{}} : \E m \in S : \A n \in S : g[n][m] = 0

\* Every variable has its type.
GraphTypeOK ==
    /\ links \in [Nodes -> [Nodes -> 0..MaxLinks]]
    /\ run_time \in [Nodes -> RunTimes]
    /\ child \in [Nodes \cup {Root} -> Nodes \cup {None}]
    /\ next \in [Nodes \cup {Root} -> Nodes \cup {None}]
    /\ parent \in [Nodes \cup {Root} -> Seq(Nodes \cup {Root})]
    /\ gpc \in GraphPC
    /\ stack \in Seq((Nodes \cup {Root}) \X Nat \X Nat)
    /\ inv_laxity \in [Nodes \cup {Root} -> Int]

\* Whatever the file, and however lists share nodes, no dependency is lost: the
\* publishers inserted so far are children of their subscriber.  In a chainable
\* file sharing a next pointer adds no false dependency either.
ChildrenCover ==
    /\ GraphTypeOK
    /\ \A n, m \in Nodes :
          links[n][m] > 0 /\ (\A k \in 1..MaxLinks : <<n, m, k>> \notin pending)
          => m \in Children(n)
    /\ Chainable => \A n \in Nodes : Children(n) \subseteq Publishers(n)

\* compute_laxity gives every node the longest run time from it down to a node
\* nobody subscribes to, itself included, if the file is chainable and acyclic.
LaxityIsLongestPath ==
    gpc = "built" /\ Chainable /\ Acyclic(links) =>
        \A m \in Nodes :
            LET below == {inv_laxity[n] : n \in Subscribers(m)} \cup {0}
            IN  inv_laxity[m] = run_time[m] + (CHOOSE b \in below : \A c \in below : c <= b)

\* The constructor comes back for a chainable file, and compute_laxity if the file
\* is acyclic too: no list of children loops.  In other files one next pointer has
\* to serve two lists; three nodes of which each two are linked are enough to close
\* a loop.
ComesBack ==
    Chainable => gpc # "hang" /\ (gpc = "overflow" => ~Acyclic(links))
=============================================================================
