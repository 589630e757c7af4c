------------------------------ MODULE Measurer ------------------------------
(***************************************************************************)
(* The ROSCH Measurer: a roscpp that measures the callbacks of the nodes   *)
(* of node_graph.yaml one node after the other, the last entry first, each *)
(* at every number of cores from its own down to 1.                        *)
(*                                                                         *)
(* Every node is a process with its own copy of the graph and of the core  *)
(* count; every SubscriptionQueue has an Analyzer.  The only thing the     *)
(* processes share is the file inform_rosch_.txt, to which a node appends  *)
(* its index when it has been measured.                                    *)
(*                                                                         *)
(* The children of the root are one chain of next pointers in file order,  *)
(* and remove_node cuts the chain at the node it removes: what is left is  *)
(* always a prefix of the file and is kept as its length.                  *)
(***************************************************************************)
EXTENDS Integers, FiniteSetsExt

CONSTANTS
    N,            \* entries of node_graph.yaml
    SubTopic,     \* the sub_topic of a node, a set
    Core,         \* the core of a node
    Threads,      \* the spinner threads of a node
    MaxTimes,     \* measurements of a topic per number of cores (1000)
    IgnoreTimes,  \* callbacks let pass before them (50)
    MaxStarts,    \* bound: times a node's process is started
    CoreFloor     \* bound: where a core count that missed 1 stops being followed

Nodes == 0..N - 1
max_analyze_times == MaxTimes + IgnoreTimes
AllCores == 0     \* an affinity mask of all the cores of the machine

ASSUME MeasurerAssumption ==
    /\ N \in Nat /\ MaxTimes \in Nat \ {0} /\ IgnoreTimes \in Nat
    /\ Core \in [Nodes -> Nat \ {0}]
    /\ MaxStarts \in [Nodes -> Nat]
    /\ CoreFloor \in Int /\ CoreFloor <= 0
    /\ \A n \in Nodes : SubTopic[n] # {} /\ Threads[n] # {}

VARIABLES
    inform,    \* the indices in inform_rosch_.txt
    starts,    \* how often the process of a node was started
    up,        \* the processes that run
    graph,     \* per process: length of the chain of nodes left
    list,      \* per process: v_sub_topic of its own node
    core,      \* per process: the core count manager
    analyzer,  \* per process and topic: the Analyzer
    thread,    \* per process and spinner thread: where call() is
    csv,       \* lines of the output file of a node, a topic, a core count
    spoiled    \* ghost: nodes whose process subscribed after the node was done

vars == <<inform, starts, up, graph, list, core, analyzer, thread, csv, spoiled>>
process == <<graph, list, core, analyzer, thread>>

CoreCounts(n) == CoreFloor..Core[n]

NoAnalyzer == [made |-> FALSE, core |-> AllCores, counter |-> 0, rt |-> FALSE]
Idle == [at |-> "idle", topic |-> "none", target |-> FALSE, in_range |-> FALSE,
         rt |-> FALSE, cores |-> AllCores]

-----------------------------------------------------------------------------
(* The graph.                                                              *)

is_in_node_graph(n) == n < graph[n]

\* The last of the chain, the root (-10) when the chain is empty.
get_first(g) == IF g = 0 THEN -10 ELSE 0   \* faulty variant
get_target(g) == IF g = 0 THEN -10 ELSE g - 1

is_target_left(n) == is_in_node_graph(n)   \* faulty variant
is_target(n) == get_target(graph[n]) = n

\* The node and whatever follows it leave the chain.
finish_node(g, k) == Min({g, k})

\* finish_node for every line of the file.
update_graph(g) == Min({finish_node(g, k) : k \in inform} \cup {g})

-----------------------------------------------------------------------------
(* Processes and subscriptions.                                            *)

start(n) ==
    /\ n \notin up /\ starts[n] < MaxStarts[n]
    /\ up' = up \cup {n}
    /\ starts' = [starts EXCEPT ![n] = @ + 1]
    /\ UNCHANGED <<inform, process, csv, spoiled>>

\* What is left of a process that ends is what the next one starts with.
Ended(n) ==
    /\ up' = up \ {n}
    /\ graph' = [graph EXCEPT ![n] = N]
    /\ list' = [list EXCEPT ![n] = SubTopic[n]]
    /\ core' = [core EXCEPT ![n] = 0]
    /\ analyzer' = [analyzer EXCEPT ![n] = [t \in SubTopic[n] |-> NoAnalyzer]]
    /\ thread' = [thread EXCEPT ![n] = [th \in Threads[n] |-> Idle]]

crash(n) ==
    /\ n \in up /\ starts[n] < MaxStarts[n]
    /\ Ended(n)
    /\ UNCHANGED <<inform, starts, csv, spoiled>>

\* The constructor: in the graph as loaded, whatever the file says of it.
subscribe(n, t) ==
    /\ n \in up /\ ~analyzer[n][t].made
    /\ IF is_in_node_graph(n)
       THEN /\ core' = [core EXCEPT ![n] = Core[n]]
            /\ analyzer' = [analyzer EXCEPT ![n][t] =
                   [NoAnalyzer EXCEPT !.made = TRUE, !.core = Core[n]]]
            /\ csv' = [csv EXCEPT ![n][t][Core[n]] = 0]
       ELSE /\ analyzer' = [analyzer EXCEPT ![n][t] = [NoAnalyzer EXCEPT !.made = TRUE]]
            /\ UNCHANGED <<core, csv>>
    /\ spoiled' = IF n \in inform THEN spoiled \cup {n} ELSE spoiled
    /\ UNCHANGED <<inform, starts, up, graph, list, thread>>

-----------------------------------------------------------------------------
(* SubscriptionQueue::call.                                                *)

Goes(n, th, where) == thread' = [thread EXCEPT ![n][th].at = where]

\* call() is over: its locals are gone, the policy and the cores stay.
Returned(th) == [Idle EXCEPT !.rt = th.rt, !.cores = th.cores]
Returns(n, th) == thread' = [thread EXCEPT ![n][th] = Returned(@)]

\* An empty mask is refused and changes nothing.
set_affinity(th, c) == IF c >= 1 THEN [th EXCEPT !.cores = c] ELSE th

\* The node spins: its main() has made its subscriptions.
Spins(n) == n \in up /\ \A t \in SubTopic[n] : analyzer[n][t].made

\* A message: the callback mutex keeps the queue to one thread.
call(n, th, t) ==
    /\ Spins(n)
    /\ thread[n][th].at = "idle"
    /\ \A o \in Threads[n] : thread[n][o].at # "idle" => thread[n][o].topic # t
    /\ thread' = [thread EXCEPT ![n][th] =
           [@ EXCEPT !.at = "update", !.topic = t, !.target = is_target(n)]]
    /\ UNCHANGED <<inform, starts, up, graph, list, core, analyzer, csv, spoiled>>

update(n, th) ==
    /\ thread[n][th].at = "update"
    /\ graph' = [graph EXCEPT ![n] = update_graph(@)]
    /\ Goes(n, th, "begin")
    /\ UNCHANGED <<inform, starts, up, list, core, analyzer, csv, spoiled>>

set_rt_policy(a, th, c) == [th EXCEPT !.rt = TRUE]   \* faulty variant
set_rt(a, th, c) == IF a.rt THEN th ELSE set_affinity([th EXCEPT !.rt = TRUE], c)

check_need_refresh(a, c) == a.core # c

core_refresh(a, c) == [a EXCEPT !.core = c, !.counter = 0]

is_in_range(a) == a.counter < max_analyze_times

begin_target(n, th) ==
    LET t == thread[n][th].topic
        c == core[n]
        refresh == check_need_refresh(analyzer[n][t], c)
        a == IF refresh THEN core_refresh(analyzer[n][t], c) ELSE analyzer[n][t]
    IN  /\ thread' = [thread EXCEPT ![n][th] =
               [set_rt(analyzer[n][t], @, c)
                    EXCEPT !.at = "callback", !.in_range = is_in_range(a)]]
        /\ analyzer' = [analyzer EXCEPT ![n][t] = [a EXCEPT !.rt = TRUE]]
        /\ csv' = IF refresh THEN [csv EXCEPT ![n][t][c] = 0] ELSE csv

\* is_target is the value from before the file was read.
begin(n, th) ==
    /\ thread[n][th].at = "begin"
    /\ IF thread[n][th].target
       THEN begin_target(n, th)
       ELSE Goes(n, th, "callback") /\ UNCHANGED <<analyzer, csv>>
    /\ UNCHANGED <<inform, starts, up, graph, list, core, spoiled>>

-----------------------------------------------------------------------------
(* After the callback.                                                     *)

set_fair(a, th) == IF a.rt THEN [th EXCEPT !.rt = FALSE, !.cores = AllCores] ELSE th

not_target(n, th) ==
    LET t == thread[n][th].topic
    IN  /\ thread[n][th].at = "callback" /\ ~thread[n][th].target
        /\ thread' = [thread EXCEPT ![n][th] =
               Returned(set_fair(analyzer[n][t], @))]
        /\ analyzer' = [analyzer EXCEPT ![n][t].rt = FALSE]
        /\ UNCHANGED <<inform, starts, up, graph, list, core, csv, spoiled>>

end_time(n, th) ==
    LET t == thread[n][th].topic
        a == analyzer[n][t]
    IN  /\ thread[n][th].at = "callback"
        /\ thread[n][th].target /\ thread[n][th].in_range
        /\ csv' = IF IgnoreTimes <= a.counter
                  THEN [csv EXCEPT ![n][t][a.core] = @ + 1] ELSE csv
        /\ analyzer' = IF is_in_range(a)
                       THEN [analyzer EXCEPT ![n][t].counter = @ + 1] ELSE analyzer
        /\ Returns(n, th)
        /\ UNCHANGED <<inform, starts, up, graph, list, core, spoiled>>

\* finish_myself starts.  The node may be gone from the graph by now: NULL.
finish_topic(n, th) ==
    /\ thread[n][th].at = "callback"
    /\ thread[n][th].target /\ ~thread[n][th].in_range
    /\ IF is_in_node_graph(n)
       THEN /\ list' = [list EXCEPT ![n] = @ \ {thread[n][th].topic}]
            /\ Goes(n, th, "empty")
            /\ UNCHANGED <<up, graph, core, analyzer>>
       ELSE Ended(n)
    /\ UNCHANGED <<inform, starts, csv, spoiled>>

\* false for a node that is not in the graph
any_topic_list(n) == is_in_node_graph(n)   \* faulty variant
is_empty_topic_list(n) == is_in_node_graph(n) /\ list[n] = {}

finish_myself(n, th) ==
    /\ thread[n][th].at = "empty"
    /\ IF is_empty_topic_list(n)
       THEN Goes(n, th, IF core[n] = 1 THEN "last" ELSE "next")
       ELSE Returns(n, th)
    /\ UNCHANGED <<inform, starts, up, graph, list, core, analyzer, csv, spoiled>>

not_informed(n) == inform   \* faulty variant
informed(n) == inform \cup {n}

\* Analyzed in all cores.
last_core(n, th) ==
    /\ thread[n][th].at = "last"
    /\ graph' = [graph EXCEPT ![n] = finish_node(@, n)]
    /\ inform' = informed(n)
    /\ Returns(n, th)
    /\ UNCHANGED <<starts, up, list, core, analyzer, csv, spoiled>>

\* Analyze the next cores; refresh_topic_list needs the node in the graph.
next_core(n, th) ==
    /\ thread[n][th].at = "next" /\ core[n] > CoreFloor
    /\ IF is_in_node_graph(n)
       THEN /\ core' = [core EXCEPT ![n] = @ - 1]
            /\ thread' = [thread EXCEPT ![n][th] =
                   Returned(set_affinity(@, core[n] - 1))]
            /\ list' = [list EXCEPT ![n] = SubTopic[n]]
            /\ UNCHANGED <<up, graph, analyzer>>
       ELSE Ended(n)
    /\ UNCHANGED <<inform, starts, csv, spoiled>>

-----------------------------------------------------------------------------
Init ==
    /\ inform = {} /\ up = {} /\ spoiled = {}
    /\ starts = [n \in Nodes |-> 0]
    /\ graph = [n \in Nodes |-> N]
    /\ list = [n \in Nodes |-> SubTopic[n]]
    /\ core = [n \in Nodes |-> 0]
    /\ analyzer = [n \in Nodes |-> [t \in SubTopic[n] |-> NoAnalyzer]]
    /\ thread = [n \in Nodes |-> [th \in Threads[n] |-> Idle]]
    /\ csv = [n \in Nodes |-> [t \in SubTopic[n] |-> [c \in CoreCounts(n) |-> 0]]]

Step(n, th) ==
    \/ update(n, th) \/ begin(n, th) \/ not_target(n, th) \/ end_time(n, th)
    \/ finish_topic(n, th) \/ finish_myself(n, th)
    \/ last_core(n, th) \/ next_core(n, th)

Next ==
    \E n \in Nodes :
        \/ start(n) \/ crash(n)
        \/ \E t \in SubTopic[n] : subscribe(n, t)
        \/ \E th \in Threads[n] : \E t \in SubTopic[n] : call(n, th, t)
        \/ \E th \in Threads[n] : Step(n, th)

\* Nodes are started and subscribe, their topics go on being published (the
\* callback queue serves its queues in turn), and callbacks return.
Fairness ==
    \A n \in Nodes :
        /\ WF_vars(start(n) \/ \E t \in SubTopic[n] : subscribe(n, t))
        /\ \A t \in SubTopic[n] : SF_vars(\E th \in Threads[n] : call(n, th, t))
        /\ \A th \in Threads[n] : WF_vars(Step(n, th))

Spec == Init /\ [][Next]_vars /\ Fairness

-----------------------------------------------------------------------------
(* Properties.                                                             *)

\* The node is spun by one thread, as ros::spin does.
Single(n) == \E th \in Threads[n] : Threads[n] = {th}

Measured(n, th) ==
    thread[n][th].at = "callback" /\ thread[n][th].target /\ thread[n][th].in_range

\* Every variable has its type; the counter stays within the analysed times.
TypeOK ==
    /\ inform \subseteq Nodes /\ up \subseteq Nodes /\ spoiled \subseteq Nodes
    /\ \A n \in Nodes :
        /\ starts[n] \in 0..MaxStarts[n]
        /\ graph[n] \in 0..N
        /\ list[n] \subseteq SubTopic[n]
        /\ core[n] \in CoreCounts(n)
        /\ analyzer[n] \in [SubTopic[n] ->
               [made : BOOLEAN, core : CoreCounts(n), counter : 0..max_analyze_times,
                rt : BOOLEAN]]
        /\ thread[n] \in [Threads[n] ->
               [at : {"idle", "update", "begin", "callback", "empty", "last", "next"},
                topic : SubTopic[n] \cup {"none"}, target : BOOLEAN, in_range : BOOLEAN,
                rt : BOOLEAN, cores : 0..Core[n]]]
        /\ csv[n] \in [SubTopic[n] -> [CoreCounts(n) -> 0..MaxTimes]]

\* remove_node cuts off everything behind the node it removes; no process ever
\* loses a node that was not measured, crashes and restarts included.
NoneDropped == TypeOK /\ \A n, k \in Nodes : k >= graph[n] => k \in inform

\* A node in the file has MaxTimes measurements of every topic at every number
\* of cores, unless it is spun by several threads, which race in finish_myself,
\* or was started again after it was done: the constructor then empties the file
\* of its highest core count.
Complete ==
    \A n \in inform : Single(n) /\ n \notin spoiled =>
        \A t \in SubTopic[n], c \in 1..Core[n] : csv[n][t][c] = MaxTimes

\* Two nodes are never measured at the same time, unless the one that comes first
\* is spun by several threads or was started again after it was done: is_target
\* is read before the file.
OneAtATime ==
    \A m, n \in Nodes : m > n /\ Single(m) /\ m \notin spoiled =>
        ~ ((\E th \in Threads[m] : Measured(m, th)) /\ (\E th \in Threads[n] : Measured(n, th)))

\* What is measured runs under the real-time policy and on the number of cores of
\* the file it is written to.  is_aleady_rt_ belongs to the queue and the policy
\* to the thread, so this needs a single thread.
MeasuredInRT ==
    \A n \in Nodes : Single(n) =>
        \A th \in Threads[n] : Measured(n, th) =>
            thread[n][th].rt /\ thread[n][th].cores = analyzer[n][thread[n][th].topic].core

\* The turn passes on: a node whose successors in the file are all measured is
\* measured too, crashes and restarts included.
TurnPasses ==
    \A n \in Nodes : Single(n) =>
        ((\A m \in Nodes : m > n => m \in inform) ~> n \in inform)
=============================================================================
