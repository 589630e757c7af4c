--------------------------- MODULE SchedAnalyzer ---------------------------
(***************************************************************************)
(* SchedAnalyzer::run of the ROSCH Analyzer: list scheduling of the node   *)
(* graph on the cores of the machine.                                      *)
(*                                                                         *)
(* Nodes are taken by decreasing inv_laxity.  A node is placed into a      *)
(* vacancy between two earlier nodes, or behind the last node of a core; a *)
(* node that needs several cores is first tried out at increasing times    *)
(* until all its parts can start together, and then placed part by part.   *)
(***************************************************************************)
EXTENDS NodeGraph

CONSTANTS
    C,           \* spec_.core
    CoreMaps,    \* the files: how many cores every node asks for
    ChildSize    \* CHILD_SIZE

Cores == 0..C - 1

ASSUME CoreAssumption ==
    /\ C \in Nat \ {0}
    /\ CoreMaps \subseteq [Nodes -> Nat \ {0}]
    /\ ChildSize \in Nat

VARIABLES
    core,       \* the file
    tasks,      \* v_sched_cpu_task_: a sequence of slots for every core
    queue,      \* the nodes of node_queue_ that are still to come
    pc,         \* where run() is
    node, min_start_time, used,  \* the current node, its earliest start,
                                 \* v_used_core
    start, success, next_min,    \* one round of the search for several cores
    makespan

search    == <<node, min_start_time, used, start, success, next_min>>
schedVars == <<core, tasks, queue, pc, search, makespan>>
vars      == <<graphVars, schedVars>>

SchedPC == {"graph", "pick", "try", "place", "crash", "done"}

\* A slot is a part of a node, or empty.  esc_time is its end.
Slot(n, from, to) == [node |-> n, start |-> from, end |-> to]
Empty(from, to) == Slot(None, from, to)

EscTime(c) == IF tasks[c] = <<>> THEN 0 ELSE tasks[c][Len(tasks[c])].end

-----------------------------------------------------------------------------
(* Where a part could start.                                               *)

\* sched_child_list: a list that does not fit into child_list counts as none.
ChildList(n) == IF Cardinality(Children(n)) < ChildSize THEN Children(n) ELSE {}

MaxOf(S) == CHOOSE x \in S : \A y \in S : y <= x
SlotsOf(c) == {tasks[c][l] : l \in DOMAIN tasks[c]}
Placed == UNION {SlotsOf(c) : c \in Cores}

StartsAtOnce(n) == 0   \* faulty variant
StartsLate(n) ==       \* faulty variant
    1 + MaxOf({0} \cup {s.end : s \in {s \in Placed : s.node \in ChildList(n)}})

GetMinStartTime(n) ==
    MaxOf({0} \cup {s.end : s \in {s \in Placed : s.node \in ChildList(n)}})

\* get_sched_node_info: behind the core that is free last before from, or else
\* behind the one that is free first after it; the lower core on a tie.
Behind(from, cs) ==
    LET free   == {c \in cs : EscTime(c) <= from}
        latest == CHOOSE c \in free : \A d \in free \ {c} :
                      EscTime(c) > EscTime(d) \/ (EscTime(c) = EscTime(d) /\ c < d)
        first  == CHOOSE c \in cs : \A d \in cs \ {c} :
                      EscTime(c) < EscTime(d) \/ (EscTime(c) = EscTime(d) /\ c < d)
    IN  IF free # {} THEN [core |-> latest, start |-> from, slot |-> 0]
        ELSE [core |-> first, start |-> EscTime(first), slot |-> 0]

\* get_sched_vacancy_node_info: the vacancy that ends the part first and, of
\* those, leaves the least time behind it; the first one found on a tie.
StartIn(slot, from) == IF slot.start <= from THEN from ELSE slot.start
Fits(slot, from, length) == slot.node = None /\ StartIn(slot, from) + length <= slot.end

Vacancies(from, length, cs) ==
    {v \in [core : cs, slot : 1..MaxOf({0} \cup {Len(tasks[c]) : c \in cs})] :
        v.slot <= Len(tasks[v.core]) /\ Fits(tasks[v.core][v.slot], from, length)}

BestVacancy(from, length, cs) ==
    LET V == Vacancies(from, length, cs)
        rank(v) == LET s == tasks[v.core][v.slot]
                   IN  <<StartIn(s, from), s.end, v.core, v.slot>>
        v == CHOOSE v \in V : \A w \in V \ {v} :
                 \E i \in 1..4 : /\ rank(v)[i] < rank(w)[i]
                                 /\ \A j \in 1..i - 1 : rank(v)[j] = rank(w)[j]
    IN  [core |-> v.core, start |-> rank(v)[1], slot |-> v.slot]

Select(from, length, cs) ==
    IF /\ Vacancies(from, length, cs) # {}
       /\ BestVacancy(from, length, cs).start <= Behind(from, cs).start
    THEN BestVacancy(from, length, cs)
    ELSE Behind(from, cs)

\* set_sched_vacancy_node, or push_back with the empty node it needs.
Gap(from, to) == IF from < to THEN <<Empty(from, to)>> ELSE <<>>

FilledNoGap(p, n) ==   \* faulty variant
    SubSeq(tasks[p.core], 1, p.slot - 1)
    \o <<Slot(n, p.start, p.start + run_time[n])>>
    \o SubSeq(tasks[p.core], p.slot + 1, Len(tasks[p.core]))

Filled(p, n) ==
    LET ts == tasks[p.core]
    IN  SubSeq(ts, 1, p.slot - 1)
        \o Gap(ts[p.slot].start, p.start)
        \o <<Slot(n, p.start, p.start + run_time[n])>>
        \o Gap(p.start + run_time[n], ts[p.slot].end)
        \o SubSeq(ts, p.slot + 1, Len(ts))

Pushed(p, n) ==
    tasks[p.core] \o Gap(EscTime(p.core), p.start)
                  \o <<Slot(n, p.start, p.start + run_time[n])>>

-----------------------------------------------------------------------------
(* run().                                                                  *)

NodeQueue ==
    /\ pc = "graph" /\ gpc = "built"
    /\ queue' = Nodes
    /\ pc' = "pick"
    /\ UNCHANGED <<graphVars, core, tasks, search, makespan>>

\* std::sort by sort_inv_laxity_t: equal elements come in any order.
LaxityOrder(m, n) ==
    IF inv_laxity[m] = inv_laxity[n] THEN run_time[m] > run_time[n]
    ELSE inv_laxity[m] > inv_laxity[n]

PickNode(n) ==
    /\ pc = "pick" /\ n \in queue
    /\ \A m \in queue : ~LaxityOrder(m, n)
    /\ queue' = queue \ {n}
    /\ node' = n
    /\ min_start_time' = GetMinStartTime(n)
    /\ used' = {}
    /\ pc' = IF core[n] > 1 THEN "try" ELSE "place"
    /\ UNCHANGED <<graphVars, core, tasks, start, success, next_min, makespan>>

\* More parts than cores: core_index is -1 and at(-1) throws.
NoCoreLeft ==
    /\ pc \in {"try", "place"}
    /\ used = Cores /\ Cardinality(used) < core[node]
    /\ pc' = "crash"
    /\ UNCHANGED <<graphVars, core, tasks, queue, search, makespan>>

TryFirst ==
    /\ pc = "try" /\ used = {}
    /\ LET p == Select(min_start_time, run_time[node], Cores)
       IN  /\ used' = {p.core}
           /\ start' = p.start
    /\ success' = TRUE
    /\ next_min' = None
    /\ UNCHANGED <<graphVars, core, tasks, queue, pc, node, min_start_time, makespan>>

\* next_min_start_time; None stands for INT_MAX.
NextMinStuck(t) == min_start_time   \* faulty variant
NextMin(t) ==
    IF min_start_time < t /\ (next_min = None \/ t <= next_min) THEN t ELSE next_min

TryNext ==
    /\ pc = "try" /\ used # {} /\ used # Cores
    /\ Cardinality(used) < core[node]
    /\ LET p == Select(start, run_time[node], Cores \ used)
       IN  /\ used' = used \cup {p.core}
           /\ success' = (success /\ p.start = start)
           /\ next_min' = NextMin(p.start)
    /\ UNCHANGED <<graphVars, core, tasks, queue, pc, node, min_start_time, start,
                   makespan>>

AnyStart == TRUE   \* faulty variant
AllTogether == success

TryEnd ==
    /\ pc = "try" /\ Cardinality(used) = core[node]
    /\ used' = {}
    /\ IF AllTogether
       THEN pc' = "place" /\ UNCHANGED min_start_time
       ELSE min_start_time' = next_min /\ UNCHANGED pc
    /\ UNCHANGED <<graphVars, core, tasks, queue, node, start, success, next_min,
                   makespan>>

Place ==
    /\ pc = "place" /\ used # Cores
    /\ LET p == Select(min_start_time, run_time[node], Cores \ used)
       IN  /\ tasks' = [tasks EXCEPT ![p.core] =
                          IF p.slot > 0 THEN Filled(p, node) ELSE Pushed(p, node)]
           /\ used' = used \cup {p.core}
           /\ pc' = IF Cardinality(used) + 1 = core[node] THEN "pick" ELSE "place"
    /\ UNCHANGED <<graphVars, core, queue, node, min_start_time, start, success,
                   next_min, makespan>>

ComputeMakespan == MaxOf({0} \cup {EscTime(c) : c \in Cores})

Finish ==
    /\ pc = "pick" /\ queue = {}
    /\ makespan' = ComputeMakespan
    /\ pc' = "done"
    /\ UNCHANGED <<graphVars, core, tasks, queue, search>>

-----------------------------------------------------------------------------
Init ==
    /\ GraphInit
    /\ core \in CoreMaps
    /\ tasks = [c \in Cores |-> <<>>]
    /\ queue = {}
    /\ pc = "graph"
    /\ node = None /\ min_start_time = 0 /\ used = {}
    /\ start = 0 /\ success = TRUE /\ next_min = None
    /\ makespan = 0

Next ==
    \/ GraphNext /\ UNCHANGED schedVars
    \/ NodeQueue
    \/ \E n \in Nodes : PickNode(n)
    \/ NoCoreLeft \/ TryFirst \/ TryNext \/ TryEnd \/ Place \/ Finish

Spec == Init /\ [][Next]_vars

\* The Analyzer is one thread: it goes on while it has a next step.
FairSpec == Spec /\ WF_vars(Next)

-----------------------------------------------------------------------------
(* Properties.                                                             *)

SlotAt(part) == tasks[part[1]][part[2]]
Parts(n) == {p \in UNION {{c} \X DOMAIN tasks[c] : c \in Cores} : SlotAt(p).node = n}
Complete(n) == n \notin queue /\ pc \in {"pick", "try", "place", "done"}
               /\ (n = node => pc \in {"pick", "done"})

\* Every variable has its type; a search never goes on at INT_MAX.
TypeOK ==
    /\ core \in CoreMaps
    /\ \A c \in Cores : tasks[c] \in Seq([node : Nodes \cup {None}, start : Nat, end : Nat])
    /\ queue \subseteq Nodes
    /\ pc \in SchedPC
    /\ node \in Nodes \cup {None}
    /\ min_start_time \in Nat
    /\ used \subseteq Cores
    /\ start \in Nat /\ success \in BOOLEAN /\ next_min \in Nat \cup {None}
    /\ makespan \in Nat

\* The slots of a core tile its time from 0 without overlap or hole, also after
\* a node was put in the middle; no empty slot has length 0.
Tiled ==
    /\ TypeOK
    /\ \A c \in Cores : \A l \in DOMAIN tasks[c] :
        /\ tasks[c][l].start = IF l = 1 THEN 0 ELSE tasks[c][l - 1].end
        /\ tasks[c][l].node = None => tasks[c][l].start < tasks[c][l].end

\* The parts of a node lie on as many different cores as it asked for and all
\* start together: the second pass finds what the trial promised.
GangTogether ==
    \A n \in Nodes : Complete(n) =>
        /\ Cardinality(Parts(n)) = core[n]
        /\ \A p, q \in Parts(n) :
              /\ p[1] = q[1] => p = q
              /\ SlotAt(p).start = SlotAt(q).start
              /\ SlotAt(p).end = SlotAt(p).start + run_time[n]

\* A node starts after all of its publishers have finished, if they fit into
\* the child list.  In a cyclic file, and where the publisher takes no time, the
\* laxities do not say who comes first.
Precedence ==
    \A n, m \in Nodes :
        links[n][m] > 0 /\ Cardinality(Children(n)) < ChildSize =>
            \/ \A p \in Parts(n) :
                  Parts(m) # {} /\ \A q \in Parts(m) : SlotAt(q).end <= SlotAt(p).start
            \/ ~Acyclic(links) \/ run_time[m] = 0

\* The schedule leaves no moment before its end in which no node runs.
NeverIdle ==
    pc = "done" =>
        \A t \in 0..makespan - 1 :
            \E s \in Placed : s.node # None /\ s.start <= t /\ t < s.end

\* run() ends: the search for several cores finds a common start time.
Terminates == <>(pc \in {"done", "crash"} \/ gpc \in {"hang", "overflow"})
=============================================================================
