--------------------------- MODULE MeasurerProofs ---------------------------
(***************************************************************************)
(* Proofs of the safety properties of Measurer, for any number of nodes,   *)
(* topics, cores and spinner threads, crashes and restarts included.       *)
(***************************************************************************)
EXTENDS Measurer, WellFoundedInduction, TLAPS

-----------------------------------------------------------------------------
(* The inductive invariant, by concern; most of it is about one node.      *)

Shape ==
    /\ DOMAIN starts = Nodes /\ DOMAIN graph = Nodes /\ DOMAIN list = Nodes
    /\ DOMAIN core = Nodes /\ DOMAIN analyzer = Nodes /\ DOMAIN thread = Nodes
    /\ DOMAIN csv = Nodes

AnalyzerType(n) ==
    [made : BOOLEAN, core : CoreCounts(n), counter : 0..max_analyze_times, rt : BOOLEAN]

ThreadType(n) ==
    [at : {"idle", "update", "begin", "callback", "empty", "last", "next"},
     topic : SubTopic[n] \cup {"none"}, target : BOOLEAN, in_range : BOOLEAN,
     rt : BOOLEAN, cores : 0..Core[n]]

NodeType(n) ==
    /\ starts[n] \in 0..MaxStarts[n]
    /\ graph[n] \in 0..N
    /\ list[n] \subseteq SubTopic[n]
    /\ core[n] \in CoreCounts(n)
    /\ analyzer[n] \in [SubTopic[n] -> AnalyzerType(n)]
    /\ thread[n] \in [Threads[n] -> ThreadType(n)]
    /\ csv[n] \in [SubTopic[n] -> [CoreCounts(n) -> 0..MaxTimes]]

\* The nodes that are measured are a suffix of the file.
Suffix == \A j \in inform, k \in Nodes : k >= j => k \in inform

\* A process that has not made its subscriptions is as it was loaded.
Fresh(n) ==
    /\ n \notin up => \A t \in SubTopic[n] : ~analyzer[n][t].made
    /\ ~Spins(n) =>
        /\ graph[n] = N /\ list[n] = SubTopic[n]
        /\ \A th \in Threads[n] : thread[n][th].at = "idle"
        /\ \A t \in SubTopic[n] : ~analyzer[n][t].rt
        /\ \A t \in SubTopic[n] : analyzer[n][t].made => core[n] = Core[n]

\* A thread in call() has a topic to itself; it is the target's until it returns.
InCall(n) ==
    \A th \in Threads[n] :
        /\ thread[n][th].at = "idle" => ~thread[n][th].target
        /\ thread[n][th].at # "idle" => thread[n][th].topic \in SubTopic[n]
        /\ thread[n][th].at \in {"empty", "last", "next"} => thread[n][th].target
        /\ \A o \in Threads[n] :
            th # o /\ thread[n][th].at # "idle" /\ thread[n][o].at # "idle" =>
                thread[n][th].topic # thread[n][o].topic
        /\ thread[n][th].at = "callback" /\ thread[n][th].target =>
            thread[n][th].in_range = is_in_range(analyzer[n][thread[n][th].topic])

\* The file of the core count an Analyzer is at has a line for every callback
\* after the first IgnoreTimes.
Counted(n) ==
    \A t \in SubTopic[n] : analyzer[n][t].made =>
        csv[n][t][analyzer[n][t].core] =
            IF analyzer[n][t].counter <= IgnoreTimes THEN 0
            ELSE analyzer[n][t].counter - IgnoreTimes

\* The chain lost measured nodes only, and who was the target has none behind it.
Turn(n) ==
    /\ \A k \in Nodes : k >= graph[n] => k \in inform
    /\ \A th \in Threads[n] : thread[n][th].target =>
        graph[n] <= n + 1 /\ \A k \in Nodes : k > n => k \in inform

-----------------------------------------------------------------------------
(* A node that is spun by one thread.                                      *)

\* The thread that has measured goes from core count to core count down to 1.
CoreInv(n) ==
    /\ Spins(n) => core[n] >= 1
    /\ \A th \in Threads[n] :
        /\ thread[n][th].at = "last" => core[n] = 1 /\ list[n] = {}
        /\ thread[n][th].at = "next" => core[n] >= 2 /\ list[n] = {}

\* is_aleady_rt_ of a queue tells the truth about the thread, until the node has
\* left the graph and its queues are set back one by one.
PolicyInv(n) ==
    \A th \in Threads[n] :
        /\ \A t \in SubTopic[n] : analyzer[n][t].rt =>
            /\ graph[n] <= n + 1
            /\ graph[n] > n \/ thread[n][th].target =>
                  thread[n][th].rt /\ thread[n][th].cores = core[n]
            /\ graph[n] > n /\ thread[n][th].at # "idle" => thread[n][th].target
        /\ thread[n][th].at = "callback" /\ thread[n][th].target =>
            analyzer[n][thread[n][th].topic].rt
        /\ thread[n][th].at = "callback" /\ thread[n][th].target =>
            analyzer[n][thread[n][th].topic].core = core[n]

\* The files of the higher core counts are complete, and so are, at this one,
\* those of the topics that left the list.
FilesInv(n) ==
    Spins(n) =>
        \A t \in SubTopic[n] :
            /\ \A c \in 1..Core[n] : c > core[n] => csv[n][t][c] = MaxTimes
            /\ t \notin list[n] =>
                  analyzer[n][t].core = core[n] /\ analyzer[n][t].counter = max_analyze_times

\* A node that was measured is not the target again and its files stay, unless
\* its process is started again.
DoneInv(n) ==
    n \in inform /\ n \notin spoiled =>
        /\ graph[n] <= n \/ \A t \in SubTopic[n] : ~analyzer[n][t].made
        /\ \A th \in Threads[n] : ~thread[n][th].target
        /\ \A t \in SubTopic[n], c \in 1..Core[n] : csv[n][t][c] = MaxTimes

SingleInv(n) == CoreInv(n) /\ PolicyInv(n) /\ FilesInv(n) /\ DoneInv(n)

NodeInv(n) ==
    /\ NodeType(n) /\ Fresh(n) /\ InCall(n) /\ Counted(n) /\ Turn(n)
    /\ Single(n) => SingleInv(n)

IInv ==
    /\ inform \subseteq Nodes /\ up \subseteq Nodes /\ spoiled \subseteq Nodes
    /\ Shape /\ Suffix
    /\ \A n \in Nodes : NodeInv(n)

-----------------------------------------------------------------------------
(* What the assumptions say of one node.                                   *)

Constants(n) ==
    /\ N \in Nat /\ n \in Nat /\ n < N
    /\ Core[n] \in Nat /\ Core[n] >= 1 /\ CoreFloor \in Int /\ CoreFloor <= 0
    /\ MaxTimes \in Nat /\ MaxTimes >= 1 /\ IgnoreTimes \in Nat
    /\ SubTopic[n] # {} /\ MaxStarts[n] \in Nat

\* The constants have the values the configuration file may give them.
LEMMA ConstantsHold == \A n \in Nodes : Constants(n)
  <1> SUFFICES ASSUME NEW n \in Nodes  PROVE Constants(n)
    OBVIOUS
  <1>1. Core[n] \in Nat \ {0} /\ MaxStarts[n] \in Nat  BY MeasurerAssumption
  <1>2. N \in Nat /\ n \in Nat /\ n < N  BY MeasurerAssumption DEF Nodes
  <1>3. QED  BY <1>1, <1>2, MeasurerAssumption DEF Constants

-----------------------------------------------------------------------------
(* The operators of the graph.                                             *)

\* A set of numbers that is not empty has a least element.
LEMMA LeastNumber ==
    ASSUME NEW S \in SUBSET Nat, S # {}
    PROVE  Min(S) \in S /\ \A x \in S : Min(S) <= x
  <1> DEFINE R == {ss \in Nat \X Nat : ss[1] < ss[2]}
  <1>1. IsWellFoundedOn(R, Nat)  BY NatLessThanWellFounded, Zenon DEF OpToRel
  <1> HIDE DEF R
  <1>2. PICK x \in S : \A y \in S : ~ (<<y, x>> \in R)  BY <1>1, WFMin
  <1>3. \A y \in S : x <= y
    <2> SUFFICES ASSUME NEW y \in S, ~(x <= y)  PROVE FALSE
      OBVIOUS
    <2>1. y < x /\ <<y, x>> \in Nat \X Nat  OBVIOUS
    <2>2. <<y, x>> \in R  BY <2>1 DEF R
    <2>3. QED  BY <1>2, <2>2
  <1>4. QED  BY <1>3 DEF Min

\* update_graph leaves the nodes before every node of the file.
LEMMA UpdateGraph ==
    ASSUME NEW g \in 0..N, inform \subseteq Nodes
    PROVE  /\ update_graph(g) \in 0..N /\ update_graph(g) <= g
           /\ \A k \in inform : update_graph(g) <= k
           /\ update_graph(g) = g \/ update_graph(g) \in inform
  <1>0. N \in Nat  BY MeasurerAssumption
  <1>1. \A k \in inform : finish_node(g, k) = IF g <= k THEN g ELSE k
    <2> SUFFICES ASSUME NEW k \in inform  PROVE finish_node(g, k) = IF g <= k THEN g ELSE k
      OBVIOUS
    <2>1. {g, k} \in SUBSET Nat /\ {g, k} # {}  BY <1>0 DEF Nodes
    <2>2. Min({g, k}) \in {g, k} /\ \A x \in {g, k} : Min({g, k}) <= x  BY <2>1, LeastNumber
    <2>3. QED  BY <1>0, <2>2 DEF finish_node, Nodes
  <1> DEFINE S == {finish_node(g, k) : k \in inform} \cup {g}
  <1>2. S \in SUBSET Nat /\ S # {}  BY <1>0, <1>1 DEF Nodes
  <1>3. Min(S) \in S /\ \A x \in S : Min(S) <= x  BY <1>2, LeastNumber
  <1>4. update_graph(g) = Min(S)  BY DEF update_graph
  <1> HIDE DEF S
  <1>5. g \in S /\ \A k \in inform : (IF g <= k THEN g ELSE k) \in S  BY <1>1 DEF S
  <1>6. \A x \in S : x = g \/ x \in inform  BY <1>1 DEF S
  <1>7. Min(S) = g \/ Min(S) \in inform  BY <1>3, <1>6
  <1>8. Min(S) \in 0..N
    <2>1. inform \subseteq 0..N  BY <1>0 DEF Nodes
    <2>2. QED  BY <1>7, <2>1
  <1>9. \A k \in inform : Min(S) <= k
    <2> SUFFICES ASSUME NEW k \in inform  PROVE Min(S) <= k
      OBVIOUS
    <2>1. Min(S) <= IF g <= k THEN g ELSE k  BY <1>3, <1>5
    <2>2. QED  BY <1>0, <1>8, <2>1 DEF Nodes
  <1>10. QED  BY <1>3, <1>4, <1>5, <1>7, <1>8, <1>9

\* remove_node leaves the nodes before the one it removes.
LEMMA FinishNode ==
    ASSUME NEW g \in 0..N, NEW k \in Nodes
    PROVE  finish_node(g, k) = IF g <= k THEN g ELSE k
  <1>0. N \in Nat  BY MeasurerAssumption
  <1>1. {g, k} \in SUBSET Nat /\ {g, k} # {}  BY <1>0 DEF Nodes
  <1>2. Min({g, k}) \in {g, k} /\ \A x \in {g, k} : Min({g, k}) <= x  BY <1>1, LeastNumber
  <1>3. QED  BY <1>0, <1>2 DEF finish_node, Nodes

-----------------------------------------------------------------------------
(* Steps.                                                                  *)

\* The process and the files of m do not change.
Still(m) ==
    /\ starts'[m] = starts[m] /\ graph'[m] = graph[m] /\ list'[m] = list[m]
    /\ core'[m] = core[m] /\ analyzer'[m] = analyzer[m] /\ thread'[m] = thread[m]
    /\ csv'[m] = csv[m]
    /\ m \in up' <=> m \in up
    /\ m \in spoiled' <=> m \in spoiled
    /\ m \in inform' <=> m \in inform
    /\ inform \subseteq inform'

\* A node whose process and files do not change keeps its invariant.
LEMMA StillKeeps ==
    ASSUME NEW m \in Nodes, NodeInv(m), Still(m)
    PROVE  NodeInv(m)'
  <1> USE DEF Still
  <1>1. NodeType(m)'  BY DEF NodeInv, NodeType
  <1>0. Spins(m)' <=> Spins(m)  BY DEF Spins
  <1>2. Fresh(m)'  BY <1>0 DEF NodeInv, Fresh
  <1>3. InCall(m)'  BY DEF NodeInv, InCall, is_in_range
  <1>4. Counted(m)'  BY DEF NodeInv, Counted
  <1>5. Turn(m)'  BY DEF NodeInv, Turn
  <1>6. Single(m) => SingleInv(m)'
    <2> SUFFICES ASSUME SingleInv(m)  PROVE SingleInv(m)'
      BY DEF NodeInv
    <2>1. CoreInv(m)'  BY <1>0 DEF SingleInv, CoreInv
    <2>2. PolicyInv(m)'  BY DEF SingleInv, PolicyInv
    <2>3. FilesInv(m)'  BY <1>0 DEF SingleInv, FilesInv
    <2>4. DoneInv(m)'  BY DEF SingleInv, DoneInv
    <2>5. QED  BY <2>1, <2>2, <2>3, <2>4 DEF SingleInv
  <1>7. QED  BY <1>1, <1>2, <1>3, <1>4, <1>5, <1>6 DEF NodeInv, Single

\* update: the chain shrinks to the nodes before the measured ones.
LEMMA UpdateKeeps ==
    ASSUME IInv, NEW n \in Nodes, NEW th \in Threads[n], update(n, th)
    PROVE  NodeInv(n)'
  <1>a. N \in Nat /\ n \in Nat  BY MeasurerAssumption DEF Nodes
  <1>b. NodeInv(n) /\ Shape /\ inform \subseteq Nodes /\ Suffix  BY DEF IInv
  <1>c. NodeType(n) /\ Fresh(n) /\ InCall(n) /\ Counted(n) /\ Turn(n)  BY <1>b DEF NodeInv
  <1> DEFINE x == thread[n][th]
             y == [x EXCEPT !.at = "begin"]
  <1>1. thread'[n] = [thread[n] EXCEPT ![th] = y]
    BY <1>b DEF update, Goes, Shape
  <1>2. /\ thread'[n][th] = y
        /\ \A o \in Threads[n] : o # th => thread'[n][o] = thread[n][o]
    BY <1>1, <1>c DEF NodeType
  <1>3. x \in ThreadType(n)  BY <1>c DEF NodeType
  <1>4. /\ y \in ThreadType(n)
        /\ x.at = "update" /\ y.at = "begin" /\ y.topic = x.topic /\ y.target = x.target
        /\ y.rt = x.rt /\ y.cores = x.cores
    BY <1>3 DEF ThreadType, update
  <1>5. /\ graph'[n] = update_graph(graph[n])
        /\ UNCHANGED <<inform, starts, up, list, core, analyzer, csv, spoiled>>
    BY <1>b DEF update, Shape
  <1>6. /\ graph'[n] \in 0..N /\ graph'[n] <= graph[n]
        /\ \A k \in inform : graph'[n] <= k
        /\ graph'[n] = graph[n] \/ graph'[n] \in inform
    BY <1>5, <1>b, <1>c, UpdateGraph DEF NodeType
  <1> HIDE DEF y
  <1> USE <1>5
  <1>7. NodeType(n)'
    <2>1. thread'[n] \in [Threads[n] -> ThreadType(n)]  BY <1>1, <1>4, <1>c DEF NodeType
    <2>2. QED  BY <1>6, <1>c, <2>1 DEF NodeType
  <1>8. Spins(n) /\ Spins(n)'  BY <1>4, <1>c DEF Fresh, Spins
  <1>9. Fresh(n)'  BY <1>8, <1>c DEF Fresh
  <1>10. InCall(n)'  BY <1>2, <1>4, <1>c DEF InCall
  <1>11. Counted(n)'  BY <1>c DEF Counted
  <1>12. Turn(n)'  
    <2>1. \A k \in Nodes : k >= graph'[n] => k \in inform'
      BY <1>a, <1>6, <1>b, <1>c DEF Turn, Suffix, NodeType, Nodes
    <2>2. ASSUME NEW o \in Threads[n], thread'[n][o].target  PROVE thread[n][o].target
      BY <1>2, <1>4, <2>2
    <2>3. QED  BY <1>a, <1>6, <1>c, <2>1, <2>2 DEF Turn, NodeType
  <1>13. ASSUME Single(n)  PROVE SingleInv(n)'
    <2>a. SingleInv(n) /\ Threads[n] = {th}  BY <1>13, <1>b DEF Single, NodeInv
    <2>1. CoreInv(n)'  BY <1>8, <1>2, <1>4, <2>a DEF SingleInv, CoreInv
    <2>2. PolicyInv(n)'  BY <1>a, <1>6, <1>2, <1>4, <2>a, <1>c DEF SingleInv, PolicyInv, NodeType
    <2>3. FilesInv(n)'  BY <1>8, <2>a DEF SingleInv, FilesInv
    <2>4. DoneInv(n)'  BY <1>a, <1>6, <1>2, <1>4, <2>a, <1>c DEF SingleInv, DoneInv, NodeType
    <2>5. QED  BY <2>1, <2>2, <2>3, <2>4 DEF SingleInv
  <1>14. QED  BY <1>7, <1>9, <1>10, <1>11, <1>12, <1>13 DEF NodeInv, Single

\* A process that ends leaves what a new one starts with.
LEMMA EndedKeeps ==
    ASSUME IInv, NEW n \in Nodes, Ended(n), UNCHANGED <<inform, starts, csv, spoiled>>
    PROVE  NodeInv(n)'
  <1>a. Constants(n)  BY ConstantsHold
  <1> USE <1>a DEF Constants
  <1>b. NodeInv(n) /\ Shape /\ inform \subseteq Nodes /\ Suffix  BY DEF IInv
  <1>c. NodeType(n) /\ Fresh(n) /\ InCall(n) /\ Counted(n) /\ Turn(n)  BY <1>b DEF NodeInv
  <1>1. /\ graph'[n] = N /\ list'[n] = SubTopic[n] /\ core'[n] = 0 /\ n \notin up'
        /\ analyzer'[n] = [t \in SubTopic[n] |-> NoAnalyzer]
        /\ thread'[n] = [th \in Threads[n] |-> Idle]
    BY <1>b DEF Ended, Shape
  <1>2. /\ \A t \in SubTopic[n] : analyzer'[n][t] = NoAnalyzer
        /\ \A th \in Threads[n] : thread'[n][th] = Idle
    BY <1>1
  <1>3. /\ NoAnalyzer \in AnalyzerType(n) /\ ~NoAnalyzer.made /\ ~NoAnalyzer.rt
        /\ Idle \in ThreadType(n) /\ Idle.at = "idle" /\ ~Idle.target
    BY <1>a DEF NoAnalyzer, Idle, AnalyzerType, ThreadType, AllCores, CoreCounts, max_analyze_times
  <1>4. NodeType(n)'
    <2>1. 0 \in CoreCounts(n)  BY <1>a DEF CoreCounts
    <2>2. QED  BY <1>a, <1>1, <1>3, <1>c, <2>1 DEF NodeType
  <1>5. ~Spins(n)'  BY <1>1 DEF Spins
  <1>6. Fresh(n)'  BY <1>1, <1>2, <1>3 DEF Fresh
  <1>7. InCall(n)'  BY <1>2, <1>3 DEF InCall
  <1>8. Counted(n)'  BY <1>2, <1>3 DEF Counted
  <1>9. Turn(n)'  BY <1>a, <1>1, <1>2, <1>3 DEF Turn, Nodes
  <1>10. ASSUME Single(n)  PROVE SingleInv(n)'
    <2>1. DoneInv(n)  BY <1>10, <1>b DEF NodeInv, SingleInv
    <2>2. DoneInv(n)'  BY <1>2, <1>3, <2>1 DEF DoneInv
    <2>3. CoreInv(n)' /\ PolicyInv(n)' /\ FilesInv(n)'
      BY <1>2, <1>3, <1>5 DEF CoreInv, PolicyInv, FilesInv
    <2>4. QED  BY <2>2, <2>3 DEF SingleInv
  <1>11. QED  BY <1>4, <1>6, <1>7, <1>8, <1>9, <1>10 DEF NodeInv, Single

\* A process that starts has not subscribed.
LEMMA StartKeeps ==
    ASSUME IInv, NEW n \in Nodes, start(n)
    PROVE  NodeInv(n)'
  <1>a. Constants(n)  BY ConstantsHold
  <1> USE <1>a DEF Constants
  <1>b. NodeInv(n) /\ Shape /\ inform \subseteq Nodes /\ Suffix  BY DEF IInv
  <1>c. NodeType(n) /\ Fresh(n) /\ InCall(n) /\ Counted(n) /\ Turn(n)  BY <1>b DEF NodeInv
  <1>1. /\ n \notin up /\ starts[n] < MaxStarts[n] /\ starts'[n] = starts[n] + 1
        /\ UNCHANGED <<inform, graph, list, core, analyzer, thread, csv, spoiled>>
    BY <1>b DEF start, Shape, process
  <1>2. ~Spins(n) /\ ~Spins(n)'  BY <1>a, <1>1, <1>c DEF Spins, Fresh
  <1>3. NodeType(n)'  BY <1>1, <1>c DEF NodeType
  <1>4. Fresh(n)'  BY <1>1, <1>2, <1>c DEF Fresh
  <1>5. InCall(n)'  BY <1>1, <1>c DEF InCall
  <1>6. Counted(n)' /\ Turn(n)'  BY <1>1, <1>c DEF Counted, Turn
  <1>7. ASSUME Single(n)  PROVE SingleInv(n)'
    <2>a. SingleInv(n)  BY <1>7, <1>b DEF NodeInv
    <2>1. CoreInv(n)' /\ FilesInv(n)'  BY <1>1, <1>2, <2>a DEF SingleInv, CoreInv, FilesInv
    <2>2. PolicyInv(n)'  BY <1>1, <2>a DEF SingleInv, PolicyInv
    <2>3. DoneInv(n)'  BY <1>1, <2>a DEF SingleInv, DoneInv
    <2>4. QED  BY <2>1, <2>2, <2>3 DEF SingleInv
  <1>8. QED  BY <1>3, <1>4, <1>5, <1>6, <1>7 DEF NodeInv, Single

\* The constructor of a SubscriptionQueue opens an empty file for its topic.
LEMMA SubscribeKeeps ==
    ASSUME IInv, NEW n \in Nodes, NEW t \in SubTopic[n], subscribe(n, t)
    PROVE  NodeInv(n)'
  <1>a. Constants(n)  BY ConstantsHold
  <1> USE <1>a DEF Constants
  <1>b. NodeInv(n) /\ Shape /\ inform \subseteq Nodes /\ Suffix  BY DEF IInv
  <1>c. NodeType(n) /\ Fresh(n) /\ InCall(n) /\ Counted(n) /\ Turn(n)  BY <1>b DEF NodeInv
  <1> DEFINE b == [NoAnalyzer EXCEPT !.made = TRUE, !.core = Core[n]]
  <1>1. ~Spins(n) /\ n \in up /\ graph[n] = N /\ list[n] = SubTopic[n]
        /\ \A th \in Threads[n] : thread[n][th].at = "idle"
    BY <1>c DEF subscribe, Spins, Fresh
  <1>2. is_in_node_graph(n)  BY <1>a, <1>1 DEF is_in_node_graph
  <1>3. /\ core'[n] = Core[n]
        /\ analyzer'[n] = [analyzer[n] EXCEPT ![t] = b]
        /\ csv'[n] = [csv[n] EXCEPT ![t] = [csv[n][t] EXCEPT ![Core[n]] = 0]]
        /\ UNCHANGED <<inform, starts, up, graph, list, thread>>
        /\ n \in inform => n \in spoiled'
    BY <1>2, <1>b DEF subscribe, Shape
  <1>4. /\ b \in AnalyzerType(n) /\ b.made /\ b.core = Core[n] /\ b.counter = 0 /\ ~b.rt
        /\ Core[n] \in CoreCounts(n)
    <2>1. Core[n] \in CoreCounts(n)  BY DEF CoreCounts
    <2>2. NoAnalyzer \in AnalyzerType(n) /\ NoAnalyzer.counter = 0 /\ ~NoAnalyzer.rt
      BY DEF NoAnalyzer, AnalyzerType, AllCores, CoreCounts, max_analyze_times
    <2>3. QED  BY <2>1, <2>2 DEF AnalyzerType
  <1> HIDE DEF b
  <1>5. /\ analyzer'[n] \in [SubTopic[n] -> AnalyzerType(n)]
        /\ analyzer'[n][t] = b
        /\ \A u \in SubTopic[n] : u # t => analyzer'[n][u] = analyzer[n][u]
    BY <1>3, <1>4, <1>c DEF NodeType
  <1>6. /\ csv'[n] \in [SubTopic[n] -> [CoreCounts(n) -> 0..MaxTimes]]
        /\ csv'[n][t][Core[n]] = 0
        /\ \A u \in SubTopic[n] : u # t => csv'[n][u] = csv[n][u]
    <2>1. csv[n][t] \in [CoreCounts(n) -> 0..MaxTimes]  BY <1>c DEF NodeType
    <2>2. /\ [csv[n][t] EXCEPT ![Core[n]] = 0] \in [CoreCounts(n) -> 0..MaxTimes]
          /\ [csv[n][t] EXCEPT ![Core[n]] = 0][Core[n]] = 0
      BY <1>a, <1>4, <2>1
    <2>3. QED  BY <1>3, <1>c, <2>2 DEF NodeType
  <1>7. NodeType(n)'  BY <1>3, <1>4, <1>5, <1>6, <1>c DEF NodeType
  <1>8. Fresh(n)'
    <2>1. \A u \in SubTopic[n] : ~analyzer'[n][u].rt  BY <1>1, <1>4, <1>5, <1>c DEF Fresh
    <2>2. QED  BY <1>1, <1>3, <2>1 DEF Fresh
  <1>9. \A th \in Threads[n] : thread'[n][th].at = "idle" /\ ~thread'[n][th].target
    BY <1>1, <1>3, <1>c DEF InCall
  <1>10. InCall(n)'  BY <1>9 DEF InCall
  <1>11. Counted(n)'
    <2>1. ASSUME NEW u \in SubTopic[n], analyzer'[n][u].made
          PROVE  csv'[n][u][analyzer'[n][u].core] =
                    IF analyzer'[n][u].counter <= IgnoreTimes THEN 0
                    ELSE analyzer'[n][u].counter - IgnoreTimes
      <3>1. CASE u = t  BY <1>a, <1>4, <1>5, <1>6, <3>1
      <3>2. CASE u # t  BY <1>5, <1>6, <1>c, <2>1, <3>2 DEF Counted
      <3>3. QED  BY <3>1, <3>2
    <2>2. QED  BY <2>1 DEF Counted
  <1>12. Turn(n)'  BY <1>3, <1>9, <1>c DEF Turn
  <1>13. ASSUME Single(n)  PROVE SingleInv(n)'
    <2>1. CoreInv(n)'  BY <1>a, <1>3, <1>9 DEF CoreInv
    <2>2. PolicyInv(n)'
      <3>1. \A u \in SubTopic[n] : ~analyzer'[n][u].rt  BY <1>1, <1>4, <1>5, <1>c DEF Fresh
      <3>2. QED  BY <1>9, <3>1 DEF PolicyInv
    <2>3. FilesInv(n)'  BY <1>a, <1>1, <1>3 DEF FilesInv
    <2>4. DoneInv(n)'  BY <1>3 DEF DoneInv
    <2>5. QED  BY <2>1, <2>2, <2>3, <2>4 DEF SingleInv
  <1>14. QED  BY <1>7, <1>8, <1>10, <1>11, <1>12, <1>13 DEF NodeInv, Single

\* call: the thread is the target's when its node is the last of the chain.
LEMMA CallKeeps ==
    ASSUME IInv, NEW n \in Nodes, NEW th \in Threads[n], NEW t \in SubTopic[n], call(n, th, t)
    PROVE  NodeInv(n)'
  <1>a. Constants(n)  BY ConstantsHold
  <1> USE <1>a DEF Constants
  <1>b. NodeInv(n) /\ Shape /\ inform \subseteq Nodes /\ Suffix  BY DEF IInv
  <1>c. NodeType(n) /\ Fresh(n) /\ InCall(n) /\ Counted(n) /\ Turn(n)  BY <1>b DEF NodeInv
  <1> DEFINE x == thread[n][th]
             y == [x EXCEPT !.at = "update", !.topic = t, !.target = is_target(n)]
  <1>1. /\ thread'[n] = [thread[n] EXCEPT ![th] = y]
        /\ UNCHANGED <<inform, starts, up, graph, list, core, analyzer, csv, spoiled>>
        /\ Spins(n) /\ x.at = "idle"
    BY <1>b DEF call, Shape
  <1>2. x \in ThreadType(n)  BY <1>c DEF NodeType
  <1>3. /\ y \in ThreadType(n) /\ y.at = "update" /\ y.topic = t
        /\ y.target = is_target(n) /\ y.rt = x.rt /\ y.cores = x.cores
    <2>1. is_target(n) \in BOOLEAN  BY DEF is_target
    <2> HIDE DEF x
    <2>2. QED  BY <1>2, <2>1 DEF ThreadType
  <1>4. is_target(n) <=> graph[n] = n + 1
    <2>1. graph[n] \in 0..N  BY <1>c DEF NodeType
    <2>2. QED  BY <2>1 DEF is_target, get_target
  <1> HIDE DEF y
  <1>5. /\ thread'[n] \in [Threads[n] -> ThreadType(n)]
        /\ thread'[n][th] = y
        /\ \A o \in Threads[n] : o # th => thread'[n][o] = thread[n][o]
    BY <1>1, <1>3, <1>c DEF NodeType
  <1> USE <1>1
  <1>6. NodeType(n)'  BY <1>5, <1>c DEF NodeType
  <1>7. Spins(n)'  BY DEF Spins
  <1>8. Fresh(n)'  BY <1>7, <1>c DEF Fresh
  <1>9. InCall(n)'
    <2>1. \A o \in Threads[n] : thread[n][o].at # "idle" => thread[n][o].topic # t
      BY DEF call
    <2>2. QED  BY <1>3, <1>5, <1>c, <2>1 DEF InCall
  <1>10. Counted(n)'  BY <1>c DEF Counted
  <1>11. Turn(n)'
    <2>1. y.target => graph[n] <= n + 1 /\ \A k \in Nodes : k > n => k \in inform
      BY <1>a, <1>3, <1>4, <1>c DEF Turn, Nodes
    <2>2. QED  BY <1>5, <1>c, <2>1 DEF Turn
  <1>12. ASSUME Single(n)  PROVE SingleInv(n)'
    <2>a. SingleInv(n) /\ Threads[n] = {th}  BY <1>12, <1>b DEF Single, NodeInv
    <2>1. CoreInv(n)'  BY <1>7, <1>3, <1>5, <2>a DEF SingleInv, CoreInv
    <2>2. PolicyInv(n)'
      <3>1. PolicyInv(n) /\ graph[n] \in 0..N  BY <2>a, <1>c DEF SingleInv, NodeType
      <3>2. ASSUME NEW u \in SubTopic[n], analyzer'[n][u].rt
            PROVE  /\ graph'[n] <= n + 1
                   /\ graph'[n] > n \/ thread'[n][th].target =>
                         thread'[n][th].rt /\ thread'[n][th].cores = core'[n]
                   /\ graph'[n] > n => thread'[n][th].target
        <4>1. /\ graph[n] <= n + 1
              /\ graph[n] > n => x.rt /\ x.cores = core[n]
          BY <3>1, <3>2 DEF PolicyInv
        <4>2. y.target <=> graph[n] > n  BY <1>3, <1>4, <3>1, <4>1
        <4>3. QED  BY <1>3, <1>5, <4>1, <4>2
      <3>3. QED  BY <1>3, <1>5, <2>a, <3>2 DEF PolicyInv
    <2>3. FilesInv(n)'  BY <1>7, <2>a DEF SingleInv, FilesInv
    <2>4. DoneInv(n)'  
      BY <1>a, <1>3, <1>4, <1>5, <2>a, <1>c DEF SingleInv, DoneInv, NodeType, Spins
    <2>5. QED  BY <2>1, <2>2, <2>3, <2>4 DEF SingleInv
  <1>13. QED  BY <1>6, <1>8, <1>9, <1>10, <1>11, <1>12 DEF NodeInv, Single

\* begin, the node is not the target: only the thread goes on.
LEMMA BeginOtherKeeps ==
    ASSUME IInv, NEW n \in Nodes, NEW th \in Threads[n], begin(n, th), ~thread[n][th].target
    PROVE  NodeInv(n)'
  <1>a. Constants(n)  BY ConstantsHold
  <1> USE <1>a DEF Constants
  <1>b. NodeInv(n) /\ Shape /\ inform \subseteq Nodes /\ Suffix  BY DEF IInv
  <1>c. NodeType(n) /\ Fresh(n) /\ InCall(n) /\ Counted(n) /\ Turn(n)  BY <1>b DEF NodeInv
  <1> DEFINE x == thread[n][th]
             y == [x EXCEPT !.at = "callback"]
  <1>1. /\ thread'[n] = [thread[n] EXCEPT ![th] = y]
        /\ UNCHANGED <<inform, starts, up, graph, list, core, analyzer, csv, spoiled>>
        /\ x.at = "begin"
    BY <1>b DEF begin, Goes, Shape
  <1>2. x \in ThreadType(n)  BY <1>c DEF NodeType
  <1>3. /\ y \in ThreadType(n) /\ y.at = "callback" /\ y.topic = x.topic
        /\ y.target = x.target /\ y.rt = x.rt /\ y.cores = x.cores /\ ~y.target
    BY <1>2 DEF ThreadType
  <1> HIDE DEF y
  <1>5. /\ thread'[n] \in [Threads[n] -> ThreadType(n)]
        /\ thread'[n][th] = y
        /\ \A o \in Threads[n] : o # th => thread'[n][o] = thread[n][o]
    BY <1>1, <1>3, <1>c DEF NodeType
  <1> USE <1>1
  <1>6. NodeType(n)'  BY <1>5, <1>c DEF NodeType
  <1>7. Spins(n) /\ Spins(n)'  BY <1>c DEF Fresh, Spins
  <1>8. Fresh(n)'  BY <1>7, <1>c DEF Fresh
  <1>9. InCall(n)'  BY <1>3, <1>5, <1>c DEF InCall
  <1>10. Counted(n)'  BY <1>c DEF Counted
  <1>11. Turn(n)'  BY <1>3, <1>5, <1>c DEF Turn
  <1>12. ASSUME Single(n)  PROVE SingleInv(n)'
    <2>a. SingleInv(n) /\ Threads[n] = {th}  BY <1>12, <1>b DEF Single, NodeInv
    <2>1. CoreInv(n)'  BY <1>7, <1>3, <1>5, <2>a DEF SingleInv, CoreInv
    <2>2. PolicyInv(n)'  BY <1>3, <1>5, <2>a DEF SingleInv, PolicyInv
    <2>3. FilesInv(n)'  BY <1>7, <2>a DEF SingleInv, FilesInv
    <2>4. DoneInv(n)'  BY <1>3, <1>5, <2>a DEF SingleInv, DoneInv
    <2>5. QED  BY <2>1, <2>2, <2>3, <2>4 DEF SingleInv
  <1>13. QED  BY <1>6, <1>8, <1>9, <1>10, <1>11, <1>12 DEF NodeInv, Single

\* begin, the node is the target: the thread takes the real-time policy and the
\* Analyzer the core count of the node.
LEMMA BeginTargetKeeps ==
    ASSUME IInv, NEW n \in Nodes, NEW th \in Threads[n], begin(n, th), thread[n][th].target
    PROVE  NodeInv(n)'
  <1>a. Constants(n)  BY ConstantsHold
  <1> USE <1>a DEF Constants
  <1>b. NodeInv(n) /\ Shape /\ inform \subseteq Nodes /\ Suffix  BY DEF IInv
  <1>c. NodeType(n) /\ Fresh(n) /\ InCall(n) /\ Counted(n) /\ Turn(n)  BY <1>b DEF NodeInv
  <1> DEFINE x == thread[n][th]
             t == x.topic
             c == core[n]
             a0 == analyzer[n][t]
             a1 == IF check_need_refresh(a0, c) THEN core_refresh(a0, c) ELSE a0
             b == [a1 EXCEPT !.rt = TRUE]
             y0 == set_rt(a0, x, c)
             y == [y0 EXCEPT !.at = "callback", !.in_range = is_in_range(a1)]
  <1>1. /\ thread'[n] = [thread[n] EXCEPT ![th] = y]
        /\ analyzer'[n] = [analyzer[n] EXCEPT ![t] = b]
        /\ csv' = IF check_need_refresh(a0, c) THEN [csv EXCEPT ![n][t][c] = 0] ELSE csv
        /\ UNCHANGED <<inform, starts, up, graph, list, core, spoiled>>
        /\ x.at = "begin"
    BY <1>b DEF begin, begin_target, Shape
  <1>2. /\ x \in ThreadType(n) /\ t \in SubTopic[n] /\ c \in CoreCounts(n) /\ a0 \in AnalyzerType(n)
        /\ csv[n][t] \in [CoreCounts(n) -> 0..MaxTimes]
    BY <1>1, <1>c DEF NodeType, InCall
  <1>3. /\ a1 \in AnalyzerType(n) /\ a1.core = c /\ a1.made = a0.made
        /\ a1.counter = IF a0.core # c THEN 0 ELSE a0.counter
    <2>1. 0 \in 0..max_analyze_times  BY DEF max_analyze_times
    <2> HIDE DEF a0, c
    <2>2. QED  BY <1>2, <2>1 DEF check_need_refresh, core_refresh, AnalyzerType
  <1>4. /\ b \in AnalyzerType(n) /\ b.core = c /\ b.made = a0.made /\ b.rt
        /\ b.counter = IF a0.core # c THEN 0 ELSE a0.counter
    <2> HIDE DEF a1
    <2>1. QED  BY <1>3 DEF AnalyzerType
  <1>5. /\ y0 \in ThreadType(n) /\ y0.topic = t /\ y0.target
        /\ ~a0.rt => y0.rt /\ (c >= 1 => y0.cores = c)
        /\ a0.rt => y0.rt = x.rt /\ y0.cores = x.cores
    <2>1. c >= 1 => c \in 0..Core[n]  BY <1>2 DEF CoreCounts
    <2> HIDE DEF x, c, a0
    <2>2. x.target  BY DEF x
    <2>3. QED  BY <1>2, <2>1, <2>2 DEF set_rt, set_affinity, ThreadType
  <1>6. /\ y \in ThreadType(n) /\ y.at = "callback" /\ y.topic = t /\ y.target
        /\ y.in_range = is_in_range(b)
        /\ ~a0.rt => y.rt /\ (c >= 1 => y.cores = c)
        /\ a0.rt => y.rt = x.rt /\ y.cores = x.cores
    <2>1. is_in_range(a1) \in BOOLEAN /\ is_in_range(a1) = is_in_range(b)
      <3> HIDE DEF a1, b
      <3>1. QED  BY <1>3, <1>4 DEF is_in_range
    <2> HIDE DEF y0, a0, a1, b, x, c
    <2>2. QED  BY <1>5, <2>1 DEF ThreadType
  <1>7. /\ csv'[n] \in [SubTopic[n] -> [CoreCounts(n) -> 0..MaxTimes]]
        /\ csv'[n][t][c] = IF a0.core # c THEN 0 ELSE csv[n][t][c]
        /\ \A d \in CoreCounts(n) : d # c => csv'[n][t][d] = csv[n][t][d]
        /\ \A u \in SubTopic[n] : u # t => csv'[n][u] = csv[n][u]
    <2>1. CASE check_need_refresh(a0, c)
      <3>1. csv'[n] = [csv[n] EXCEPT ![t] = [csv[n][t] EXCEPT ![c] = 0]]
        BY <1>1, <1>b, <2>1 DEF Shape
      <3> HIDE DEF c, t
      <3>2. [csv[n][t] EXCEPT ![c] = 0] \in [CoreCounts(n) -> 0..MaxTimes]  BY <1>2
      <3>3. QED  BY <1>2, <1>c, <2>1, <3>1, <3>2 DEF NodeType, check_need_refresh
    <2>2. CASE ~check_need_refresh(a0, c)
      BY <1>1, <1>c, <2>2 DEF NodeType, check_need_refresh
    <2>3. QED  BY <2>1, <2>2
  <1> HIDE DEF y, y0, b, a1
  <1>8. /\ thread'[n] \in [Threads[n] -> ThreadType(n)]
        /\ thread'[n][th] = y
        /\ \A o \in Threads[n] : o # th => thread'[n][o] = thread[n][o]
    BY <1>1, <1>6, <1>c DEF NodeType
  <1>9. /\ analyzer'[n] \in [SubTopic[n] -> AnalyzerType(n)]
        /\ analyzer'[n][t] = b
        /\ \A u \in SubTopic[n] : u # t => analyzer'[n][u] = analyzer[n][u]
    BY <1>1, <1>2, <1>4, <1>c DEF NodeType
  <1>10. NodeType(n)'  BY <1>1, <1>7, <1>8, <1>9, <1>c DEF NodeType
  <1>11. Spins(n) /\ Spins(n)'
    <2>1. Spins(n)  BY <1>1, <1>c DEF Fresh
    <2>2. QED  BY <1>1, <1>2, <1>4, <1>9, <2>1 DEF Spins
  <1>12. Fresh(n)'
    <2>1. n \in up'  BY <1>11 DEF Spins
    <2>2. QED  BY <1>11, <2>1 DEF Fresh
  <1>13. InCall(n)'
    <2>1. ASSUME NEW o \in Threads[n], o # th, thread[n][o].at # "idle"
          PROVE  /\ thread[n][o].topic # t /\ thread[n][o].topic \in SubTopic[n]
                 /\ analyzer'[n][thread[n][o].topic] = analyzer[n][thread[n][o].topic]
      BY <1>1, <1>9, <1>c, <2>1 DEF InCall
    <2>2. QED  BY <1>1, <1>2, <1>6, <1>8, <1>9, <1>c, <2>1 DEF InCall
  <1>14. Counted(n)'
    <2>1. ASSUME NEW u \in SubTopic[n], analyzer'[n][u].made
          PROVE  csv'[n][u][analyzer'[n][u].core] =
                    IF analyzer'[n][u].counter <= IgnoreTimes THEN 0
                    ELSE analyzer'[n][u].counter - IgnoreTimes
      <3>1. CASE u = t
        <4>1. analyzer'[n][u] = b /\ b.core = c /\ a0.made  BY <1>4, <1>9, <2>1, <3>1
        <4>2. CASE a0.core # c  BY <1>4, <1>7, <3>1, <4>1, <4>2
        <4>3. CASE a0.core = c
          <5>1. csv[n][t][c] = IF a0.counter <= IgnoreTimes THEN 0 ELSE a0.counter - IgnoreTimes
            BY <1>2, <1>c, <4>1, <4>3 DEF Counted
          <5>2. b.counter = a0.counter /\ csv'[n][t][c] = csv[n][t][c]  BY <1>4, <1>7, <4>3
          <5>3. QED  BY <3>1, <4>1, <5>1, <5>2
        <4>4. QED  BY <4>2, <4>3
      <3>2. CASE u # t  BY <1>7, <1>9, <1>c, <2>1, <3>2 DEF Counted
      <3>3. QED  BY <3>1, <3>2
    <2>2. QED  BY <2>1 DEF Counted
  <1>15. Turn(n)'  BY <1>1, <1>6, <1>8, <1>c DEF Turn
  <1>16. ASSUME Single(n)  PROVE SingleInv(n)'
    <2>a. SingleInv(n) /\ Threads[n] = {th}  BY <1>16, <1>b DEF Single, NodeInv
    <2>b. CoreInv(n) /\ PolicyInv(n) /\ FilesInv(n) /\ DoneInv(n)  BY <2>a DEF SingleInv
    <2>1. CoreInv(n)'  BY <1>1, <1>6, <1>8, <1>11, <2>a, <2>b DEF CoreInv
    <2>2. PolicyInv(n)'
      <3>1. c >= 1  BY <1>11, <2>b DEF CoreInv
      <3>2. a0.rt => x.rt /\ x.cores = c  BY <1>2, <2>b DEF PolicyInv
      <3>3. y.rt /\ y.cores = c  BY <1>2, <1>6, <3>1, <3>2 DEF AnalyzerType
      <3>4. graph[n] <= n + 1  BY <1>c DEF Turn
      <3>5. graph'[n] <= n + 1 /\ core'[n] = c
        BY <1>1, <3>4
      <3>6. /\ thread'[n][th] = y /\ y.target /\ y.topic = t
            /\ analyzer'[n][t].rt /\ analyzer'[n][t].core = c
        BY <1>4, <1>6, <1>8, <1>9
      <3>7. \A o \in Threads[n] : o = th  BY <2>a
      <3>8. QED  BY <3>3, <3>5, <3>6, <3>7 DEF PolicyInv
    <2>3. FilesInv(n)'
      <3>1. ASSUME NEW u \in SubTopic[n], NEW d \in 1..Core[n], d > core[n]
            PROVE  csv'[n][u][d] = MaxTimes
        <4>1. d \in CoreCounts(n) /\ d # c  BY <1>2, <3>1 DEF CoreCounts
        <4>2. csv'[n][u][d] = csv[n][u][d]  BY <1>7, <4>1
        <4>3. QED  BY <1>11, <2>b, <3>1, <4>2 DEF FilesInv
      <3>2. ASSUME NEW u \in SubTopic[n], u \notin list[n]
            PROVE  analyzer'[n][u].core = c /\ analyzer'[n][u].counter = max_analyze_times
        <4>1. analyzer[n][u].core = c /\ analyzer[n][u].counter = max_analyze_times
          BY <1>11, <2>b, <3>2 DEF FilesInv
        <4>2. QED  BY <1>4, <1>9, <4>1
      <3>3. QED  BY <1>1, <3>1, <3>2 DEF FilesInv
    <2>4. DoneInv(n)'  BY <1>1, <2>b DEF DoneInv
    <2>5. QED  BY <2>1, <2>2, <2>3, <2>4 DEF SingleInv
  <1>17. QED  BY <1>10, <1>12, <1>13, <1>14, <1>15, <1>16 DEF NodeInv, Single

\* A thread that leaves call() keeps its policy and its cores.
LEMMA ReturnedThread ==
    ASSUME NEW n \in Nodes, NEW z \in ThreadType(n)
    PROVE  /\ Returned(z) \in ThreadType(n)
           /\ Returned(z).at = "idle" /\ ~Returned(z).target
           /\ Returned(z).rt = z.rt /\ Returned(z).cores = z.cores
  <1>1. Constants(n)  BY ConstantsHold
  <1>2. Idle \in ThreadType(n) /\ Idle.at = "idle" /\ ~Idle.target
    BY <1>1 DEF Idle, ThreadType, AllCores, Constants
  <1>3. QED  BY <1>2 DEF Returned, ThreadType

\* After the callback of a node that is not the target the queue is set back.
LEMMA NotTargetKeeps ==
    ASSUME IInv, NEW n \in Nodes, NEW th \in Threads[n], not_target(n, th)
    PROVE  NodeInv(n)'
  <1>a. Constants(n)  BY ConstantsHold
  <1> USE <1>a DEF Constants
  <1>b. NodeInv(n) /\ Shape /\ inform \subseteq Nodes /\ Suffix  BY DEF IInv
  <1>c. NodeType(n) /\ Fresh(n) /\ InCall(n) /\ Counted(n) /\ Turn(n)  BY <1>b DEF NodeInv
  <1> DEFINE x == thread[n][th]
             t == x.topic
             a0 == analyzer[n][t]
             b == [a0 EXCEPT !.rt = FALSE]
             z == set_fair(a0, x)
             y == Returned(z)
  <1>1. /\ thread'[n] = [thread[n] EXCEPT ![th] = y]
        /\ analyzer'[n] = [analyzer[n] EXCEPT ![t] = b]
        /\ UNCHANGED <<inform, starts, up, graph, list, core, csv, spoiled>>
        /\ x.at = "callback" /\ ~x.target
    BY <1>b DEF not_target, Shape
  <1>2. x \in ThreadType(n) /\ t \in SubTopic[n] /\ a0 \in AnalyzerType(n)
    BY <1>1, <1>c DEF NodeType, InCall
  <1>d. z \in ThreadType(n) /\ (~a0.rt => z = x)
    <2> HIDE DEF x, a0
    <2>1. CASE a0.rt
      <3>1. z = [x EXCEPT !.rt = FALSE, !.cores = AllCores]  BY <2>1 DEF set_fair
      <3>2. AllCores \in 0..Core[n]  BY DEF AllCores
      <3> HIDE DEF z
      <3>3. QED  BY <1>2, <2>1, <3>1, <3>2 DEF ThreadType
    <2>2. CASE ~a0.rt  BY <1>2, <2>2 DEF set_fair
    <2>3. QED  BY <2>1, <2>2
  <1>3. /\ y \in ThreadType(n) /\ y.at = "idle" /\ ~y.target
        /\ ~a0.rt => y.rt = x.rt /\ y.cores = x.cores
    <2> HIDE DEF z
    <2>1. QED  BY <1>d, ReturnedThread
  <1>4. /\ b \in AnalyzerType(n) /\ b.core = a0.core /\ b.made = a0.made /\ ~b.rt
        /\ b.counter = a0.counter
    <2> HIDE DEF a0
    <2>1. QED  BY <1>2 DEF AnalyzerType
  <1> HIDE DEF y, z, b
  <1>5. /\ thread'[n] \in [Threads[n] -> ThreadType(n)]
        /\ thread'[n][th] = y
        /\ \A o \in Threads[n] : o # th => thread'[n][o] = thread[n][o]
    BY <1>1, <1>3, <1>c DEF NodeType
  <1>6. /\ analyzer'[n] \in [SubTopic[n] -> AnalyzerType(n)]
        /\ analyzer'[n][t] = b
        /\ \A u \in SubTopic[n] : u # t => analyzer'[n][u] = analyzer[n][u]
    BY <1>1, <1>2, <1>4, <1>c DEF NodeType
  <1>7. \A u \in SubTopic[n] :
            /\ analyzer'[n][u].made = analyzer[n][u].made
            /\ analyzer'[n][u].core = analyzer[n][u].core
            /\ analyzer'[n][u].counter = analyzer[n][u].counter
            /\ analyzer'[n][u].rt => analyzer[n][u].rt
    BY <1>2, <1>4, <1>6
  <1>8. Spins(n) /\ Spins(n)'
    <2>1. Spins(n)  BY <1>1, <1>c DEF Fresh
    <2>2. QED  BY <1>1, <1>7, <2>1 DEF Spins
  <1>9. NodeType(n)'  BY <1>1, <1>5, <1>6, <1>c DEF NodeType
  <1>10. Fresh(n)'
    <2>1. n \in up'  BY <1>8 DEF Spins
    <2>2. QED  BY <1>8, <2>1 DEF Fresh
  <1>11. InCall(n)'
    <2>1. ASSUME NEW o \in Threads[n], o # th, thread[n][o].at # "idle"
          PROVE  /\ thread[n][o].topic # t /\ thread[n][o].topic \in SubTopic[n]
                 /\ analyzer'[n][thread[n][o].topic] = analyzer[n][thread[n][o].topic]
      BY <1>1, <1>6, <1>c, <2>1 DEF InCall
    <2>2. QED  BY <1>3, <1>5, <1>c, <2>1 DEF InCall
  <1>12. Counted(n)'  BY <1>1, <1>7, <1>c DEF Counted
  <1>13. Turn(n)'  BY <1>1, <1>3, <1>5, <1>c DEF Turn
  <1>14. ASSUME Single(n)  PROVE SingleInv(n)'
    <2>a. SingleInv(n) /\ Threads[n] = {th}  BY <1>14, <1>b DEF Single, NodeInv
    <2>b. CoreInv(n) /\ PolicyInv(n) /\ FilesInv(n) /\ DoneInv(n)  BY <2>a DEF SingleInv
    <2>1. CoreInv(n)'  BY <1>1, <1>3, <1>5, <1>8, <2>a, <2>b DEF CoreInv
    <2>2. PolicyInv(n)'
      <3>1. ASSUME NEW u \in SubTopic[n], analyzer'[n][u].rt
            PROVE  graph[n] <= n + 1 /\ ~(graph[n] > n)
        BY <1>1, <1>7, <2>b, <3>1 DEF PolicyInv
      <3>2. QED  BY <1>1, <1>3, <1>5, <2>a, <3>1 DEF PolicyInv
    <2>3. FilesInv(n)'  BY <1>1, <1>7, <1>8, <2>b DEF FilesInv
    <2>4. DoneInv(n)'  BY <1>1, <1>3, <1>5, <1>7, <2>a, <2>b DEF DoneInv
    <2>5. QED  BY <2>1, <2>2, <2>3, <2>4 DEF SingleInv
  <1>15. QED  BY <1>9, <1>10, <1>11, <1>12, <1>13, <1>14 DEF NodeInv, Single

\* end_time adds a line for every callback but the first IgnoreTimes.
LEMMA EndTimeKeeps ==
    ASSUME IInv, NEW n \in Nodes, NEW th \in Threads[n], end_time(n, th)
    PROVE  NodeInv(n)'
  <1>a. Constants(n)  BY ConstantsHold
  <1> USE <1>a DEF Constants
  <1>b. NodeInv(n) /\ Shape /\ inform \subseteq Nodes /\ Suffix  BY DEF IInv
  <1>c. NodeType(n) /\ Fresh(n) /\ InCall(n) /\ Counted(n) /\ Turn(n)  BY <1>b DEF NodeInv
  <1> DEFINE x == thread[n][th]
             t == x.topic
             a0 == analyzer[n][t]
             c == a0.core
             b == [a0 EXCEPT !.counter = a0.counter + 1]
             y == Returned(x)
  <1>1. /\ thread'[n] = [thread[n] EXCEPT ![th] = y]
        /\ UNCHANGED <<inform, starts, up, graph, list, core, spoiled>>
        /\ csv' = IF IgnoreTimes <= a0.counter THEN [csv EXCEPT ![n][t][c] = @ + 1] ELSE csv
        /\ analyzer' = IF is_in_range(a0) THEN [analyzer EXCEPT ![n][t].counter = @ + 1]
                       ELSE analyzer
        /\ x.at = "callback" /\ x.target /\ x.in_range
    BY <1>b DEF end_time, Returns, Shape
  <1>2. /\ x \in ThreadType(n) /\ t \in SubTopic[n] /\ a0 \in AnalyzerType(n)
        /\ csv[n][t] \in [CoreCounts(n) -> 0..MaxTimes]
    BY <1>1, <1>c DEF NodeType, InCall
  <1>3. /\ y \in ThreadType(n) /\ y.at = "idle" /\ ~y.target
        /\ y.rt = x.rt /\ y.cores = x.cores
    BY <1>2, ReturnedThread
  <1>d. /\ a0.counter < max_analyze_times /\ a0.counter \in Nat /\ max_analyze_times \in Nat
        /\ c \in CoreCounts(n) /\ a0.made
    <2>1. is_in_range(a0)  BY <1>1, <1>c DEF InCall
    <2>2. a0.made  BY <1>1, <1>2, <1>c DEF Fresh, Spins
    <2>3. QED  BY <1>2, <2>1, <2>2 DEF is_in_range, AnalyzerType, max_analyze_times
  <1>e. csv[n][t][c] = IF a0.counter <= IgnoreTimes THEN 0 ELSE a0.counter - IgnoreTimes
    BY <1>2, <1>d, <1>c DEF Counted
  <1>f. analyzer'[n] = [analyzer[n] EXCEPT ![t] = b]
    BY <1>1, <1>b, <1>d DEF Shape, is_in_range
  <1>4. /\ b \in AnalyzerType(n) /\ b.core = c /\ b.made = a0.made /\ b.rt = a0.rt
        /\ b.counter = a0.counter + 1
    <2>1. a0.counter + 1 \in 0..max_analyze_times  BY <1>d
    <2> HIDE DEF a0
    <2>2. QED  BY <1>2, <2>1 DEF AnalyzerType
  <1> HIDE DEF y, b
  <1>5. /\ thread'[n] \in [Threads[n] -> ThreadType(n)]
        /\ thread'[n][th] = y
        /\ \A o \in Threads[n] : o # th => thread'[n][o] = thread[n][o]
    BY <1>1, <1>3, <1>c DEF NodeType
  <1>6. /\ analyzer'[n] \in [SubTopic[n] -> AnalyzerType(n)]
        /\ analyzer'[n][t] = b
        /\ \A u \in SubTopic[n] : u # t => analyzer'[n][u] = analyzer[n][u]
    BY <1>f, <1>2, <1>4, <1>c DEF NodeType
  <1>7. \A u \in SubTopic[n] :
            /\ analyzer'[n][u].made = analyzer[n][u].made
            /\ analyzer'[n][u].core = analyzer[n][u].core
            /\ analyzer'[n][u].rt = analyzer[n][u].rt
    BY <1>2, <1>4, <1>6
  <1>g. /\ csv'[n] \in [SubTopic[n] -> [CoreCounts(n) -> 0..MaxTimes]]
        /\ csv'[n][t][c] = IF IgnoreTimes <= a0.counter THEN csv[n][t][c] + 1 ELSE csv[n][t][c]
        /\ \A d \in CoreCounts(n) : d # c => csv'[n][t][d] = csv[n][t][d]
        /\ \A u \in SubTopic[n] : u # t => csv'[n][u] = csv[n][u]
    <2>1. CASE IgnoreTimes <= a0.counter
      <3>1. csv'[n] = [csv[n] EXCEPT ![t] = [csv[n][t] EXCEPT ![c] = csv[n][t][c] + 1]]
        BY <1>1, <1>b, <2>1 DEF Shape
      <3>2. csv[n][t][c] + 1 \in 0..MaxTimes
        BY <1>d, <1>e, <2>1 DEF max_analyze_times
      <3> HIDE DEF c, t
      <3>3. [csv[n][t] EXCEPT ![c] = csv[n][t][c] + 1] \in [CoreCounts(n) -> 0..MaxTimes]
        BY <1>2, <3>2
      <3>4. QED  BY <1>2, <1>d, <1>c, <2>1, <3>1, <3>3 DEF NodeType
    <2>2. CASE ~(IgnoreTimes <= a0.counter)
      BY <1>1, <1>c, <2>2 DEF NodeType
    <2>3. QED  BY <2>1, <2>2
  <1>8. Spins(n) /\ Spins(n)'
    <2>1. Spins(n)  BY <1>1, <1>c DEF Fresh
    <2>2. QED  BY <1>1, <1>7, <2>1 DEF Spins
  <1>9. NodeType(n)'  BY <1>1, <1>5, <1>6, <1>g, <1>c DEF NodeType
  <1>10. Fresh(n)'
    <2>1. n \in up'  BY <1>8 DEF Spins
    <2>2. QED  BY <1>8, <2>1 DEF Fresh
  <1>11. InCall(n)'
    <2>1. ASSUME NEW o \in Threads[n], o # th, thread[n][o].at # "idle"
          PROVE  /\ thread[n][o].topic # t /\ thread[n][o].topic \in SubTopic[n]
                 /\ analyzer'[n][thread[n][o].topic] = analyzer[n][thread[n][o].topic]
      BY <1>1, <1>6, <1>c, <2>1 DEF InCall
    <2>2. QED  BY <1>3, <1>5, <1>c, <2>1 DEF InCall
  <1>12. Counted(n)'
    <2>1. ASSUME NEW u \in SubTopic[n], analyzer'[n][u].made
          PROVE  csv'[n][u][analyzer'[n][u].core] =
                    IF analyzer'[n][u].counter <= IgnoreTimes THEN 0
                    ELSE analyzer'[n][u].counter - IgnoreTimes
      <3>1. CASE u = t
        <4> HIDE DEF a0, c, t
        <4>1. csv'[n][t][c] = IF a0.counter + 1 <= IgnoreTimes THEN 0
                              ELSE a0.counter + 1 - IgnoreTimes
          <5>1. CASE IgnoreTimes <= a0.counter
            <6>1. csv'[n][t][c] = csv[n][t][c] + 1  BY <1>g, <5>1
            <6>2. csv[n][t][c] = a0.counter - IgnoreTimes  BY <1>d, <1>e, <5>1
            <6>3. QED  BY <1>d, <5>1, <6>1, <6>2
          <5>2. CASE ~(IgnoreTimes <= a0.counter)  BY <1>d, <1>e, <1>g, <5>2
          <5>3. QED  BY <5>1, <5>2
        <4>2. /\ analyzer'[n][u].core = c /\ analyzer'[n][u].counter = a0.counter + 1
              /\ csv'[n][u] = csv'[n][t]
          BY <1>4, <1>6, <3>1
        <4>3. QED  BY <1>d, <4>1, <4>2
      <3>2. CASE u # t  BY <1>6, <1>g, <1>c, <2>1, <3>2 DEF Counted
      <3>3. QED  BY <3>1, <3>2
    <2>2. QED  BY <2>1 DEF Counted
  <1>13. Turn(n)'  BY <1>1, <1>3, <1>5, <1>c DEF Turn
  <1>14. ASSUME Single(n)  PROVE SingleInv(n)'
    <2>a. SingleInv(n) /\ Threads[n] = {th}  BY <1>14, <1>b DEF Single, NodeInv
    <2>b. CoreInv(n) /\ PolicyInv(n) /\ FilesInv(n) /\ DoneInv(n)  BY <2>a DEF SingleInv
    <2>c. c = core[n]  BY <1>1, <2>b DEF PolicyInv
    <2>1. CoreInv(n)'  BY <1>1, <1>3, <1>5, <1>8, <2>a, <2>b DEF CoreInv
    <2>2. PolicyInv(n)'  BY <1>1, <1>3, <1>5, <1>7, <2>a, <2>b DEF PolicyInv
    <2>3. FilesInv(n)'
      <3>1. ASSUME NEW u \in SubTopic[n], NEW d \in 1..Core[n], d > core[n]
            PROVE  csv'[n][u][d] = MaxTimes
        <4>1. d \in CoreCounts(n) /\ d # c  BY <1>d, <2>c, <3>1 DEF CoreCounts
        <4>2. csv'[n][u][d] = csv[n][u][d]  BY <1>g, <4>1
        <4>3. QED  BY <1>8, <2>b, <3>1, <4>2 DEF FilesInv
      <3>2. ASSUME NEW u \in SubTopic[n], u \notin list[n]
            PROVE  analyzer'[n][u].core = core[n] /\ analyzer'[n][u].counter = max_analyze_times
        <4>1. analyzer[n][u].core = core[n] /\ analyzer[n][u].counter = max_analyze_times
          BY <1>8, <2>b, <3>2 DEF FilesInv
        <4>2. u # t  BY <1>d, <4>1
        <4>3. QED  BY <1>6, <4>1, <4>2
      <3>3. QED  BY <1>1, <3>1, <3>2 DEF FilesInv
    <2>4. DoneInv(n)'  BY <1>1, <2>b DEF DoneInv
    <2>5. QED  BY <2>1, <2>2, <2>3, <2>4 DEF SingleInv
  <1>15. QED  BY <1>9, <1>10, <1>11, <1>12, <1>13, <1>14 DEF NodeInv, Single

\* finish_topic takes a topic off the list whose file is complete.
LEMMA FinishTopicKeeps ==
    ASSUME IInv, NEW n \in Nodes, NEW th \in Threads[n], finish_topic(n, th), is_in_node_graph(n)
    PROVE  NodeInv(n)'
  <1>a. Constants(n)  BY ConstantsHold
  <1> USE <1>a DEF Constants
  <1>b. NodeInv(n) /\ Shape /\ inform \subseteq Nodes /\ Suffix  BY DEF IInv
  <1>c. NodeType(n) /\ Fresh(n) /\ InCall(n) /\ Counted(n) /\ Turn(n)  BY <1>b DEF NodeInv
  <1> DEFINE x == thread[n][th]
             y == [x EXCEPT !.at = "empty"]
  <1>1. /\ thread'[n] = [thread[n] EXCEPT ![th] = y]
        /\ list'[n] = list[n] \ {x.topic}
        /\ UNCHANGED <<inform, starts, up, graph, core, analyzer, csv, spoiled>>
        /\ x.at = "callback" /\ x.target /\ ~x.in_range
    BY <1>b DEF finish_topic, Goes, Shape
  <1>2. x \in ThreadType(n) /\ x.topic \in SubTopic[n]  BY <1>1, <1>c DEF NodeType, InCall
  <1>3. /\ y \in ThreadType(n) /\ y.at = "empty" /\ y.target /\ y.topic = x.topic
        /\ y.rt = x.rt /\ y.cores = x.cores
    <2>1. x.target  BY <1>1
    <2> HIDE DEF x
    <2>2. QED  BY <1>2, <2>1 DEF ThreadType
  <1>4. ~is_in_range(analyzer[n][x.topic])  BY <1>1, <1>c DEF InCall
  <1> HIDE DEF y
  <1>5. /\ thread'[n] \in [Threads[n] -> ThreadType(n)]
        /\ thread'[n][th] = y
        /\ \A o \in Threads[n] : o # th => thread'[n][o] = thread[n][o]
    BY <1>1, <1>3, <1>c DEF NodeType
  <1>8. Spins(n) /\ Spins(n)'
    <2>1. Spins(n)  BY <1>1, <1>c DEF Fresh
    <2>2. QED  BY <1>1, <2>1 DEF Spins
  <1>9. NodeType(n)'  BY <1>1, <1>5, <1>c DEF NodeType
  <1>10. Fresh(n)'
    <2>1. n \in up'  BY <1>8 DEF Spins
    <2>2. QED  BY <1>8, <2>1 DEF Fresh
  <1>11. InCall(n)'  BY <1>1, <1>2, <1>3, <1>5, <1>c DEF InCall
  <1>12. Counted(n)'  BY <1>1, <1>c DEF Counted
  <1>13. Turn(n)'  BY <1>1, <1>3, <1>5, <1>c DEF Turn
  <1>14. ASSUME Single(n)  PROVE SingleInv(n)'
    <2>a. SingleInv(n) /\ Threads[n] = {th}  BY <1>14, <1>b DEF Single, NodeInv
    <2>b. CoreInv(n) /\ PolicyInv(n) /\ FilesInv(n) /\ DoneInv(n)  BY <2>a DEF SingleInv
    <2>1. CoreInv(n)'  BY <1>1, <1>3, <1>5, <1>8, <2>a, <2>b DEF CoreInv
    <2>2. PolicyInv(n)'  BY <1>1, <1>3, <1>5, <2>a, <2>b DEF PolicyInv
    <2>3. FilesInv(n)'
      <3>1. analyzer[n][x.topic].core = core[n]  BY <1>1, <2>b DEF PolicyInv
      <3>2. analyzer[n][x.topic].counter \in 0..max_analyze_times /\ max_analyze_times \in Nat
        BY <1>2, <1>c DEF NodeType, AnalyzerType, max_analyze_times
      <3>3. analyzer[n][x.topic].counter = max_analyze_times
        BY <1>4, <3>2 DEF is_in_range
      <3>4. QED  BY <1>1, <1>8, <2>b, <3>1, <3>3 DEF FilesInv
    <2>4. DoneInv(n)'  BY <1>1, <2>b DEF DoneInv
    <2>5. QED  BY <2>1, <2>2, <2>3, <2>4 DEF SingleInv
  <1>15. QED  BY <1>9, <1>10, <1>11, <1>12, <1>13, <1>14 DEF NodeInv, Single

\* finish_myself looks whether all the topics are done.
LEMMA FinishMyselfKeeps ==
    ASSUME IInv, NEW n \in Nodes, NEW th \in Threads[n], finish_myself(n, th)
    PROVE  NodeInv(n)'
  <1>a. Constants(n)  BY ConstantsHold
  <1> USE <1>a DEF Constants
  <1>b. NodeInv(n) /\ Shape /\ inform \subseteq Nodes /\ Suffix  BY DEF IInv
  <1>c. NodeType(n) /\ Fresh(n) /\ InCall(n) /\ Counted(n) /\ Turn(n)  BY <1>b DEF NodeInv
  <1> DEFINE x == thread[n][th]
             y == thread'[n][th]
  <1>1. /\ thread' = [thread EXCEPT ![n][th] = y]
        /\ UNCHANGED <<inform, starts, up, graph, list, core, analyzer, csv, spoiled>>
        /\ x.at = "empty"
    BY <1>b, <1>c DEF finish_myself, Goes, Returns, Shape, NodeType
  <1>2. x \in ThreadType(n) /\ x.topic \in SubTopic[n] /\ x.target
    BY <1>1, <1>c DEF NodeType, InCall
  <1>3. /\ y \in ThreadType(n)
        /\ \/ y.at = "idle" /\ ~y.target
           \/ /\ y.at = IF core[n] = 1 THEN "last" ELSE "next"
              /\ list[n] = {} /\ y.target /\ y.topic = x.topic
        /\ y.rt = x.rt /\ y.cores = x.cores
    <2>1. CASE is_empty_topic_list(n)
      <3> DEFINE w == IF core[n] = 1 THEN "last" ELSE "next"
      <3>1. y = [x EXCEPT !.at = w]
        BY <1>b, <1>c, <2>1 DEF finish_myself, Goes, Shape, NodeType
      <3>2. w \in {"last", "next"}  OBVIOUS
      <3> HIDE DEF x, y, w
      <3>3. y \in ThreadType(n) /\ y.at = w /\ y.target /\ y.topic = x.topic
            /\ y.rt = x.rt /\ y.cores = x.cores
        BY <1>2, <3>1, <3>2 DEF ThreadType
      <3>4. QED  BY <2>1, <3>3 DEF w, is_empty_topic_list
    <2>2. CASE ~is_empty_topic_list(n)
      <3>1. y = Returned(x)
        BY <1>b, <1>c, <2>2 DEF finish_myself, Returns, Shape, NodeType
      <3> HIDE DEF x, y
      <3>2. QED  BY <1>2, <3>1, ReturnedThread
    <2>3. QED  BY <2>1, <2>2
  <1>5. /\ thread'[n] \in [Threads[n] -> ThreadType(n)]
        /\ \A o \in Threads[n] : o # th => thread'[n][o] = thread[n][o]
    <2>1. thread'[n] = [thread[n] EXCEPT ![th] = y]  BY <1>1, <1>b DEF Shape
    <2>2. QED  BY <1>3, <1>c, <2>1 DEF NodeType
  <1> HIDE DEF x
  <1>8. Spins(n) /\ Spins(n)'
    <2>1. Spins(n)  BY <1>1, <1>c DEF Fresh, x
    <2>2. QED  BY <1>1, <2>1 DEF Spins
  <1>9. NodeType(n)'  BY <1>1, <1>5, <1>c DEF NodeType
  <1>10. Fresh(n)'
    <2>1. n \in up'  BY <1>8 DEF Spins
    <2>2. QED  BY <1>8, <2>1 DEF Fresh
  <1>11. InCall(n)'
    <2>1. y.at \in {"idle", "last", "next"} /\ (y.at = "idle" <=> ~y.target)
          /\ (y.at # "idle" => y.topic = x.topic)
      BY <1>3
    <2>2. ASSUME NEW o \in Threads[n], o # th, thread[n][o].at # "idle"
          PROVE  thread[n][o].topic # x.topic
      BY <1>1, <1>c, <2>2 DEF InCall, x
    <2>3. QED  BY <1>1, <1>2, <1>5, <1>c, <2>1, <2>2 DEF InCall
  <1>12. Counted(n)'  BY <1>1, <1>c DEF Counted
  <1>13. Turn(n)'
    <2>1. y.target => x.target  BY <1>2
    <2>2. QED  BY <1>1, <1>2, <1>5, <1>c, <2>1 DEF Turn, x
  <1>14. ASSUME Single(n)  PROVE SingleInv(n)'
    <2>a. SingleInv(n) /\ Threads[n] = {th}  BY <1>14, <1>b DEF Single, NodeInv
    <2>b. CoreInv(n) /\ PolicyInv(n) /\ FilesInv(n) /\ DoneInv(n)  BY <2>a DEF SingleInv
    <2>1. CoreInv(n)'
      <3>1. core[n] >= 1 /\ core[n] \in Int  BY <1>8, <1>c, <2>b DEF CoreInv, NodeType, CoreCounts
      <3>2. /\ y.at = "last" => core[n] = 1 /\ list[n] = {}
            /\ y.at = "next" => core[n] >= 2 /\ list[n] = {}
        BY <1>3, <3>1
      <3>3. QED  BY <1>1, <1>8, <2>a, <3>1, <3>2 DEF CoreInv
    <2>2. PolicyInv(n)'
      <3>1. y.at \in {"idle", "last", "next"} /\ (y.at # "idle" => y.target)  BY <1>3
      <3>2. QED  BY <1>1, <1>2, <1>3, <2>a, <2>b, <3>1 DEF PolicyInv, x
    <2>3. FilesInv(n)'  BY <1>1, <1>8, <2>b DEF FilesInv
    <2>4. DoneInv(n)'  BY <1>1, <1>2, <2>b DEF DoneInv, x
    <2>5. QED  BY <2>1, <2>2, <2>3, <2>4 DEF SingleInv
  <1>15. QED  BY <1>9, <1>10, <1>11, <1>12, <1>13, <1>14 DEF NodeInv, Single

\* last_core: every file of the node is complete when it goes into inform_rosch_.txt.
LEMMA LastCoreKeeps ==
    ASSUME IInv, NEW n \in Nodes, NEW th \in Threads[n], last_core(n, th)
    PROVE  NodeInv(n)'
  <1>a. Constants(n)  BY ConstantsHold
  <1> USE <1>a DEF Constants
  <1>b. NodeInv(n) /\ Shape /\ inform \subseteq Nodes /\ Suffix  BY DEF IInv
  <1>c. NodeType(n) /\ Fresh(n) /\ InCall(n) /\ Counted(n) /\ Turn(n)  BY <1>b DEF NodeInv
  <1> DEFINE x == thread[n][th]
             y == Returned(x)
  <1>1. /\ thread'[n] = [thread[n] EXCEPT ![th] = y]
        /\ graph'[n] = finish_node(graph[n], n)
        /\ inform' = inform \cup {n}
        /\ UNCHANGED <<starts, up, list, core, analyzer, csv, spoiled>>
        /\ x.at = "last"
    BY <1>b DEF last_core, Returns, Shape, informed
  <1>2. x \in ThreadType(n) /\ x.target  BY <1>1, <1>c DEF NodeType, InCall
  <1>3. y \in ThreadType(n) /\ y.at = "idle" /\ ~y.target
    BY <1>2, ReturnedThread
  <1>4. graph'[n] = (IF graph[n] <= n THEN graph[n] ELSE n) /\ graph[n] \in 0..N
    BY <1>1, <1>c, FinishNode DEF NodeType
  <1> HIDE DEF y
  <1>5. /\ thread'[n] \in [Threads[n] -> ThreadType(n)]
        /\ thread'[n][th] = y
        /\ \A o \in Threads[n] : o # th => thread'[n][o] = thread[n][o]
    BY <1>1, <1>3, <1>c DEF NodeType
  <1>8. Spins(n) /\ Spins(n)'
    <2>1. Spins(n)  BY <1>1, <1>c DEF Fresh
    <2>2. QED  BY <1>1, <2>1 DEF Spins
  <1>9. NodeType(n)'  BY <1>1, <1>4, <1>5, <1>c DEF NodeType
  <1>10. Fresh(n)'
    <2>1. n \in up'  BY <1>8 DEF Spins
    <2>2. QED  BY <1>8, <2>1 DEF Fresh
  <1>11. InCall(n)'  BY <1>1, <1>3, <1>5, <1>c DEF InCall
  <1>12. Counted(n)'  BY <1>1, <1>c DEF Counted
  <1>13. Turn(n)'
    <2>1. \A k \in Nodes : k > n => k \in inform  BY <1>1, <1>2, <1>c DEF Turn
    <2>2. \A k \in Nodes : k >= graph'[n] => k \in inform'
      BY <1>1, <1>4, <1>c, <2>1 DEF Turn, Nodes
    <2>3. QED  BY <1>1, <1>3, <1>4, <1>5, <1>c, <2>2 DEF Turn
  <1>14. ASSUME Single(n)  PROVE SingleInv(n)'
    <2>a. SingleInv(n) /\ Threads[n] = {th}  BY <1>14, <1>b DEF Single, NodeInv
    <2>b. CoreInv(n) /\ PolicyInv(n) /\ FilesInv(n) /\ DoneInv(n)  BY <2>a DEF SingleInv
    <2>c. core[n] = 1 /\ list[n] = {}  BY <1>1, <2>b DEF CoreInv
    <2>1. CoreInv(n)'  BY <1>1, <1>3, <1>5, <1>8, <2>a, <2>b DEF CoreInv
    <2>2. PolicyInv(n)'  BY <1>1, <1>3, <1>4, <1>5, <2>a, <2>b DEF PolicyInv
    <2>3. FilesInv(n)'  BY <1>1, <1>8, <2>b DEF FilesInv
    <2>4. DoneInv(n)'
      <3>1. ASSUME NEW u \in SubTopic[n], NEW c \in 1..Core[n]  PROVE csv[n][u][c] = MaxTimes
        <4>1. CASE c > core[n]  BY <1>8, <2>b, <4>1 DEF FilesInv
        <4>2. CASE c = core[n]
          <5>1. /\ analyzer[n][u].core = core[n] /\ analyzer[n][u].counter = max_analyze_times
                /\ analyzer[n][u].made
            BY <1>8, <2>b, <2>c DEF FilesInv, Spins
          <5>2. csv[n][u][core[n]] = IF max_analyze_times <= IgnoreTimes THEN 0
                                     ELSE max_analyze_times - IgnoreTimes
            BY <1>c, <5>1 DEF Counted
          <5>3. QED  BY <4>2, <5>2 DEF max_analyze_times
        <4>3. QED  BY <2>c, <4>1, <4>2
      <3>2. QED  BY <1>1, <1>3, <1>4, <1>5, <2>a, <3>1 DEF DoneInv
    <2>5. QED  BY <2>1, <2>2, <2>3, <2>4 DEF SingleInv
  <1>15. QED  BY <1>9, <1>10, <1>11, <1>12, <1>13, <1>14 DEF NodeInv, Single

\* next_core: the files of this core count are complete.
LEMMA NextCoreKeeps ==
    ASSUME IInv, NEW n \in Nodes, NEW th \in Threads[n], next_core(n, th), is_in_node_graph(n)
    PROVE  NodeInv(n)'
  <1>a. Constants(n)  BY ConstantsHold
  <1> USE <1>a DEF Constants
  <1>b. NodeInv(n) /\ Shape /\ inform \subseteq Nodes /\ Suffix  BY DEF IInv
  <1>c. NodeType(n) /\ Fresh(n) /\ InCall(n) /\ Counted(n) /\ Turn(n)  BY <1>b DEF NodeInv
  <1> DEFINE x == thread[n][th]
             z == set_affinity(x, core[n] - 1)
             y == Returned(z)
  <1>1. /\ thread'[n] = [thread[n] EXCEPT ![th] = y]
        /\ core'[n] = core[n] - 1
        /\ list'[n] = SubTopic[n]
        /\ UNCHANGED <<inform, starts, up, graph, analyzer, csv, spoiled>>
        /\ x.at = "next" /\ core[n] > CoreFloor
    BY <1>b DEF next_core, Shape
  <1>2. x \in ThreadType(n) /\ x.target /\ core[n] \in CoreFloor..Core[n]
    BY <1>1, <1>c DEF NodeType, InCall, CoreCounts
  <1>d. z \in ThreadType(n) /\ z.rt = x.rt /\ (core[n] >= 2 => z.cores = core[n] - 1)
    <2>1. core[n] - 1 >= 1 => core[n] - 1 \in 0..Core[n]  BY <1>2
    <2> HIDE DEF x
    <2>2. QED  BY <1>2, <2>1 DEF set_affinity, ThreadType
  <1>3. /\ y \in ThreadType(n) /\ y.at = "idle" /\ ~y.target
        /\ y.rt = x.rt /\ (core[n] >= 2 => y.cores = core[n] - 1)
    <2> HIDE DEF z
    <2>1. QED  BY <1>d, ReturnedThread
  <1> HIDE DEF y
  <1>5. /\ thread'[n] \in [Threads[n] -> ThreadType(n)]
        /\ thread'[n][th] = y
        /\ \A o \in Threads[n] : o # th => thread'[n][o] = thread[n][o]
    BY <1>1, <1>3, <1>c DEF NodeType
  <1>8. Spins(n) /\ Spins(n)'
    <2>1. Spins(n)  BY <1>1, <1>c DEF Fresh
    <2>2. QED  BY <1>1, <2>1 DEF Spins
  <1>9. NodeType(n)'
    <2>1. core'[n] \in CoreCounts(n)  BY <1>1, <1>2 DEF CoreCounts
    <2>2. QED  BY <1>1, <1>5, <1>c, <2>1 DEF NodeType
  <1>10. Fresh(n)'
    <2>1. n \in up'  BY <1>8 DEF Spins
    <2>2. QED  BY <1>8, <2>1 DEF Fresh
  <1>11. InCall(n)'  BY <1>1, <1>3, <1>5, <1>c DEF InCall
  <1>12. Counted(n)'  BY <1>1, <1>c DEF Counted
  <1>13. Turn(n)'  BY <1>1, <1>3, <1>5, <1>c DEF Turn
  <1>14. ASSUME Single(n)  PROVE SingleInv(n)'
    <2>a. SingleInv(n) /\ Threads[n] = {th}  BY <1>14, <1>b DEF Single, NodeInv
    <2>b. CoreInv(n) /\ PolicyInv(n) /\ FilesInv(n) /\ DoneInv(n)  BY <2>a DEF SingleInv
    <2>c. core[n] >= 2 /\ list[n] = {}  BY <1>1, <2>b DEF CoreInv
    <2>1. CoreInv(n)'  BY <1>1, <1>2, <1>3, <1>5, <2>a, <2>c DEF CoreInv
    <2>2. PolicyInv(n)'
      <3>1. \A u \in SubTopic[n] : analyzer[n][u].rt => graph[n] <= n + 1 /\ x.rt
        BY <1>2, <2>b DEF PolicyInv
      <3>2. QED  BY <1>1, <1>3, <1>5, <2>a, <2>c, <3>1 DEF PolicyInv
    <2>3. FilesInv(n)'
      <3>1. ASSUME NEW u \in SubTopic[n], NEW c \in 1..Core[n], c > core[n] - 1
            PROVE  csv[n][u][c] = MaxTimes
        <4>1. CASE c > core[n]  BY <1>8, <2>b, <4>1 DEF FilesInv
        <4>2. CASE c = core[n]
          <5>1. /\ analyzer[n][u].core = core[n] /\ analyzer[n][u].counter = max_analyze_times
                /\ analyzer[n][u].made
            BY <1>8, <2>b, <2>c DEF FilesInv, Spins
          <5>2. csv[n][u][core[n]] = IF max_analyze_times <= IgnoreTimes THEN 0
                                     ELSE max_analyze_times - IgnoreTimes
            BY <1>c, <5>1 DEF Counted
          <5>3. QED  BY <4>2, <5>2 DEF max_analyze_times
        <4>3. QED  BY <1>2, <3>1, <4>1, <4>2
      <3>2. QED  BY <1>1, <3>1 DEF FilesInv
    <2>4. DoneInv(n)'  BY <1>1, <1>2, <2>b DEF DoneInv
    <2>5. QED  BY <2>1, <2>2, <2>3, <2>4 DEF SingleInv
  <1>15. QED  BY <1>9, <1>10, <1>11, <1>12, <1>13, <1>14 DEF NodeInv, Single

-----------------------------------------------------------------------------
(* The theorems.                                                           *)

\* A step of one node leaves the other nodes alone.
LEMMA OthersStill ==
    ASSUME Shape, NEW n \in Nodes, NEW m \in Nodes, m # n,
           \/ start(n) \/ crash(n)
           \/ \E t \in SubTopic[n] : subscribe(n, t)
           \/ \E th \in Threads[n], t \in SubTopic[n] : call(n, th, t)
           \/ \E th \in Threads[n] : Step(n, th)
    PROVE  Still(m)
  <1> USE DEF Shape, Still
  <1>1. CASE start(n)  BY <1>1 DEF start, process
  <1>2. CASE crash(n)  BY <1>2 DEF crash, Ended
  <1>3. ASSUME NEW t \in SubTopic[n], subscribe(n, t)  PROVE Still(m)
    BY <1>3 DEF subscribe
  <1>4. ASSUME NEW th \in Threads[n], NEW t \in SubTopic[n], call(n, th, t)
        PROVE  Still(m)
    BY <1>4 DEF call
  <1>5. ASSUME NEW th \in Threads[n], Step(n, th)  PROVE Still(m)
    <2>1. CASE update(n, th)  BY <2>1 DEF update, Goes
    <2>2. CASE begin(n, th)
      <3>1. CASE thread[n][th].target  BY <2>2, <3>1 DEF begin, begin_target
      <3>2. CASE ~thread[n][th].target  BY <2>2, <3>2 DEF begin, Goes
      <3>3. QED  BY <3>1, <3>2
    <2>3. CASE not_target(n, th)  BY <2>3 DEF not_target
    <2>4. CASE end_time(n, th)  BY <2>4 DEF end_time, Returns
    <2>5. CASE finish_topic(n, th)
      <3>1. CASE is_in_node_graph(n)  BY <2>5, <3>1 DEF finish_topic, Goes
      <3>2. CASE ~is_in_node_graph(n)  BY <2>5, <3>2 DEF finish_topic, Ended
      <3>3. QED  BY <3>1, <3>2
    <2>6. CASE finish_myself(n, th)  BY <2>6 DEF finish_myself, Goes, Returns
    <2>7. CASE last_core(n, th)  BY <2>7 DEF last_core, Returns, informed
    <2>8. CASE next_core(n, th)
      <3>1. CASE is_in_node_graph(n)  BY <2>8, <3>1 DEF next_core
      <3>2. CASE ~is_in_node_graph(n)  BY <2>8, <3>2 DEF next_core, Ended
      <3>3. QED  BY <3>1, <3>2
    <2>9. QED  BY <1>5, <2>1, <2>2, <2>3, <2>4, <2>5, <2>6, <2>7, <2>8 DEF Step
  <1>6. QED  BY <1>1, <1>2, <1>3, <1>4, <1>5

\* No step changes for which nodes there is state.
LEMMA ShapeStep ==
    ASSUME Shape, NEW n \in Nodes,
           \/ start(n) \/ crash(n)
           \/ \E t \in SubTopic[n] : subscribe(n, t)
           \/ \E th \in Threads[n], t \in SubTopic[n] : call(n, th, t)
           \/ \E th \in Threads[n] : Step(n, th)
    PROVE  Shape'
  <1> USE DEF Shape
  <1>1. CASE start(n)  BY <1>1 DEF start, process
  <1>2. CASE crash(n)  BY <1>2 DEF crash, Ended
  <1>3. ASSUME NEW t \in SubTopic[n], subscribe(n, t)  PROVE Shape'
    BY <1>3 DEF subscribe
  <1>4. ASSUME NEW th \in Threads[n], NEW t \in SubTopic[n], call(n, th, t)
        PROVE  Shape'
    BY <1>4 DEF call
  <1>5. ASSUME NEW th \in Threads[n], Step(n, th)  PROVE Shape'
    <2>1. CASE update(n, th)  BY <2>1 DEF update, Goes
    <2>2. CASE begin(n, th)
      <3>1. CASE thread[n][th].target  BY <2>2, <3>1 DEF begin, begin_target
      <3>2. CASE ~thread[n][th].target  BY <2>2, <3>2 DEF begin, Goes
      <3>3. QED  BY <3>1, <3>2
    <2>3. CASE not_target(n, th)  BY <2>3 DEF not_target
    <2>4. CASE end_time(n, th)  BY <2>4 DEF end_time, Returns
    <2>5. CASE finish_topic(n, th)
      <3>1. CASE is_in_node_graph(n)  BY <2>5, <3>1 DEF finish_topic, Goes
      <3>2. CASE ~is_in_node_graph(n)  BY <2>5, <3>2 DEF finish_topic, Ended
      <3>3. QED  BY <3>1, <3>2
    <2>6. CASE finish_myself(n, th)  BY <2>6 DEF finish_myself, Goes, Returns
    <2>7. CASE last_core(n, th)  BY <2>7 DEF last_core, Returns, informed
    <2>8. CASE next_core(n, th)
      <3>1. CASE is_in_node_graph(n)  BY <2>8, <3>1 DEF next_core
      <3>2. CASE ~is_in_node_graph(n)  BY <2>8, <3>2 DEF next_core, Ended
      <3>3. QED  BY <3>1, <3>2
    <2>9. QED  BY <1>5, <2>1, <2>2, <2>3, <2>4, <2>5, <2>6, <2>7, <2>8 DEF Step
  <1>6. QED  BY <1>1, <1>2, <1>3, <1>4, <1>5

\* What one node does leaves it in its invariant.
LEMMA OwnStep ==
    ASSUME IInv, NEW n \in Nodes,
           \/ start(n) \/ crash(n)
           \/ \E t \in SubTopic[n] : subscribe(n, t)
           \/ \E th \in Threads[n], t \in SubTopic[n] : call(n, th, t)
           \/ \E th \in Threads[n] : Step(n, th)
    PROVE  NodeInv(n)'
  <1>1. CASE start(n)  BY <1>1, StartKeeps
  <1>2. CASE crash(n)
    <2>1. Ended(n) /\ UNCHANGED <<inform, starts, csv, spoiled>>  BY <1>2 DEF crash
    <2>2. QED  BY <2>1, EndedKeeps
  <1>3. CASE \E t \in SubTopic[n] : subscribe(n, t)  BY <1>3, SubscribeKeeps
  <1>4. CASE \E th \in Threads[n], t \in SubTopic[n] : call(n, th, t)  BY <1>4, CallKeeps
  <1>5. ASSUME NEW th \in Threads[n], Step(n, th)  PROVE NodeInv(n)'
    <2>1. CASE update(n, th)  BY <2>1, UpdateKeeps
    <2>2. CASE begin(n, th)  BY <2>2, BeginOtherKeeps, BeginTargetKeeps
    <2>3. CASE not_target(n, th)  BY <2>3, NotTargetKeeps
    <2>4. CASE end_time(n, th)  BY <2>4, EndTimeKeeps
    <2>5. CASE finish_topic(n, th)
      <3>1. CASE ~is_in_node_graph(n)
        <4>1. Ended(n) /\ UNCHANGED <<inform, starts, csv, spoiled>>
          BY <2>5, <3>1 DEF finish_topic
        <4>2. QED  BY <4>1, EndedKeeps
      <3>2. QED  BY <2>5, <3>1, FinishTopicKeeps
    <2>6. CASE finish_myself(n, th)  BY <2>6, FinishMyselfKeeps
    <2>7. CASE last_core(n, th)  BY <2>7, LastCoreKeeps
    <2>8. CASE next_core(n, th)
      <3>1. CASE ~is_in_node_graph(n)
        <4>1. Ended(n) /\ UNCHANGED <<inform, starts, csv, spoiled>>
          BY <2>8, <3>1 DEF next_core
        <4>2. QED  BY <4>1, EndedKeeps
      <3>2. QED  BY <2>8, <3>1, NextCoreKeeps
    <2>9. QED  BY <1>5, <2>1, <2>2, <2>3, <2>4, <2>5, <2>6, <2>7, <2>8 DEF Step
  <1>6. QED  BY <1>1, <1>2, <1>3, <1>4, <1>5

\* The file gains a node only when every node behind it is there.
LEMMA FileStep ==
    ASSUME IInv, NEW n \in Nodes,
           \/ start(n) \/ crash(n)
           \/ \E t \in SubTopic[n] : subscribe(n, t)
           \/ \E th \in Threads[n], t \in SubTopic[n] : call(n, th, t)
           \/ \E th \in Threads[n] : Step(n, th)
    PROVE  /\ inform' \subseteq Nodes /\ up' \subseteq Nodes /\ spoiled' \subseteq Nodes
           /\ Suffix'
  <1>a. /\ inform \subseteq Nodes /\ up \subseteq Nodes /\ spoiled \subseteq Nodes /\ Suffix
        /\ NodeInv(n)
    BY DEF IInv
  <1>1. ASSUME NEW th \in Threads[n], last_core(n, th)  PROVE Suffix' /\ inform' \subseteq Nodes
    <2>1. inform' = inform \cup {n} /\ thread[n][th].target
      BY <1>1, <1>a DEF last_core, informed, NodeInv, InCall
    <2>2. \A k \in Nodes : k > n => k \in inform  BY <1>a, <2>1 DEF NodeInv, Turn
    <2>3. QED  BY <1>a, <2>1, <2>2, ConstantsHold DEF Suffix, Nodes, Constants
  <1>2. inform' = inform \/ \E th \in Threads[n] : last_core(n, th)
    BY DEF start, crash, subscribe, call, Step, update, begin, not_target, end_time,
           finish_topic, finish_myself, next_core
  <1>3. Suffix' /\ inform' \subseteq Nodes
    BY <1>a, <1>1, <1>2 DEF Suffix
  <1>4. up' \subseteq Nodes
    BY <1>a DEF start, crash, Ended, subscribe, call, Step, update, begin, not_target, end_time,
           finish_topic, finish_myself, last_core, next_core
  <1>5. spoiled' \subseteq Nodes
    BY <1>a DEF start, crash, subscribe, call, Step, update, begin, not_target, end_time,
           finish_topic, finish_myself, last_core, next_core
  <1>6. QED  BY <1>3, <1>4, <1>5

\* The initial state satisfies the invariant.
LEMMA InitInv == Init => IInv
  <1> SUFFICES ASSUME Init  PROVE IInv
    OBVIOUS
  <1>1. Shape /\ Suffix /\ inform \subseteq Nodes /\ up \subseteq Nodes /\ spoiled \subseteq Nodes
    BY DEF Init, Shape, Suffix
  <1>2. ASSUME NEW n \in Nodes  PROVE NodeInv(n)
    <2>a. Constants(n)  BY ConstantsHold
    <2> USE <2>a DEF Constants
    <2>1. /\ starts[n] = 0 /\ graph[n] = N /\ list[n] = SubTopic[n] /\ core[n] = 0
          /\ analyzer[n] = [t \in SubTopic[n] |-> NoAnalyzer]
          /\ thread[n] = [th \in Threads[n] |-> Idle]
          /\ csv[n] = [t \in SubTopic[n] |-> [c \in CoreCounts(n) |-> 0]]
          /\ inform = {} /\ up = {}
      BY DEF Init
    <2>2. /\ NoAnalyzer \in AnalyzerType(n) /\ ~NoAnalyzer.made /\ ~NoAnalyzer.rt
          /\ Idle \in ThreadType(n) /\ Idle.at = "idle" /\ ~Idle.target
      BY DEF NoAnalyzer, Idle, AnalyzerType, ThreadType, AllCores, CoreCounts, max_analyze_times
    <2>3. /\ \A t \in SubTopic[n] : analyzer[n][t] = NoAnalyzer
          /\ \A th \in Threads[n] : thread[n][th] = Idle
      BY <2>1
    <2>4. NodeType(n)
      <3>1. core[n] \in CoreCounts(n)  BY <2>1 DEF CoreCounts
      <3>2. csv[n] \in [SubTopic[n] -> [CoreCounts(n) -> 0..MaxTimes]]  BY <2>1
      <3>3. QED  BY <2>1, <2>2, <3>1, <3>2 DEF NodeType
    <2>5. ~Spins(n)  BY <2>1 DEF Spins
    <2>6. Fresh(n)  BY <2>1, <2>2, <2>3 DEF Fresh
    <2>7. InCall(n) /\ Counted(n)  BY <2>2, <2>3 DEF InCall, Counted
    <2>8. Turn(n)  BY <2>1, <2>2, <2>3 DEF Turn, Nodes
    <2>9. SingleInv(n)
      BY <2>1, <2>2, <2>3, <2>5 DEF SingleInv, CoreInv, PolicyInv, FilesInv, DoneInv
    <2>10. QED  BY <2>4, <2>6, <2>7, <2>8, <2>9 DEF NodeInv
  <1>3. QED  BY <1>1, <1>2 DEF IInv

\* The invariant holds whatever the processes and their threads do.
THEOREM InvariantHolds == Spec => []IInv
  <1>1. IInv /\ [Next]_vars => IInv'
    <2> SUFFICES ASSUME IInv, [Next]_vars  PROVE IInv'
      OBVIOUS
    <2>1. ASSUME NEW n \in Nodes,
                 \/ start(n) \/ crash(n)
                 \/ \E t \in SubTopic[n] : subscribe(n, t)
                 \/ \E th \in Threads[n], t \in SubTopic[n] : call(n, th, t)
                 \/ \E th \in Threads[n] : Step(n, th)
          PROVE  IInv'
      <3>1. Shape /\ NodeInv(n)'  BY <2>1, OwnStep DEF IInv
      <3>2. ASSUME NEW m \in Nodes, m # n  PROVE NodeInv(m)'
        BY <2>1, <3>1, <3>2, OthersStill, StillKeeps DEF IInv
      <3>3. Shape'  BY <2>1, <3>1, ShapeStep
      <3>4. QED  BY <2>1, <3>1, <3>2, <3>3, FileStep DEF IInv
    <2>2. CASE UNCHANGED vars
      <3>1. Shape' /\ Suffix' /\ inform' \subseteq Nodes /\ up' \subseteq Nodes
            /\ spoiled' \subseteq Nodes
        BY <2>2 DEF IInv, Shape, Suffix, vars
      <3>2. ASSUME NEW m \in Nodes  PROVE NodeInv(m)'
        <4>1. NodeInv(m) /\ Still(m)  BY <2>2 DEF IInv, Still, vars
        <4>2. QED  BY <4>1, StillKeeps
      <3>3. QED  BY <3>1, <3>2 DEF IInv
    <2>3. QED  BY <2>1, <2>2 DEF Next
  <1>2. QED  BY InitInv, <1>1, PTL DEF Spec

\* No process loses a node that was not measured, for any number of nodes,
\* threads, crashes and restarts.
THEOREM NoNodeIsDropped == Spec => []NoneDropped
  <1>1. IInv => NoneDropped
    BY DEF IInv, NodeInv, NodeType, AnalyzerType, ThreadType, Turn, NoneDropped, TypeOK
  <1>2. QED  BY InvariantHolds, <1>1, PTL

\* A node in inform_rosch_.txt has all its measurements at every core count, when
\* one thread spins it and it was not started again after it was done.
THEOREM MeasurementsComplete == Spec => []Complete
  <1>1. IInv => Complete  BY DEF IInv, NodeInv, SingleInv, DoneInv, Complete
  <1>2. QED  BY InvariantHolds, <1>1, PTL

\* Two nodes are not measured at the same time.
THEOREM MeasuredAlone == Spec => []OneAtATime
  <1>1. IInv => OneAtATime
    <2> SUFFICES ASSUME IInv, NEW m \in Nodes, NEW n \in Nodes, m > n, Single(m), m \notin spoiled,
                        NEW th \in Threads[m], Measured(m, th),
                        NEW o \in Threads[n], Measured(n, o)
                 PROVE  FALSE
      BY DEF OneAtATime
    <2>1. thread[m][th].target /\ thread[n][o].target  BY DEF Measured
    <2>2. m \in inform  BY <2>1 DEF IInv, NodeInv, Turn
    <2>3. QED  BY <2>1, <2>2 DEF IInv, NodeInv, SingleInv, DoneInv
  <1>2. QED  BY InvariantHolds, <1>1, PTL

\* What a single thread measures runs in real time on the cores of its file.
THEOREM MeasuredUnderPolicy == Spec => []MeasuredInRT
  <1>1. IInv => MeasuredInRT
    <2> SUFFICES ASSUME IInv, NEW n \in Nodes, Single(n), NEW th \in Threads[n], Measured(n, th)
                 PROVE  thread[n][th].rt /\
                        thread[n][th].cores = analyzer[n][thread[n][th].topic].core
      BY DEF MeasuredInRT
    <2>1. PolicyInv(n) /\ InCall(n)  BY DEF IInv, NodeInv, SingleInv
    <2>2. thread[n][th].at = "callback" /\ thread[n][th].target  BY DEF Measured
    <2>3. thread[n][th].topic \in SubTopic[n]  BY <2>1, <2>2 DEF InCall
    <2>4. QED  BY <2>1, <2>2, <2>3 DEF PolicyInv
  <1>2. QED  BY InvariantHolds, <1>1, PTL
=============================================================================
