-------------------------- MODULE RosMasterProofs --------------------------
(***************************************************************************)
(* Proofs about the ROS master: its tables and references agree, for any   *)
(* number of processes, names, topics, services, parameters and threads,   *)
(* and the tables with the thread pool implement MasterFeed; and about the *)
(* subscriptions of the nodes that it tells of publishers.                 *)
(***************************************************************************)
EXTENDS RosMaster, RospyTopic, ListProofs, FiniteSetTheorems

-----------------------------------------------------------------------------
(***************************************************************************)
(* The inductive invariant of the tables.                                  *)
(***************************************************************************)

RegType ==
  /\ providers \in [Reg -> Seq(Apis)]
  /\ service_api_map \in [Services -> SUBSET Apis]
  /\ nodes \in [Names -> NodeRef \cup {NoNode}]
  /\ mine \in [Apis -> SUBSET Reg]

\* An entry belongs to the process its name refers to, which counts it.
Owned ==
  \A k \in Reg : \A a \in Held(providers[k]) :
    /\ nodes[NameOf[a]] # NoNode
    /\ nodes[NameOf[a]].api = a
    /\ k \in nodes[NameOf[a]].refs

\* What a reference counts is registered, unless it is a service.
Counted ==
  \A n \in Names : nodes[n] # NoNode =>
    \A k \in nodes[n].refs : k[1] = "srv" \/ nodes[n].api \in Held(providers[k])

\* A reference is kept under the name of its process and never empty.
Named ==
  \A n \in Names : nodes[n] # NoNode =>
    NameOf[nodes[n].api] = n /\ nodes[n].refs # {}

\* The tables hold what some process registered and did not take back.
Wanted == \A k \in Reg : \A a \in Held(providers[k]) : k \in mine[a]

\* A service has one provider, and service_api_map is its process.
Served ==
  \A s \in Services :
    /\ service_api_map[s] = Held(providers[<<"srv", s>>])
    /\ \A a, b \in Held(providers[<<"srv", s>>]) : a = b

\* A process is in a list once.
Once == \A k \in Reg : NoRepeats(providers[k])

RegInv == RegType /\ Owned /\ Counted /\ Named /\ Wanted /\ Served /\ Once

PoolType ==
  /\ tasks \in Seq(Task)
  /\ running \in [Workers -> Task \cup {<<>>}]
  /\ calls \in 0..MaxCalls

\* No two threads execute tasks of one process.
Alone ==
  \A v, w \in Workers :
    running[v] # <<>> /\ running[w] # <<>> /\ running[v].marker = running[w].marker
      => v = w

IInv == RegInv /\ PoolType /\ Alone

\* What RefsAgree says follows.
LEMMA InvImplies == ASSUME IInv  PROVE RefsAgree
  <1> USE DEF IInv, RegInv
  <1>1. TypeOK  BY DEF TypeOK, RegType, PoolType
  <1>2. ASSUME NEW n \in Names, nodes[n] # NoNode, mine[nodes[n].api] = {}
        PROVE  /\ nodes[n].refs # {}
               /\ \A k \in nodes[n].refs : nodes[n].api \notin Held(providers[k])
    <2>1. nodes[n] \in NodeRef  BY <1>2 DEF RegType
    <2>2. nodes[n].refs \subseteq Reg  BY <2>1 DEF NodeRef
    <2>3. QED  BY <1>2, <2>2 DEF Named, Wanted
  <1>3. QED  BY <1>1, <1>2 DEF RefsAgree, Owned, Counted, Served

-----------------------------------------------------------------------------
(* The steps of the tables.                                                *)

\* A key of the tables.
LEMMA Keys ==
    /\ \A t \in Topics : Pub(t) \in Reg /\ Sub(t) \in Reg
    /\ \A s \in Services : <<"srv", s>> \in Reg
    /\ \A p \in Params : <<"par", p>> \in Reg
    /\ \A k \in Reg : k[1] = "srv" => k[2] \in Services /\ k = <<"srv", k[2]>>
  BY DEF Reg, Pub, Sub

\* The lists after unregister_all.
LEMMA UnregisterAll ==
    ASSUME RegType, NEW n \in Names
    PROVE  /\ unregister_all(n) \in [Reg -> Seq(Apis)]
           /\ \A k \in Reg : Held(unregister_all(n)[k]) =
                               {b \in Held(providers[k]) : NameOf[b] # n}
           /\ Once => \A k \in Reg : NoRepeats(unregister_all(n)[k])
  <1> DEFINE keep == {a \in Apis : NameOf[a] # n}
  <1>1. ASSUME NEW k \in Reg
        PROVE  /\ Filter(providers[k], keep) \in Seq(Apis)
               /\ Held(Filter(providers[k], keep)) = Held(providers[k]) \cap keep
               /\ Held(providers[k]) \subseteq Apis
               /\ NoRepeats(providers[k]) => NoRepeats(Filter(providers[k], keep))
    <2>1. providers[k] \in Seq(Apis)  BY DEF RegType
    <2>2. \A i \in DOMAIN providers[k] : providers[k][i] \in Apis  BY <2>1
    <2> HIDE DEF keep
    <2>3. QED  BY <2>1, <2>2, FilterMembers, FilterNoRepeats DEF Held
  <1>2. unregister_all(n) = [k \in Reg |-> Filter(providers[k], keep)]  BY DEF unregister_all
  <1>3. \A k \in Reg : unregister_all(n)[k] = Filter(providers[k], keep)  BY <1>2
  <1>4. \A k \in Reg : Held(providers[k]) \cap keep = {b \in Held(providers[k]) : NameOf[b] # n}
    BY <1>1
  <1> HIDE DEF keep
  <1>5. QED  BY <1>1, <1>2, <1>3, <1>4 DEF Once

Added(map, new, k, a) ==
  /\ new \in [Reg -> Seq(Apis)]
  /\ \A j \in Reg \ {k} : new[j] = map[j]
  /\ Held(new[k]) = IF k[1] = "srv" THEN {a} ELSE Held(map[k]) \cup {a}
  /\ NoRepeats(map[k]) => NoRepeats(new[k])

\* The lists after Registrations.register.
LEMMA AddProvider ==
    ASSUME NEW map \in [Reg -> Seq(Apis)], NEW k \in Reg, NEW a \in Apis
    PROVE  Added(map, add_provider(map, k, a), k, a)
  <1> DEFINE new == IF k[1] = "srv" THEN <<a>>
                    ELSE IF a \in Held(map[k]) THEN map[k] ELSE Append(map[k], a)
  <1>1. add_provider(map, k, a) = [map EXCEPT ![k] = new]  BY DEF add_provider
  <1>2. map[k] \in Seq(Apis)  OBVIOUS
  <1>3. /\ <<a>> \in Seq(Apis) /\ Held(<<a>>) = {a} /\ NoRepeats(<<a>>)
    <2>1. DOMAIN <<a>> = {1} /\ <<a>>[1] = a /\ <<a>> \in Seq(Apis)  OBVIOUS
    <2>2. QED  BY <2>1 DEF Held, NoRepeats
  <1>4. /\ new \in Seq(Apis)
        /\ Held(new) = IF k[1] = "srv" THEN {a} ELSE Held(map[k]) \cup {a}
        /\ NoRepeats(map[k]) => NoRepeats(new)
    <2>1. CASE k[1] = "srv"  BY <1>3, <2>1
    <2>2. CASE k[1] # "srv" /\ a \in Held(map[k])
      <3>1. Held(map[k]) \cup {a} = Held(map[k])  BY <2>2
      <3>2. QED  BY <1>2, <2>2, <3>1
    <2>3. CASE k[1] # "srv" /\ a \notin Held(map[k])
      BY <1>2, <2>3, HeldAppend, AppendNoRepeats
    <2>4. QED  BY <2>1, <2>2, <2>3
  <1> HIDE DEF new
  <1>5. [map EXCEPT ![k] = new] \in [Reg -> Seq(Apis)]  BY <1>4
  <1>6. /\ [map EXCEPT ![k] = new][k] = new
        /\ \A j \in Reg \ {k} : [map EXCEPT ![k] = new][j] = map[j]
    OBVIOUS
  <1>7. QED  BY <1>1, <1>4, <1>5, <1>6 DEF Added

\* What _register does to the tables and the references.
LEMMA RegisterTables ==
    ASSUME RegInv, NEW a \in Apis, NEW k \in Reg, register(a, k)
    PROVE  /\ providers' \in [Reg -> Seq(Apis)]
           /\ service_api_map' \in [Services -> SUBSET Apis]
           /\ \A j \in Reg : NoRepeats(providers'[j])
           /\ \A j \in Reg \ {k} : Held(providers'[j]) =
                 {b \in Held(providers[j]) : ~ (changed(a) /\ NameOf[b] = NameOf[a])}
           /\ Held(providers'[k]) =
                 IF k[1] = "srv" THEN {a}
                 ELSE {b \in Held(providers[k]) : ~ (changed(a) /\ NameOf[b] = NameOf[a])}
                         \cup {a}
  <1> DEFINE map == IF changed(a) THEN unregister_all(NameOf[a]) ELSE providers
  <1>1. NameOf[a] \in Names  BY MasterAssumption
  <1>2. providers \in [Reg -> Seq(Apis)] /\ \A j \in Reg : NoRepeats(providers[j])
    BY DEF RegInv, RegType, Once
  <1>3. /\ map \in [Reg -> Seq(Apis)]
        /\ \A j \in Reg : Held(map[j]) =
               {b \in Held(providers[j]) : ~ (changed(a) /\ NameOf[b] = NameOf[a])}
        /\ \A j \in Reg : NoRepeats(map[j])
    <2>1. CASE changed(a)
      <3>1. map = unregister_all(NameOf[a])  BY <2>1
      <3> HIDE DEF map
      <3>2. /\ map \in [Reg -> Seq(Apis)]
            /\ \A j \in Reg : Held(map[j]) = {b \in Held(providers[j]) : NameOf[b] # NameOf[a]}
            /\ \A j \in Reg : NoRepeats(map[j])
        <4>1. RegType /\ Once  BY DEF RegInv
        <4>2. /\ unregister_all(NameOf[a]) \in [Reg -> Seq(Apis)]
              /\ \A j \in Reg : Held(unregister_all(NameOf[a])[j]) =
                                  {b \in Held(providers[j]) : NameOf[b] # NameOf[a]}
              /\ \A j \in Reg : NoRepeats(unregister_all(NameOf[a])[j])
          BY <1>1, <4>1, UnregisterAll
        <4>3. QED  BY <3>1, <4>2
      <3>3. QED  BY <2>1, <3>2
    <2>2. CASE ~changed(a)
      <3>1. map = providers  BY <2>2
      <3> HIDE DEF map
      <3>2. QED  BY <1>2, <2>2, <3>1
    <2>3. QED  BY <2>1, <2>2
  <1>4. providers' = add_provider(map, k, a)  BY DEF register
  <1>5. service_api_map' \in [Services -> SUBSET Apis]
    <2>1. service_api_map \in [Services -> SUBSET Apis]  BY DEF RegInv, RegType
    <2>2. QED  BY <2>1 DEF register
  <1> HIDE DEF map
  <1>6. /\ providers' \in [Reg -> Seq(Apis)]
        /\ \A j \in Reg \ {k} : providers'[j] = map[j]
        /\ Held(providers'[k]) = IF k[1] = "srv" THEN {a} ELSE Held(map[k]) \cup {a}
        /\ NoRepeats(providers'[k])
    <2>1. map \in [Reg -> Seq(Apis)] /\ NoRepeats(map[k])  BY <1>3
    <2>2. Added(map, add_provider(map, k, a), k, a)  BY <2>1, AddProvider
    <2>3. QED  BY <1>4, <2>1, <2>2 DEF Added
  <1>7. QED  BY <1>3, <1>5, <1>6

\* A reference has its parts.
LEMMA Refs ==
    ASSUME RegType, NEW n \in Names, nodes[n] # NoNode
    PROVE  /\ nodes[n] \in NodeRef
           /\ nodes[n].api \in Apis /\ nodes[n].refs \subseteq Reg
  BY DEF RegType, NodeRef

\* What _register_node_api and NodeRef.add do to the references.
LEMMA RegisterRefs ==
    ASSUME RegInv, NEW a \in Apis, NEW k \in Reg, register(a, k)
    PROVE  /\ nodes' \in [Names -> NodeRef \cup {NoNode}]
           /\ \A m \in Names \ {NameOf[a]} : nodes'[m] = nodes[m]
           /\ nodes'[NameOf[a]] # NoNode
           /\ nodes'[NameOf[a]].api = a
           /\ nodes'[NameOf[a]].refs =
                 {k} \cup (IF nodes[NameOf[a]] # NoNode /\ ~changed(a)
                          THEN nodes[NameOf[a]].refs ELSE {})
  <1> DEFINE n == NameOf[a]
             kept == IF nodes[n] # NoNode /\ ~changed(a) THEN nodes[n].refs ELSE {}
             ref == [api |-> a, refs |-> {k} \cup kept]
  <1>1. n \in Names  BY MasterAssumption
  <1>2. nodes \in [Names -> NodeRef \cup {NoNode}] /\ RegType  BY DEF RegInv, RegType
  <1>3. kept \subseteq Reg
    <2>1. CASE nodes[n] # NoNode
      <3>1. nodes[n].refs \subseteq Reg  BY <1>1, <1>2, <2>1, Refs
      <3>2. QED  BY <3>1
    <2>2. CASE nodes[n] = NoNode  BY <2>2
    <2>3. QED  BY <2>1, <2>2
  <1>4. nodes' = [nodes EXCEPT ![n] = ref]  BY DEF register, register_node_api
  <1>5. kept = IF nodes[NameOf[a]] # NoNode /\ ~changed(a)
               THEN nodes[NameOf[a]].refs ELSE {}
    OBVIOUS
  <1> HIDE DEF kept
  <1>6. ref \in NodeRef /\ ref.api = a /\ ref.refs = {k} \cup kept  BY <1>3 DEF NodeRef
  <1> HIDE DEF ref
  <1>7. /\ nodes' \in [Names -> NodeRef \cup {NoNode}]
        /\ nodes'[n] = ref
        /\ \A m \in Names \ {n} : nodes'[m] = nodes[m]
    BY <1>1, <1>2, <1>4, <1>6
  <1>8. ref # NoNode  BY <1>6, NoNodeAssumption
  <1>9. QED  BY <1>5, <1>6, <1>7, <1>8

\* A registration keeps the invariant of the tables.
LEMMA RegisterStep ==
    ASSUME RegInv, NEW a \in Apis, NEW k \in Reg, register(a, k),
           mine' = [mine EXCEPT ![a] = @ \cup {k}]
    PROVE  RegInv'
  <1> DEFINE n == NameOf[a]
             gone(b) == changed(a) /\ NameOf[b] = n
  <1>n. n \in Names /\ \A b \in Apis : NameOf[b] \in Names  BY MasterAssumption
  <1>t. /\ RegType /\ Owned /\ Counted /\ Named /\ Wanted /\ Served
        /\ \A j \in Reg : Held(providers[j]) \subseteq Apis
    <2>1. RegType  BY DEF RegInv
    <2>2. ASSUME NEW j \in Reg  PROVE Held(providers[j]) \subseteq Apis
      <3>1. providers[j] \in Seq(Apis)  BY <2>1 DEF RegType
      <3>2. QED  BY <3>1 DEF Held
    <2>3. QED  BY <2>1, <2>2 DEF RegInv
  <1>p. /\ providers' \in [Reg -> Seq(Apis)]
        /\ service_api_map' \in [Services -> SUBSET Apis]
        /\ \A j \in Reg : NoRepeats(providers'[j])
        /\ \A j \in Reg \ {k} : Held(providers'[j]) = {b \in Held(providers[j]) : ~gone(b)}
        /\ Held(providers'[k]) =
              IF k[1] = "srv" THEN {a} ELSE {b \in Held(providers[k]) : ~gone(b)} \cup {a}
    BY RegisterTables
  <1>r. /\ nodes' \in [Names -> NodeRef \cup {NoNode}]
        /\ \A m \in Names \ {n} : nodes'[m] = nodes[m]
        /\ nodes'[n] # NoNode
        /\ nodes'[n].api = a
        /\ nodes'[n].refs = {k} \cup (IF nodes[n] # NoNode /\ ~changed(a)
                                     THEN nodes[n].refs ELSE {})
    BY RegisterRefs
  <1>m. /\ mine' \in [Apis -> SUBSET Reg]
        /\ \A b \in Apis : mine[b] \subseteq mine'[b]
        /\ k \in mine'[a]
    BY <1>t DEF RegType
  <1>c. changed(a) <=> nodes[n] # NoNode /\ nodes[n].api # a  BY DEF changed
  <1>h. \A j \in Reg : \A b \in Held(providers'[j]) :
          \/ b = a /\ j = k
          \/ b \in Held(providers[j]) /\ ~gone(b)
    <2> SUFFICES ASSUME NEW j \in Reg, NEW b \in Held(providers'[j])
                 PROVE  (b = a /\ j = k) \/ (b \in Held(providers[j]) /\ ~gone(b))
      OBVIOUS
    <2> HIDE DEF gone
    <2>1. CASE j = k  BY <1>p, <2>1
    <2>2. CASE j # k  BY <1>p, <2>2
    <2>3. QED  BY <2>1, <2>2
  <1>1. RegType'  BY <1>p, <1>r, <1>m DEF RegType
  <1>2. Owned'
    <2> SUFFICES ASSUME NEW j \in Reg, NEW b \in Held(providers'[j])
                 PROVE  /\ nodes'[NameOf[b]] # NoNode
                        /\ nodes'[NameOf[b]].api = b
                        /\ j \in nodes'[NameOf[b]].refs
      BY DEF Owned
    <2>1. CASE b = a /\ j = k  BY <1>r, <2>1
    <2>2. CASE b \in Held(providers[j]) /\ ~gone(b)
      <3>1. /\ b \in Apis /\ nodes[NameOf[b]] # NoNode
            /\ nodes[NameOf[b]].api = b /\ j \in nodes[NameOf[b]].refs
        BY <1>t, <2>2 DEF Owned
      <3>2. CASE NameOf[b] = n
        <4>1. ~changed(a)  BY <2>2, <3>2
        <4>2. nodes[n].api = a /\ nodes[n] # NoNode  BY <1>c, <3>1, <3>2, <4>1
        <4>3. b = a  BY <3>1, <3>2, <4>2
        <4>4. nodes'[n].refs = {k} \cup nodes[n].refs  BY <1>r, <4>1, <4>2
        <4>5. QED  BY <1>r, <3>1, <3>2, <4>3, <4>4
      <3>3. CASE NameOf[b] # n
        <4>1. nodes'[NameOf[b]] = nodes[NameOf[b]]  BY <1>n, <1>r, <3>1, <3>3
        <4>2. QED  BY <3>1, <4>1
      <3>4. QED  BY <3>2, <3>3
    <2>3. QED  BY <1>h, <2>1, <2>2
  <1>3. Counted'
    <2> SUFFICES ASSUME NEW m \in Names, nodes'[m] # NoNode, NEW j \in nodes'[m].refs,
                        j[1] # "srv"
                 PROVE  nodes'[m].api \in Held(providers'[j])
      BY DEF Counted
    <2>1. CASE m = n
      <3>1. CASE j = k  BY <1>p, <1>r, <2>1, <3>1
      <3>2. CASE j # k
        <4>1. nodes[n] # NoNode /\ ~changed(a) /\ j \in nodes[n].refs
          BY <1>r, <2>1, <3>2
        <4>2. nodes[n].api = a /\ j \in Reg  BY <1>c, <1>n, <1>t, <4>1, Refs
        <4>3. a \in Held(providers[j])  BY <1>n, <1>t, <4>1, <4>2 DEF Counted
        <4>4. a \in Held(providers'[j])  BY <1>p, <3>2, <4>1, <4>2, <4>3
        <4>5. QED  BY <1>r, <2>1, <4>4
      <3>3. QED  BY <3>1, <3>2
    <2>2. CASE m # n
      <3>1. nodes'[m] = nodes[m] /\ nodes[m] # NoNode  BY <1>r, <2>2
      <3>2. /\ nodes[m].api \in Apis /\ j \in Reg /\ NameOf[nodes[m].api] = m
            /\ nodes[m].api \in Held(providers[j])
        <4>1. nodes[m].api \in Apis /\ nodes[m].refs \subseteq Reg  BY <1>t, <3>1, Refs
        <4>2. j \in nodes[m].refs  BY <3>1
        <4>3. QED  BY <1>t, <3>1, <4>1, <4>2 DEF Counted, Named
      <3>3. ~gone(nodes[m].api)  BY <2>2, <3>2
      <3> HIDE DEF gone
      <3>4. nodes[m].api \in Held(providers'[j])  BY <1>p, <3>2, <3>3
      <3>5. QED  BY <3>1, <3>4
    <2>3. QED  BY <2>1, <2>2
  <1>4. Named'
    <2> SUFFICES ASSUME NEW m \in Names, nodes'[m] # NoNode
                 PROVE  NameOf[nodes'[m].api] = m /\ nodes'[m].refs # {}
      BY DEF Named
    <2>1. CASE m = n  BY <1>r, <2>1
    <2>2. CASE m # n
      <3>1. nodes'[m] = nodes[m]  BY <1>r, <2>2
      <3>2. QED  BY <1>t, <3>1 DEF Named
    <2>3. QED  BY <2>1, <2>2
  <1>5. Wanted'
    <2> SUFFICES ASSUME NEW j \in Reg, NEW b \in Held(providers'[j])  PROVE j \in mine'[b]
      BY DEF Wanted
    <2>1. CASE b = a /\ j = k  BY <1>m, <2>1
    <2>2. CASE b \in Held(providers[j])  BY <1>m, <1>t, <2>2 DEF Wanted
    <2>3. QED  BY <1>h, <2>1, <2>2
  <1>6. Served'
    <2> SUFFICES ASSUME NEW s \in Services
                 PROVE  /\ service_api_map'[s] = Held(providers'[<<"srv", s>>])
                        /\ \A x, y \in Held(providers'[<<"srv", s>>]) : x = y
      BY DEF Served
    <2>1. <<"srv", s>> \in Reg /\ <<"srv", s>>[1] = "srv"  BY Keys
    <2>2. /\ service_api_map[s] = Held(providers[<<"srv", s>>])
          /\ \A x, y \in Held(providers[<<"srv", s>>]) : x = y
      BY <1>t DEF Served
    <2>3. service_api_map'[s] =
            IF k = <<"srv", s>> THEN {a}
            ELSE IF changed(a) THEN {b \in service_api_map[s] : NameOf[b] # NameOf[a]}
            ELSE service_api_map[s]
      BY DEF register
    <2>4. CASE k = <<"srv", s>>
      <3>1. Held(providers'[k]) = {a}  BY <1>p, <2>1, <2>4
      <3>2. QED  BY <2>3, <2>4, <3>1
    <2>5. CASE k # <<"srv", s>>
      <3>1. Held(providers'[<<"srv", s>>]) = {b \in Held(providers[<<"srv", s>>]) : ~gone(b)}
        <4> HIDE DEF gone
        <4>1. QED  BY <1>p, <2>1, <2>5
      <3>2. service_api_map'[s] = {b \in service_api_map[s] : ~gone(b)}  BY <2>3, <2>5
      <3>3. QED  BY <2>2, <3>1, <3>2
    <2>6. QED  BY <2>4, <2>5
  <1>7. Once'  BY <1>p DEF Once
  <1>8. QED  BY <1>1, <1>2, <1>3, <1>4, <1>5, <1>6, <1>7 DEF RegInv

\* A process that has an entry in a list is the one Registrations.unregister
\* accepts.
LEMMA Provider ==
    ASSUME RegInv, NEW a \in Apis, NEW k \in Reg
    PROVE  is_provider(a, k) <=> a \in Held(providers[k])
  <1>1. CASE k[1] = "srv"
    <2>1. k[2] \in Services /\ k = <<"srv", k[2]>>  BY <1>1, Keys
    <2>2. /\ service_api_map[k[2]] = Held(providers[k])
          /\ \A x, y \in Held(providers[k]) : x = y
      BY <2>1 DEF RegInv, Served
    <2>3. QED  BY <1>1, <2>2 DEF is_provider
  <1>2. CASE k[1] # "srv"  BY <1>2 DEF is_provider
  <1>3. QED  BY <1>1, <1>2

\* What a process that holds k loses by _unregister.
LEMMA UnregisterTables ==
    ASSUME RegInv, NEW a \in Apis, NEW k \in Reg, unregister(a, k),
           a \in Held(providers[k])
    PROVE  /\ providers' \in [Reg -> Seq(Apis)]
           /\ service_api_map' \in [Services -> SUBSET Apis]
           /\ \A j \in Reg : NoRepeats(providers'[j])
           /\ \A j \in Reg \ {k} : providers'[j] = providers[j]
           /\ Held(providers'[k]) = Held(providers[k]) \ {a}
           /\ service_api_map' = IF k[1] = "srv"
                                 THEN [service_api_map EXCEPT ![k[2]] = {}]
                                 ELSE service_api_map
  <1>1. is_provider(a, k)  BY Provider
  <1>2. nodes[NameOf[a]] # NoNode  BY DEF RegInv, Owned
  <1>3. providers \in [Reg -> Seq(Apis)] /\ service_api_map \in [Services -> SUBSET Apis]
    BY DEF RegInv, RegType
  <1>4. /\ providers' = remove_provider(a, k)
        /\ service_api_map' = IF k[1] = "srv"
                              THEN [service_api_map EXCEPT ![k[2]] = {}]
                              ELSE service_api_map
    BY <1>1, <1>2 DEF unregister
  <1> DEFINE new == IF k[1] = "srv" THEN <<>> ELSE Filter(providers[k], Apis \ {a})
  <1>5. remove_provider(a, k) = [providers EXCEPT ![k] = new]  BY DEF remove_provider
  <1>6. /\ new \in Seq(Apis) /\ NoRepeats(new) /\ Held(new) = Held(providers[k]) \ {a}
    <2>1. CASE k[1] = "srv"
      <3>1. k[2] \in Services /\ k = <<"srv", k[2]>>  BY <2>1, Keys
      <3>2. \A x, y \in Held(providers[k]) : x = y  BY <3>1 DEF RegInv, Served
      <3>3. DOMAIN <<>> = {} /\ <<>> \in Seq(Apis)  BY EmptySeq
      <3>4. QED  BY <2>1, <3>2, <3>3 DEF Held, NoRepeats
    <2>2. CASE k[1] # "srv"
      <3>1. new = Filter(providers[k], Apis \ {a})  BY <2>2
      <3>2. providers[k] \in Seq(Apis) /\ NoRepeats(providers[k])  BY <1>3 DEF RegInv, Once
      <3>3. Held(providers[k]) \subseteq Apis  BY <3>2 DEF Held
      <3> HIDE DEF new
      <3>4. /\ new \in Seq(Apis) /\ Held(new) = Held(providers[k]) \cap (Apis \ {a})
            /\ NoRepeats(new)
        BY <3>1, <3>2, FilterMembers, FilterNoRepeats
      <3>5. QED  BY <3>3, <3>4
    <2>3. QED  BY <2>1, <2>2
  <1> HIDE DEF new
  <1>7. /\ providers' \in [Reg -> Seq(Apis)] /\ providers'[k] = new
        /\ \A j \in Reg \ {k} : providers'[j] = providers[j]
    BY <1>3, <1>4, <1>5, <1>6
  <1>8. \A j \in Reg : NoRepeats(providers'[j])
    <2>1. \A j \in Reg : NoRepeats(providers[j])  BY DEF RegInv, Once
    <2>2. QED  BY <1>6, <1>7, <2>1
  <1>9. service_api_map' \in [Services -> SUBSET Apis]
    <2>1. CASE k[1] = "srv"
      <3>1. k[2] \in Services  BY <2>1, Keys
      <3>2. QED  BY <1>3, <1>4, <2>1, <3>1
    <2>2. CASE k[1] # "srv"  BY <1>3, <1>4, <2>2
    <2>3. QED  BY <2>1, <2>2
  <1>10. QED  BY <1>4, <1>6, <1>7, <1>8, <1>9

\* What _unregister does to the references of a process that holds k.
LEMMA UnregisterRefs ==
    ASSUME RegInv, NEW a \in Apis, NEW k \in Reg, unregister(a, k),
           a \in Held(providers[k])
    PROVE  /\ nodes' \in [Names -> NodeRef \cup {NoNode}]
           /\ \A m \in Names \ {NameOf[a]} : nodes'[m] = nodes[m]
           /\ nodes'[NameOf[a]] = NoNode =>
                 nodes[NameOf[a]].refs \ {k} = {}
           /\ nodes'[NameOf[a]] # NoNode =>
                 /\ nodes'[NameOf[a]].api = a
                 /\ nodes'[NameOf[a]].refs = nodes[NameOf[a]].refs \ {k}
                 /\ nodes'[NameOf[a]].refs # {}
  <1> DEFINE n == NameOf[a]
             left == nodes[n].refs \ {k}
             ref == [nodes[n] EXCEPT !.refs = left]
  <1>1. n \in Names  BY MasterAssumption
  <1>2. nodes[n] # NoNode /\ nodes[n].api = a  BY DEF RegInv, Owned
  <1>3. is_provider(a, k)  BY Provider
  <1>4. nodes \in [Names -> NodeRef \cup {NoNode}] /\ RegType  BY DEF RegInv, RegType
  <1>5. nodes' = [nodes EXCEPT ![n] = IF left = {} THEN NoNode ELSE ref]
    BY <1>2, <1>3 DEF unregister
  <1>6. nodes[n] \in NodeRef /\ left \subseteq Reg  BY <1>1, <1>2, <1>4, Refs
  <1>l. left = nodes[n].refs \ {k}  OBVIOUS
  <1> HIDE DEF left
  <1>7. ref \in NodeRef /\ ref.api = a /\ ref.refs = left  BY <1>2, <1>6 DEF NodeRef
  <1> HIDE DEF ref
  <1>8. ref # NoNode  BY <1>7, NoNodeAssumption
  <1>9. CASE left = {}
    <2>1. nodes' = [nodes EXCEPT ![n] = NoNode]  BY <1>5, <1>9
    <2>2. QED  BY <1>1, <1>4, <1>9, <1>l, <2>1
  <1>10. CASE left # {}
    <2>1. nodes' = [nodes EXCEPT ![n] = ref]  BY <1>5, <1>10
    <2>2. /\ nodes' \in [Names -> NodeRef \cup {NoNode}] /\ nodes'[n] = ref
          /\ \A m \in Names \ {n} : nodes'[m] = nodes[m]
      BY <1>1, <1>4, <1>7, <2>1
    <2>3. QED  BY <1>7, <1>8, <1>10, <1>l, <2>2
  <1>11. QED  BY <1>9, <1>10

\* A process that does not hold k loses nothing by _unregister.
LEMMA UnregisterNothing ==
    ASSUME RegInv, NEW a \in Apis, NEW k \in Reg, unregister(a, k),
           a \notin Held(providers[k])
    PROVE  UNCHANGED regVars
  <1> DEFINE n == NameOf[a]
  <1>1. n \in Names  BY MasterAssumption
  <1>2. ~is_provider(a, k)  BY Provider
  <1>3. providers' = providers /\ service_api_map' = service_api_map
    BY <1>2 DEF unregister
  <1>4. CASE nodes[n] = NoNode  BY <1>3, <1>4 DEF unregister, regVars
  <1>5. CASE nodes[n] # NoNode
    <2>1. nodes[n] \in NodeRef /\ nodes[n].refs # {}
      BY <1>1, <1>5, Refs DEF RegInv, Named
    <2>2. nodes' = [nodes EXCEPT ![n] = [@ EXCEPT !.refs = nodes[n].refs]]
      BY <1>2, <1>5, <2>1 DEF unregister
    <2>3. [nodes[n] EXCEPT !.refs = nodes[n].refs] = nodes[n]  BY <2>1 DEF NodeRef
    <2>4. nodes \in [Names -> NodeRef \cup {NoNode}]  BY DEF RegInv, RegType
    <2>5. nodes' = nodes  BY <1>1, <2>2, <2>3, <2>4
    <2>6. QED  BY <1>3, <2>5 DEF regVars
  <1>6. QED  BY <1>4, <1>5

\* Taking a registration back keeps the invariant of the tables.
LEMMA UnregisterStep ==
    ASSUME RegInv, NEW a \in Apis, NEW k \in Reg, unregister(a, k),
           mine' = [mine EXCEPT ![a] = @ \ {k}]
    PROVE  RegInv'
  <1> DEFINE n == NameOf[a]
  <1>n. n \in Names /\ \A b \in Apis : NameOf[b] \in Names  BY MasterAssumption
  <1>t. /\ RegType /\ Owned /\ Counted /\ Named /\ Wanted /\ Served /\ Once
        /\ \A j \in Reg : Held(providers[j]) \subseteq Apis
    <2>1. RegType  BY DEF RegInv
    <2>2. ASSUME NEW j \in Reg  PROVE Held(providers[j]) \subseteq Apis
      <3>1. providers[j] \in Seq(Apis)  BY <2>1 DEF RegType
      <3>2. QED  BY <3>1 DEF Held
    <2>3. QED  BY <2>1, <2>2 DEF RegInv
  <1>m. /\ mine' \in [Apis -> SUBSET Reg]
        /\ \A b \in Apis \ {a} : mine'[b] = mine[b]
        /\ mine'[a] = mine[a] \ {k}
    BY <1>t DEF RegType
  <1>1. CASE a \notin Held(providers[k])
    <2>1. /\ providers' = providers /\ service_api_map' = service_api_map
          /\ nodes' = nodes
      BY <1>1, UnregisterNothing DEF regVars
    <2>2. Wanted'
      <3> SUFFICES ASSUME NEW j \in Reg, NEW b \in Held(providers[j])
                   PROVE  j \in mine'[b]
        BY <2>1 DEF Wanted
      <3>1. b \in Apis /\ j \in mine[b]  BY <1>t DEF Wanted
      <3>2. b = a => j # k  BY <1>1
      <3>3. QED  BY <1>m, <3>1, <3>2
    <2>3. RegType'  BY <1>m, <1>t, <2>1 DEF RegType
    <2>4. QED  BY <1>t, <2>1, <2>2, <2>3
            DEF RegInv, Owned, Counted, Named, Served, Once
  <1>2. CASE a \in Held(providers[k])
    <2>p. /\ providers' \in [Reg -> Seq(Apis)]
          /\ service_api_map' \in [Services -> SUBSET Apis]
          /\ \A j \in Reg : NoRepeats(providers'[j])
          /\ \A j \in Reg \ {k} : providers'[j] = providers[j]
          /\ Held(providers'[k]) = Held(providers[k]) \ {a}
          /\ service_api_map' = IF k[1] = "srv"
                                THEN [service_api_map EXCEPT ![k[2]] = {}]
                                ELSE service_api_map
      BY <1>2, UnregisterTables
    <2>r. /\ nodes' \in [Names -> NodeRef \cup {NoNode}]
          /\ \A m \in Names \ {n} : nodes'[m] = nodes[m]
          /\ nodes'[n] = NoNode => nodes[n].refs \ {k} = {}
          /\ nodes'[n] # NoNode => /\ nodes'[n].api = a
                                  /\ nodes'[n].refs = nodes[n].refs \ {k}
                                  /\ nodes'[n].refs # {}
      BY <1>2, UnregisterRefs
    <2>o. /\ nodes[n] # NoNode /\ nodes[n].api = a /\ k \in nodes[n].refs
          /\ nodes[n].refs \subseteq Reg
      BY <1>n, <1>t, <1>2, Refs DEF Owned
    <2>h. \A j \in Reg : \A b \in Held(providers'[j]) :
             b \in Held(providers[j]) /\ ~(b = a /\ j = k)
      BY <2>p
    <2>1. RegType'  BY <1>m, <2>p, <2>r DEF RegType
    <2>2. Owned'
      <3> SUFFICES ASSUME NEW j \in Reg, NEW b \in Held(providers'[j])
                   PROVE  /\ nodes'[NameOf[b]] # NoNode
                          /\ nodes'[NameOf[b]].api = b
                          /\ j \in nodes'[NameOf[b]].refs
        BY DEF Owned
      <3>1. b \in Held(providers[j]) /\ ~(b = a /\ j = k)  BY <2>h
      <3>2. /\ b \in Apis /\ nodes[NameOf[b]] # NoNode
            /\ nodes[NameOf[b]].api = b /\ j \in nodes[NameOf[b]].refs
        BY <1>t, <3>1 DEF Owned
      <3>3. CASE NameOf[b] = n
        <4>1. b = a /\ j # k  BY <2>o, <3>1, <3>2, <3>3
        <4>2. j \in nodes[n].refs \ {k}  BY <3>2, <3>3, <4>1
        <4>3. nodes'[n] # NoNode  BY <2>r, <4>2
        <4>4. QED  BY <2>r, <3>3, <4>1, <4>2, <4>3
      <3>4. CASE NameOf[b] # n
        <4>1. nodes'[NameOf[b]] = nodes[NameOf[b]]  BY <1>n, <2>r, <3>2, <3>4
        <4>2. QED  BY <3>2, <4>1
      <3>5. QED  BY <3>3, <3>4
    <2>3. Counted'
      <3> SUFFICES ASSUME NEW m \in Names, nodes'[m] # NoNode, NEW j \in nodes'[m].refs,
                          j[1] # "srv"
                   PROVE  nodes'[m].api \in Held(providers'[j])
        BY DEF Counted
      <3>1. CASE m = n
        <4>1. j \in nodes[n].refs /\ j # k /\ j \in Reg  BY <2>o, <2>r, <3>1
        <4>2. a \in Held(providers[j])  BY <1>n, <1>t, <2>o, <4>1 DEF Counted
        <4>3. QED  BY <2>p, <2>r, <3>1, <4>1, <4>2
      <3>2. CASE m # n
        <4>1. nodes'[m] = nodes[m] /\ nodes[m] # NoNode /\ j \in nodes[m].refs
          BY <2>r, <3>2
        <4>2. nodes[m].api \in Apis /\ nodes[m].refs \subseteq Reg  BY <1>t, <4>1, Refs
        <4>3. NameOf[nodes[m].api] = m /\ nodes[m].api \in Held(providers[j])
          BY <1>t, <4>1 DEF Counted, Named
        <4>4. nodes[m].api # a  BY <3>2, <4>3
        <4>5. nodes[m].api \in Held(providers'[j])  BY <2>p, <4>1, <4>2, <4>3, <4>4
        <4>6. QED  BY <4>1, <4>5
      <3>3. QED  BY <3>1, <3>2
    <2>4. Named'
      <3> SUFFICES ASSUME NEW m \in Names, nodes'[m] # NoNode
                   PROVE  NameOf[nodes'[m].api] = m /\ nodes'[m].refs # {}
        BY DEF Named
      <3>1. CASE m = n  BY <2>r, <3>1
      <3>2. CASE m # n
        <4>1. nodes'[m] = nodes[m]  BY <2>r, <3>2
        <4>2. QED  BY <1>t, <4>1 DEF Named
      <3>3. QED  BY <3>1, <3>2
    <2>5. Wanted'
      <3> SUFFICES ASSUME NEW j \in Reg, NEW b \in Held(providers'[j])
                   PROVE  j \in mine'[b]
        BY DEF Wanted
      <3>1. b \in Held(providers[j]) /\ ~(b = a /\ j = k)  BY <2>h
      <3>2. b \in Apis /\ j \in mine[b]  BY <1>t, <3>1 DEF Wanted
      <3>3. QED  BY <1>m, <3>1, <3>2
    <2>6. Served'
      <3> SUFFICES ASSUME NEW s \in Services
                   PROVE  /\ service_api_map'[s] = Held(providers'[<<"srv", s>>])
                          /\ \A x, y \in Held(providers'[<<"srv", s>>]) : x = y
        BY DEF Served
      <3>1. <<"srv", s>> \in Reg /\ <<"srv", s>>[1] = "srv" /\ <<"srv", s>>[2] = s  BY Keys
      <3>2. /\ service_api_map[s] = Held(providers[<<"srv", s>>])
            /\ \A x, y \in Held(providers[<<"srv", s>>]) : x = y
        BY <1>t DEF Served
      <3>3. service_api_map \in [Services -> SUBSET Apis]  BY <1>t DEF RegType
      <3>4. CASE k = <<"srv", s>>
        <4>1. Held(providers'[k]) = {}  BY <1>2, <2>p, <3>2, <3>4
        <4>2. service_api_map'[s] = {}  BY <2>p, <3>1, <3>3, <3>4
        <4>3. QED  BY <3>4, <4>1, <4>2
      <3>5. CASE k # <<"srv", s>>
        <4>1. providers'[<<"srv", s>>] = providers[<<"srv", s>>]  BY <2>p, <3>1, <3>5
        <4>2. k[1] = "srv" => k[2] # s  BY <3>5, Keys
        <4>3. service_api_map'[s] = service_api_map[s]  BY <2>p, <3>3, <4>2
        <4>4. QED  BY <3>2, <4>1, <4>3
      <3>6. QED  BY <3>4, <3>5
    <2>7. Once'  BY <2>p DEF Once
    <2>8. QED  BY <2>1, <2>2, <2>3, <2>4, <2>5, <2>6, <2>7 DEF RegInv
  <1>3. QED  BY <1>1, <1>2

-----------------------------------------------------------------------------
(* The steps of the pool.                                                  *)

\* _notify queues tasks, and so does the loss of a name.
LEMMA NewTasks ==
    ASSUME RegType
    PROVE  /\ \A a \in Apis : bump_task(a) \in Seq(Task)
           /\ \A t \in Topics, list, to \in Seq(Apis) : notify(t, list, to) \in Seq(Task)
  <1>1. ASSUME NEW a \in Apis  PROVE bump_task(a) \in Seq(Task)
    <2>1. CASE changed(a)
      <3> DEFINE x == [marker |-> nodes[NameOf[a]].api, task |-> "shutdown"]
      <3>1. NameOf[a] \in Names /\ nodes[NameOf[a]] # NoNode
        BY <2>1, MasterAssumption DEF changed
      <3>2. nodes[NameOf[a]].api \in Apis  BY <3>1, Refs
      <3>3. x \in Task  BY <3>2 DEF Task
      <3>4. bump_task(a) = <<x>>  BY <2>1 DEF bump_task
      <3> HIDE DEF x
      <3>5. QED  BY <3>3, <3>4
    <2>2. CASE ~changed(a)
      <3>1. bump_task(a) = <<>>  BY <2>2 DEF bump_task
      <3>2. QED  BY <3>1, EmptySeq
    <2>3. QED  BY <2>1, <2>2
  <1>2. ASSUME NEW t \in Topics, NEW list \in Seq(Apis), NEW to \in Seq(Apis)
        PROVE  notify(t, list, to) \in Seq(Task)
    <2> DEFINE x(i) == [marker |-> to[i], task |-> "publisherUpdate",
                        topic |-> t, list |-> list]
    <2>1. DOMAIN to = 1..Len(to) /\ Len(to) \in Nat  BY LenProperties
    <2>2. ASSUME NEW i \in 1..Len(to)  PROVE x(i) \in Task
      <3>1. to[i] \in Apis  BY ElementOfSeq
      <3>2. QED  BY <3>1 DEF Task
    <2>3. notify(t, list, to) = [i \in 1..Len(to) |-> x(i)]  BY <2>1 DEF notify
    <2> HIDE DEF x
    <2>4. QED  BY <2>1, <2>2, <2>3, IsASeq
  <1>3. QED  BY <1>1, <1>2

\* The queue without one of its tasks.
LEMMA Taken ==
    ASSUME NEW s \in Seq(Task), NEW i \in DOMAIN s
    PROVE  RemoveAt(s, i) \in Seq(Task) /\ s[i] \in Task
  <1>1. Len(s) \in Nat /\ DOMAIN s = 1..Len(s) /\ i \in 1..Len(s)  BY LenProperties
  <1>2. SubSeq(s, 1, i - 1) \in Seq(Task)  BY <1>1, SubSeqProperties
  <1>3. SubSeq(s, i + 1, Len(s)) \in Seq(Task)  BY <1>1, SubSeqProperties
  <1>4. s[i] \in Task  BY <1>1, ElementOfSeq
  <1>5. QED  BY <1>2, <1>3, <1>4, ConcatProperties DEF RemoveAt

\* A thread takes the first task of a process no thread is working for.
LEMMA FirstEligible ==
    ASSUME PoolType, eligible # {}
    PROVE  LET i == CHOOSE j \in eligible : \A k \in eligible : j <= k
           IN  i \in eligible /\ \A k \in eligible : i <= k
  <1>1. eligible \in SUBSET Nat
    <2>1. tasks \in Seq(Task)  BY DEF PoolType
    <2>2. DOMAIN tasks \subseteq Nat  BY <2>1, LenProperties
    <2>3. QED  BY <2>2 DEF eligible
  <1>2. \E j \in eligible : \A k \in eligible : j <= k  BY <1>1, LeastNumber
  <1>3. QED  BY <1>2

\* The steps of a thread keep the invariant of the pool.
LEMMA ThreadStep ==
    ASSUME IInv, NEW w \in Workers, Thread(w)
    PROVE  IInv'
  <1>t. /\ tasks \in Seq(Task) /\ running \in [Workers -> Task \cup {<<>>}]
        /\ calls \in 0..MaxCalls
        /\ RegInv /\ PoolType /\ Alone
    BY DEF IInv, PoolType
  <1>u. UNCHANGED <<regVars, mine, calls>>
    BY DEF Thread, get_next_task, finish_task, fail_task
  <1>r. RegInv'
    BY <1>t, <1>u DEF regVars, RegInv, RegType, Owned, Counted, Named, Wanted, Served, Once
  <1>c. calls' \in 0..MaxCalls  BY <1>t, <1>u
  <1>1. CASE get_next_task(w)
    <2> DEFINE i == CHOOSE j \in eligible : \A k \in eligible : j <= k
    <2>1. i \in eligible  BY <1>t, <1>1, FirstEligible DEF get_next_task
    <2>2. running' = [running EXCEPT ![w] = tasks[i]] /\ tasks' = RemoveAt(tasks, i)
      BY <1>1 DEF get_next_task
    <2> HIDE DEF i
    <2>3. i \in DOMAIN tasks /\ tasks[i].marker \notin markers  BY <2>1 DEF eligible
    <2>4. tasks' \in Seq(Task) /\ tasks[i] \in Task  BY <1>t, <2>2, <2>3, Taken
    <2>5. running' \in [Workers -> Task \cup {<<>>}]  BY <1>t, <2>2, <2>4
    <2>6. \A v \in Workers : running[v] # <<>> => running[v].marker \in markers
      BY DEF markers
    <2>7. running'[w] = tasks[i] /\ \A v \in Workers \ {w} : running'[v] = running[v]
      BY <1>t, <2>2
    <2>8. Alone'
      <3> SUFFICES ASSUME NEW v \in Workers, NEW x \in Workers, running'[v] # <<>>,
                          running'[x] # <<>>, running'[v].marker = running'[x].marker
                   PROVE  v = x
        BY DEF Alone
      <3>1. CASE v # w /\ x # w  BY <1>t, <2>7, <3>1 DEF Alone
      <3>2. CASE v = w /\ x # w
        <4>1. running[x] # <<>> /\ running[x].marker = tasks[i].marker  BY <2>7, <3>2
        <4>2. QED  BY <2>3, <2>6, <4>1
      <3>3. CASE v # w /\ x = w
        <4>1. running[v] # <<>> /\ running[v].marker = tasks[i].marker  BY <2>7, <3>3
        <4>2. QED  BY <2>3, <2>6, <4>1
      <3>4. QED  BY <3>1, <3>2, <3>3
    <2>9. QED  BY <1>c, <1>r, <2>4, <2>5, <2>8 DEF IInv, PoolType
  <1>2. CASE finish_task(w) \/ fail_task(w)
    <2>1. running' = [running EXCEPT ![w] = <<>>] /\ tasks' = tasks
      BY <1>2 DEF finish_task, fail_task
    <2>2. running' \in [Workers -> Task \cup {<<>>}]  BY <1>t, <2>1
    <2>3. running'[w] = <<>> /\ \A v \in Workers \ {w} : running'[v] = running[v]
      BY <1>t, <2>1
    <2>4. Alone'  BY <1>t, <2>3 DEF Alone
    <2>5. QED  BY <1>c, <1>r, <1>t, <2>1, <2>2, <2>4 DEF IInv, PoolType
  <1>3. QED  BY <1>1, <1>2 DEF Thread

-----------------------------------------------------------------------------
(* The API handlers.                                                       *)

\* A process registers a key, or takes one back.
Registers(a, k) == register(a, k) /\ mine' = [mine EXCEPT ![a] = @ \cup {k}]
TakesBack(a, k) == /\ unregister(a, k) /\ k \in mine[a]
                   /\ mine' = [mine EXCEPT ![a] = @ \ {k}]

\* A request is one or the other.
LEMMA Requests ==
    ASSUME NEW a \in Apis, Request(a)
    PROVE  (\E k \in Reg : Registers(a, k)) \/ (\E k \in Reg : TakesBack(a, k))
  <1>1. ASSUME NEW t \in Topics, registerPublisher(a, t)
        PROVE  Pub(t) \in Reg /\ Registers(a, Pub(t))
    BY <1>1, Keys DEF registerPublisher, Registers
  <1>2. ASSUME NEW t \in Topics, registerSubscriber(a, t)
        PROVE  Sub(t) \in Reg /\ Registers(a, Sub(t))
    BY <1>2, Keys DEF registerSubscriber, Registers
  <1>3. ASSUME NEW t \in Topics, unregisterPublisher(a, t)
        PROVE  Pub(t) \in Reg /\ TakesBack(a, Pub(t))
    BY <1>3, Keys DEF unregisterPublisher, TakesBack
  <1>4. ASSUME NEW t \in Topics, unregisterSubscriber(a, t)
        PROVE  Sub(t) \in Reg /\ TakesBack(a, Sub(t))
    BY <1>4, Keys DEF unregisterSubscriber, unregisterOther, TakesBack
  <1>5. ASSUME NEW s \in Services, registerService(a, s)
        PROVE  <<"srv", s>> \in Reg /\ Registers(a, <<"srv", s>>)
    BY <1>5, Keys DEF registerService, registerOther, Registers
  <1>6. ASSUME NEW s \in Services, unregisterService(a, s)
        PROVE  <<"srv", s>> \in Reg /\ TakesBack(a, <<"srv", s>>)
    BY <1>6, Keys DEF unregisterService, unregisterOther, TakesBack
  <1>7. ASSUME NEW p \in Params, subscribeParam(a, p)
        PROVE  <<"par", p>> \in Reg /\ Registers(a, <<"par", p>>)
    BY <1>7, Keys DEF subscribeParam, registerOther, Registers
  <1>8. ASSUME NEW p \in Params, unsubscribeParam(a, p)
        PROVE  <<"par", p>> \in Reg /\ TakesBack(a, <<"par", p>>)
    BY <1>8, Keys DEF unsubscribeParam, unregisterOther, TakesBack
  <1>9. QED  BY <1>1, <1>2, <1>3, <1>4, <1>5, <1>6, <1>7, <1>8 DEF Request

\* A request keeps the invariant.
LEMMA RequestStep ==
    ASSUME IInv, NEW a \in Apis, Request(a)
    PROVE  IInv'
  <1>t. RegInv /\ RegType /\ PoolType /\ Alone  BY DEF IInv, RegInv
  <1>1. RegInv'
    <2>1. CASE \E k \in Reg : Registers(a, k)
      BY <1>t, <2>1, RegisterStep DEF Registers
    <2>2. CASE \E k \in Reg : TakesBack(a, k)
      BY <1>t, <2>2, UnregisterStep DEF TakesBack
    <2>3. QED  BY <2>1, <2>2, Requests
  <1>2. /\ Call
        /\ running' = running
    BY DEF Request, registerPublisher, registerSubscriber, unregisterPublisher,
           unregisterSubscriber, registerService, unregisterService, subscribeParam,
           unsubscribeParam, registerOther, unregisterOther, poolVars
  <1>3. calls' \in 0..MaxCalls  BY <1>2, <1>t, MasterAssumption DEF Call, PoolType
  <1>4. tasks' \in Seq(Task)
    <2>1. tasks \in Seq(Task) /\ bump_task(a) \in Seq(Task)  BY <1>t, NewTasks DEF PoolType
    <2>2. tasks \o bump_task(a) \in Seq(Task)  BY <2>1, ConcatProperties
    <2>3. providers \in [Reg -> Seq(Apis)] /\ providers' \in [Reg -> Seq(Apis)]
      BY <1>1, <1>t DEF RegInv, RegType
    <2>4. ASSUME NEW t \in Topics, registerPublisher(a, t)  PROVE tasks' \in Seq(Task)
      <3> DEFINE new == notify(t, providers'[Pub(t)], providers'[Sub(t)])
      <3>1. providers'[Pub(t)] \in Seq(Apis) /\ providers'[Sub(t)] \in Seq(Apis)
        BY <2>3, Keys
      <3>2. new \in Seq(Task)  BY <1>t, <3>1, NewTasks
      <3>3. tasks' = (tasks \o bump_task(a)) \o new  BY <2>4 DEF registerPublisher
      <3> HIDE DEF new
      <3>4. QED  BY <2>2, <3>2, <3>3, ConcatProperties
    <2>5. ASSUME NEW t \in Topics, unregisterPublisher(a, t)  PROVE tasks' \in Seq(Task)
      <3> DEFINE new == IF providers' # providers
                        THEN notify(t, providers'[Pub(t)], providers[Sub(t)]) ELSE <<>>
      <3>1. providers'[Pub(t)] \in Seq(Apis) /\ providers[Sub(t)] \in Seq(Apis)
        BY <2>3, Keys
      <3>2. new \in Seq(Task)  BY <1>t, <3>1, NewTasks, EmptySeq
      <3>3. tasks' = tasks \o new  BY <2>5 DEF unregisterPublisher
      <3> HIDE DEF new
      <3>4. QED  BY <2>1, <3>2, <3>3, ConcatProperties
    <2>6. ASSUME NEW t \in Topics, registerSubscriber(a, t) \/ unregisterSubscriber(a, t)
          PROVE  tasks' \in Seq(Task)
      BY <2>1, <2>2, <2>6 DEF registerSubscriber, unregisterSubscriber, unregisterOther, poolVars
    <2>7. ASSUME NEW k, registerOther(a, k) \/ unregisterOther(a, k)
          PROVE  tasks' \in Seq(Task)
      BY <2>1, <2>2, <2>7 DEF registerOther, unregisterOther, poolVars
    <2>8. QED  BY <2>4, <2>5, <2>6, <2>7 DEF Request, registerService, unregisterService,
                                             subscribeParam, unsubscribeParam
  <1>5. Alone'  BY <1>2, <1>t DEF Alone
  <1>6. QED  BY <1>1, <1>2, <1>3, <1>4, <1>5, <1>t DEF IInv, PoolType

\* The tables start empty.
LEMMA InitInv == ASSUME Init  PROVE IInv
  <1>1. <<>> \in Seq(Apis) /\ <<>> \in Seq(Task) /\ DOMAIN <<>> = {}  BY EmptySeq
  <1>2. \A k \in Reg : providers[k] = <<>> /\ Held(providers[k]) = {}
    BY <1>1 DEF Init, Held
  <1>3. RegType  BY <1>1 DEF Init, RegType
  <1>4. Owned /\ Wanted  BY <1>2 DEF Owned, Wanted
  <1>5. Counted /\ Named  BY DEF Init, Counted, Named
  <1>6. Served  BY <1>2, Keys DEF Init, Served
  <1>7. Once  BY <1>1, <1>2 DEF Once, NoRepeats
  <1>8. PoolType  BY <1>1, MasterAssumption DEF Init, PoolType
  <1>9. Alone  BY DEF Init, Alone
  <1>10. QED  BY <1>3, <1>4, <1>5, <1>6, <1>7, <1>8, <1>9 DEF IInv, RegInv

\* Every step keeps the invariant.
LEMMA NextInv == ASSUME IInv, [Next]_vars  PROVE IInv'
  <1>1. ASSUME NEW a \in Apis, Request(a)  PROVE IInv'  BY <1>1, RequestStep
  <1>2. ASSUME NEW w \in Workers, Thread(w)  PROVE IInv'  BY <1>2, ThreadStep
  <1>3. CASE UNCHANGED vars
    BY <1>3 DEF vars, regVars, poolVars, IInv, RegInv, RegType, Owned, Counted, Named,
                Wanted, Served, Once, PoolType, Alone
  <1>4. QED  BY <1>1, <1>2, <1>3 DEF Next

\* The invariant of the tables and of the pool holds in every state.
THEOREM InvariantHolds == Spec => []IInv
  <1>1. QED  BY InitInv, NextInv, PTL DEF Spec

(***************************************************************************)
(* The registration tables, service_api_map and the node references agree  *)
(* after every API call (registrations.py), and the pool's tasks are       *)
(* marked with node URIs.                                                  *)
(***************************************************************************)
THEOREM TablesAgree == Spec => []RefsAgree
  <1>1. QED  BY InvariantHolds, InvImplies, PTL

\* What ends a registration.
LEMMA EndStep ==
    ASSUME IInv, [Next]_vars
    PROVE  \A k \in Reg : \A a \in Held(providers[k]) \ Held(providers'[k]) :
             \/ k \in mine[a] /\ k \notin mine'[a]
             \/ nodes'[NameOf[a]] # NoNode /\ nodes'[NameOf[a]].api # a
             \/ k[1] = "srv" /\ providers'[k] # <<>>
  <1>t. RegInv /\ RegType /\ Owned /\ Wanted  BY DEF IInv, RegInv
  <1> SUFFICES ASSUME NEW k \in Reg, NEW a \in Held(providers[k]) \ Held(providers'[k])
               PROVE  \/ k \in mine[a] /\ k \notin mine'[a]
                      \/ nodes'[NameOf[a]] # NoNode /\ nodes'[NameOf[a]].api # a
                      \/ k[1] = "srv" /\ providers'[k] # <<>>
    OBVIOUS
  <1>a. a \in Apis /\ k \in mine[a]
    <2>1. providers[k] \in Seq(Apis)  BY <1>t DEF RegType
    <2>2. a \in Apis  BY <2>1 DEF Held
    <2>3. QED  BY <1>t, <2>2 DEF Wanted
  <1>1. ASSUME NEW b \in Apis, NEW j \in Reg, Registers(b, j)
        PROVE  \/ nodes'[NameOf[a]] # NoNode /\ nodes'[NameOf[a]].api # a
               \/ k[1] = "srv" /\ providers'[k] # <<>>
    <2>1. register(b, j)  BY <1>1 DEF Registers
    <2>2. /\ \A i \in Reg \ {j} : Held(providers'[i]) =
                {c \in Held(providers[i]) : ~ (changed(b) /\ NameOf[c] = NameOf[b])}
          /\ Held(providers'[j]) =
                IF j[1] = "srv" THEN {b}
                ELSE {c \in Held(providers[j]) : ~ (changed(b) /\ NameOf[c] = NameOf[b])}
                        \cup {b}
      BY <1>t, <2>1, RegisterTables
    <2>3. nodes'[NameOf[b]] # NoNode /\ nodes'[NameOf[b]].api = b
      BY <1>t, <2>1, RegisterRefs
    <2>4. CASE k = j /\ j[1] = "srv"
      <3>1. Held(providers'[k]) # {}  BY <2>2, <2>4
      <3>2. Held(<<>>) = {}  BY EmptySeq DEF Held
      <3>3. QED  BY <2>4, <3>1, <3>2
    <2>5. CASE ~(k = j /\ j[1] = "srv")
      <3>1. changed(b) /\ NameOf[a] = NameOf[b]  BY <2>2, <2>5
      <3>2. nodes[NameOf[a]].api = a  BY <1>t DEF Owned
      <3>3. a # b  BY <3>1, <3>2 DEF changed
      <3>4. QED  BY <2>3, <3>1, <3>3
    <2>6. QED  BY <2>4, <2>5
  <1>2. ASSUME NEW b \in Apis, NEW j \in Reg, TakesBack(b, j)
        PROVE  k \in mine[a] /\ k \notin mine'[a]
    <2>1. unregister(b, j) /\ mine' = [mine EXCEPT ![b] = @ \ {j}]  BY <1>2 DEF TakesBack
    <2>2. CASE b \notin Held(providers[j])
      <3>1. providers' = providers  BY <1>t, <2>1, <2>2, UnregisterNothing DEF regVars
      <3>2. QED  BY <3>1
    <2>3. CASE b \in Held(providers[j])
      <3>1. /\ \A i \in Reg \ {j} : providers'[i] = providers[i]
            /\ Held(providers'[j]) = Held(providers[j]) \ {b}
        BY <1>t, <2>1, <2>3, UnregisterTables
      <3>2. k = j /\ a = b  BY <3>1
      <3>3. mine \in [Apis -> SUBSET Reg]  BY <1>t DEF RegType
      <3>4. mine'[b] = mine[b] \ {j}  BY <2>1, <3>3
      <3>5. QED  BY <1>a, <3>2, <3>4
    <2>4. QED  BY <2>2, <2>3
  <1>3. CASE \E b \in Apis : Request(b)
    BY <1>1, <1>2, <1>3, Requests
  <1>4. CASE (\E w \in Workers : Thread(w)) \/ UNCHANGED vars
    <2>1. providers' = providers
      BY <1>4 DEF Thread, get_next_task, finish_task, fail_task, vars, regVars
    <2>2. QED  BY <2>1
  <1>5. QED  BY <1>3, <1>4 DEF Next

(***************************************************************************)
(* A registration ends because its own process asked, because another      *)
(* process took its name, or because another process provides the service: *)
(* a late unregister call of a replaced process touches nothing            *)
(* (Registrations.unregister compares the URIs).                           *)
(***************************************************************************)
THEOREM RegistrationsEndByTheirOwn == Spec => OnlyOwnRegistrationsEnd
  <1>1. IInv /\ [Next]_vars =>
          [\A k \in Reg : \A a \in Held(providers[k]) \ Held(providers'[k]) :
             \/ k \in mine[a] /\ k \notin mine'[a]
             \/ nodes'[NameOf[a]] # NoNode /\ nodes'[NameOf[a]].api # a
             \/ k[1] = "srv" /\ providers'[k] # <<>>]_vars
    BY EndStep
  <1>2. QED  BY <1>1, InvariantHolds, PTL DEF Spec, OnlyOwnRegistrationsEnd

-----------------------------------------------------------------------------
(***************************************************************************)
(* The refinement: what is on the way to a process.                        *)
(***************************************************************************)

For(a) == {k \in Task : IsUpdateFor(a, k)}
Update == {UpdateOf(k) : k \in Task}
Updates(q) == [i \in DOMAIN q |-> UpdateOf(q[i])]

\* The updates for a in a queue, and the one a thread carries.
Queued(q, a) == Updates(Filter(q, For(a)))
Busy(a) == {w \in Workers : running[w] # <<>> /\ IsUpdateFor(a, running[w])}
Carried(a) == IF Busy(a) = {} THEN <<>>
              ELSE <<UpdateOf(running[CHOOSE w \in Busy(a) : TRUE])>>

\* FeedOf has two parts.
LEMMA FeedParts == \A a : FeedOf(a) = Carried(a) \o Queued(tasks, a)
  BY DEF FeedOf, Carried, Queued, Updates, Busy, For

\* The same of the next state.
LEMMA FeedPartsNext == \A a : FeedOf(a)' = Carried(a)' \o Queued(tasks', a)
  <1> TAKE a
  <1>1. FeedOf(a)' = Carried(a)' \o Queued(tasks, a)'
    BY DEF FeedOf, Carried, Queued, Updates, Busy, For
  <1>2. Queued(tasks, a)' = Queued(tasks', a)  BY DEF Queued, Filter, Updates
  <1>3. QED  BY <1>1, <1>2

\* Updates maps the elements of a list.
LEMMA UpdatesOf ==
    ASSUME NEW q \in Seq(Task)
    PROVE  /\ Updates(q) \in Seq(Update) /\ Len(Updates(q)) = Len(q)
           /\ \A i \in 1..Len(q) : Updates(q)[i] = UpdateOf(q[i])
  <1>1. Len(q) \in Nat /\ DOMAIN q = 1..Len(q)  BY LenProperties
  <1> DEFINE e(i) == UpdateOf(q[i])
  <1>2. Updates(q) = [i \in 1..Len(q) |-> e(i)]  BY <1>1 DEF Updates
  <1>3. \A i \in 1..Len(q) : e(i) \in Update  BY ElementOfSeq DEF Update
  <1>4. \A i \in 1..Len(q) : e(i) = UpdateOf(q[i])  OBVIOUS
  <1> HIDE DEF e
  <1>5. Updates(q) \in Seq(Update)  BY <1>1, <1>2, <1>3, IsASeq
  <1>6. DOMAIN Updates(q) = 1..Len(q)  BY <1>2
  <1>7. Len(Updates(q)) = Len(q)
    <2>1. Len(Updates(q)) \in Nat /\ DOMAIN Updates(q) = 1..Len(Updates(q))
      BY <1>5, LenProperties
    <2>2. PICK m \in Nat, n \in Nat : m = Len(Updates(q)) /\ n = Len(q)  BY <1>1, <2>1
    <2>3. 1..m = 1..n  BY <1>6, <2>1, <2>2
    <2>4. ~(m < n)
      <3>1. m < n => n \in 1..n /\ n \notin 1..m  OBVIOUS
      <3>2. QED  BY <2>3, <3>1
    <2>5. ~(n < m)
      <3>1. n < m => m \in 1..m /\ m \notin 1..n  OBVIOUS
      <3>2. QED  BY <2>3, <3>1
    <2>6. QED  BY <2>2, <2>4, <2>5
  <1>8. ASSUME NEW i \in 1..Len(q)  PROVE Updates(q)[i] = UpdateOf(q[i])
    <2>1. Updates(q)[i] = e(i)  BY <1>2
    <2>2. QED  BY <1>4, <2>1
  <1>9. QED  BY <1>5, <1>7, <1>8

Mapped(p, q) == Updates(p \o q) = Updates(p) \o Updates(q)

\* Updates of a concatenation.
LEMMA UpdatesConcat == ASSUME NEW p \in Seq(Task), NEW q \in Seq(Task)  PROVE Mapped(p, q)
  <1>1. PICK r \in Seq(Task) : r = p \o q /\ IsConcat(r, p, q)  BY ConcatParts
  <1>2. PICK u \in Seq(Update) :
          /\ u = Updates(p) /\ Len(u) = Len(p) /\ \A i \in 1..Len(p) : u[i] = UpdateOf(p[i])
    BY UpdatesOf
  <1>3. PICK v \in Seq(Update) :
          /\ v = Updates(q) /\ Len(v) = Len(q) /\ \A i \in 1..Len(q) : v[i] = UpdateOf(q[i])
    BY UpdatesOf
  <1>4. PICK x \in Seq(Update) :
          /\ x = Updates(r) /\ Len(x) = Len(r) /\ \A i \in 1..Len(r) : x[i] = UpdateOf(r[i])
    BY UpdatesOf
  <1>5. PICK y \in Seq(Update) : y = u \o v /\ IsConcat(y, u, v)  BY ConcatParts
  <1>6. /\ Len(x) = Len(y) /\ Len(p) \in Nat /\ Len(q) \in Nat
        /\ Len(r) = Len(p) + Len(q)
    BY <1>1, <1>2, <1>3, <1>4, <1>5 DEF IsConcat
  <1>7. ASSUME NEW i \in 1..Len(x)  PROVE x[i] = y[i]
    <2>1. i \in 1..Len(r) /\ x[i] = UpdateOf(r[i])  BY <1>4
    <2>2. CASE i <= Len(p)
      <3>1. i \in 1..Len(p) /\ i \in 1..Len(u)  BY <1>2, <1>6, <2>1, <2>2
      <3>2. r[i] = p[i]  BY <1>1, <3>1 DEF IsConcat
      <3>3. y[i] = u[i]  BY <1>5, <3>1 DEF IsConcat
      <3>4. u[i] = UpdateOf(p[i])  BY <1>2, <3>1
      <3>5. QED  BY <2>1, <3>2, <3>3, <3>4
    <2>3. CASE ~(i <= Len(p))
      <3>1. PICK j \in 1..Len(q) : i = Len(p) + j
        <4>1. i - Len(p) \in 1..Len(q) /\ i = Len(p) + (i - Len(p))  BY <1>6, <2>1, <2>3
        <4>2. QED  BY <4>1
      <3>2. r[i] = q[j]  BY <1>1, <3>1 DEF IsConcat
      <3>3. y[Len(u) + j] = v[j]  BY <1>3, <1>5, <3>1 DEF IsConcat
      <3>4. v[j] = UpdateOf(q[j])  BY <1>3, <3>1
      <3>5. QED  BY <1>2, <2>1, <3>1, <3>2, <3>3, <3>4
    <2>4. QED  BY <2>2, <2>3
  <1>8. x = y  BY <1>6, <1>7, SeqEqual
  <1>9. QED  BY <1>1, <1>2, <1>3, <1>4, <1>5, <1>8 DEF Mapped

\* Updates of no task and of one task.
LEMMA UpdatesOfOne ==
    /\ Updates(<<>>) = <<>>
    /\ \A x \in Task : Updates(<<x>>) = <<UpdateOf(x)>>
  <1>1. Updates(<<>>) = <<>>
    <2>1. <<>> \in Seq(Task) /\ Len(<<>>) = 0  BY EmptySeq
    <2>2. Updates(<<>>) \in Seq(Update) /\ Len(Updates(<<>>)) = 0  BY <2>1, UpdatesOf
    <2>3. QED  BY <2>2, EmptySeq
  <1>2. ASSUME NEW x \in Task  PROVE Updates(<<x>>) = <<UpdateOf(x)>>
    <2>1. DOMAIN <<x>> = 1..1 /\ <<x>>[1] = x  OBVIOUS
    <2>2. PICK u : u = UpdateOf(x)  OBVIOUS
    <2>3. Updates(<<x>>) = [i \in 1..1 |-> u]  BY <2>1, <2>2 DEF Updates
    <2>4. <<u>> = [i \in 1..1 |-> u]  OBVIOUS
    <2>5. QED  BY <2>2, <2>3, <2>4
  <1>3. QED  BY <1>1, <1>2

Follows(q, new, a) == Queued(q \o new, a) = Queued(q, a) \o Queued(new, a)

\* What is queued after more tasks were queued.
LEMMA QueuedConcat ==
    ASSUME NEW q \in Seq(Task), NEW new \in Seq(Task), NEW a
    PROVE  /\ Queued(q, a) \in Seq(Update)
           /\ Follows(q, new, a)
  <1>1. Divided(q, new, For(a))  BY FilterConcat
  <1>2. PICK f \in Seq(Task) : f = Filter(q, For(a))  BY FilterMembers
  <1>3. PICK g \in Seq(Task) : g = Filter(new, For(a))  BY FilterMembers
  <1>4. Mapped(f, g)  BY UpdatesConcat
  <1>5. Updates(f) \in Seq(Update)  BY UpdatesOf
  <1>6. Filter(q \o new, For(a)) = f \o g  BY <1>1, <1>2, <1>3 DEF Divided
  <1>7. Updates(f \o g) = Updates(f) \o Updates(g)  BY <1>4 DEF Mapped
  <1>8. Follows(q, new, a)  BY <1>2, <1>3, <1>6, <1>7 DEF Follows, Queued
  <1>9. QED  BY <1>2, <1>5, <1>8 DEF Queued

-----------------------------------------------------------------------------
(* What the steps do to the feeds.                                         *)

\* A task is not the value of an idle thread, and an update has its parts.
LEMMA TaskParts ==
    ASSUME NEW x \in Task
    PROVE  /\ x # <<>> /\ x.marker \in Apis
           /\ x.task = "publisherUpdate" => x.topic \in Topics /\ x.list \in Seq(Apis)
           /\ UpdateOf(x).topic = x.topic /\ UpdateOf(x).list = x.list
  <1>1. DOMAIN <<>> = {}  BY EmptySeq
  <1>2. CASE x \in [marker : Apis, task : {"shutdown"}]
    <2>1. "marker" \in DOMAIN x  BY <1>2
    <2>2. QED  BY <1>1, <1>2, <2>1 DEF UpdateOf
  <1>3. CASE x \in [marker : Apis, task : {"publisherUpdate"}, topic : Topics, list : Seq(Apis)]
    <2>1. "marker" \in DOMAIN x  BY <1>3
    <2>2. QED  BY <1>1, <1>3, <2>1 DEF UpdateOf
  <1>4. QED  BY <1>2, <1>3 DEF Task

\* A process has at most one update with a thread.
LEMMA CarriedOne ==
    ASSUME PoolType, Alone, NEW a \in Apis, NEW w \in Workers, running[w] # <<>>,
           running[w].marker = a
    PROVE  /\ running[w] \in Task
           /\ IsUpdateFor(a, running[w]) => Busy(a) = {w} /\ Carried(a) = <<UpdateOf(running[w])>>
           /\ ~IsUpdateFor(a, running[w]) => Busy(a) = {} /\ Carried(a) = <<>>
  <1>1. running[w] \in Task  BY DEF PoolType
  <1>2. \A v \in Busy(a) : v = w  BY DEF Busy, IsUpdateFor, Alone
  <1>3. ASSUME IsUpdateFor(a, running[w])
        PROVE  Busy(a) = {w} /\ Carried(a) = <<UpdateOf(running[w])>>
    <2>1. Busy(a) = {w}  BY <1>2, <1>3 DEF Busy
    <2>2. (CHOOSE v \in Busy(a) : TRUE) = w  BY <2>1
    <2>3. QED  BY <2>1, <2>2 DEF Carried
  <1>4. ASSUME ~IsUpdateFor(a, running[w])
        PROVE  Busy(a) = {} /\ Carried(a) = <<>>
    <2>1. Busy(a) = {}  BY <1>2, <1>4 DEF Busy
    <2>2. QED  BY <2>1 DEF Carried
  <1>5. QED  BY <1>1, <1>3, <1>4

\* What a thread carries is an update, if it carries any.
LEMMA CarriedType ==
    ASSUME PoolType, NEW a  PROVE Carried(a) \in Seq(Update)
  <1>1. CASE Busy(a) = {}
    <2>1. Carried(a) = <<>>  BY <1>1 DEF Carried
    <2>2. QED  BY <2>1, EmptySeq
  <1>2. CASE Busy(a) # {}
    <2>1. PICK w \in Workers : running[w] # <<>> /\ Carried(a) = <<UpdateOf(running[w])>>
      <3>1. (CHOOSE v \in Busy(a) : TRUE) \in Busy(a)  BY <1>2
      <3>2. QED  BY <1>2, <3>1 DEF Carried, Busy
    <2>2. running[w] \in Task  BY <2>1 DEF PoolType
    <2>3. UpdateOf(running[w]) \in Update  BY <2>2 DEF Update
    <2>4. PICK u \in Update : u = UpdateOf(running[w])  BY <2>3
    <2>5. <<u>> \in Seq(Update)  OBVIOUS
    <2>6. QED  BY <2>1, <2>4, <2>5
  <1>3. QED  BY <1>1, <1>2

Grows(a, new) == FeedOf(a)' = FeedOf(a) \o Queued(new, a)

\* Tasks are queued: the feed of a grows by those for a.
LEMMA FeedGrows ==
    ASSUME PoolType, NEW a, NEW new \in Seq(Task), tasks' = tasks \o new, running' = running
    PROVE  Grows(a, new)
  <1>1. tasks \in Seq(Task)  BY DEF PoolType
  <1>2. Carried(a)' = Carried(a)  BY DEF Carried, Busy
  <1>3. PICK c \in Seq(Update) : c = Carried(a)  BY CarriedType
  <1>4. PICK q \in Seq(Update) : q = Queued(tasks, a)  BY <1>1, QueuedConcat
  <1>5. PICK r \in Seq(Update) : r = Queued(new, a)  BY QueuedConcat
  <1>6. FeedOf(a) = c \o q  BY <1>3, <1>4, FeedParts
  <1>7. FeedOf(a)' = Carried(a)' \o Queued(tasks', a)
    BY FeedPartsNext
  <1>8. Queued(tasks', a) = q \o r
    <2>1. Follows(tasks, new, a)  BY <1>1, QueuedConcat
    <2>2. QED  BY <1>4, <1>5, <2>1 DEF Follows
  <1>9. (c \o q) \o r = c \o (q \o r)  BY ConcatAssociative, SMTT(40)
  <1>10. QED  BY <1>2, <1>3, <1>5, <1>6, <1>7, <1>8, <1>9 DEF Grows

\* The task of a process that lost its name is no update.
LEMMA QueuedBump ==
    ASSUME RegType, NEW a \in Apis, NEW b
    PROVE  Queued(bump_task(a), b) = <<>>
  <1>1. bump_task(a) \in Seq(Task)  BY NewTasks
  <1>2. \A x \in Held(bump_task(a)) : x.task = "shutdown"
    <2>1. CASE changed(a)
      <3> DEFINE x == [marker |-> nodes[NameOf[a]].api, task |-> "shutdown"]
      <3>1. x.task = "shutdown"  OBVIOUS
      <3>2. bump_task(a) = <<x>>  BY <2>1 DEF bump_task
      <3> HIDE DEF x
      <3>3. Held(<<x>>) = {x}
        <4>1. DOMAIN <<x>> = {1} /\ <<x>>[1] = x  OBVIOUS
        <4>2. QED  BY <4>1 DEF Held
      <3>4. QED  BY <3>1, <3>2, <3>3
    <2>2. CASE ~changed(a)
      <3>1. bump_task(a) = <<>> /\ DOMAIN <<>> = {}  BY <2>2, EmptySeq DEF bump_task
      <3>2. QED  BY <3>1 DEF Held
    <2>3. QED  BY <2>1, <2>2
  <1>3. Held(bump_task(a)) \cap For(b) = {}  BY <1>2 DEF For, IsUpdateFor
  <1>4. Filter(bump_task(a), For(b)) = <<>>  BY <1>1, <1>3, FilterNone
  <1>5. QED  BY <1>4, UpdatesOfOne DEF Queued

ToldOnce(t, list, to, b) ==
  Queued(notify(t, list, to), b) =
    IF b \in Held(to) THEN <<[topic |-> t, list |-> list]>> ELSE <<>>

\* Every process of the list is told, once.
LEMMA QueuedNotify ==
    ASSUME RegType, NEW t \in Topics, NEW list \in Seq(Apis), NEW to \in Seq(Apis),
           NoRepeats(to), NEW b \in Apis
    PROVE  ToldOnce(t, list, to, b)
  <1> DEFINE x(c) == [marker |-> c, task |-> "publisherUpdate", topic |-> t, list |-> list]
  <1>1. PICK q \in Seq(Task) : q = notify(t, list, to)  BY NewTasks
  <1>2. DOMAIN q = DOMAIN to /\ \A i \in DOMAIN to : q[i] = x(to[i])  BY <1>1 DEF notify
  <1>3. \A c : x(c).marker = c /\ x(c).task = "publisherUpdate"  OBVIOUS
  <1>4. UpdateOf(x(b)) = [topic |-> t, list |-> list]  BY DEF UpdateOf
  <1>5. x(b) \in Task  BY DEF Task
  <1> HIDE DEF x
  <1>6. NoRepeats(q)  BY <1>2, <1>3 DEF NoRepeats
  <1>7. Held(q) \cap For(b) = IF b \in Held(to) THEN {x(b)} ELSE {}
    <2>1. \A y \in Held(q) : y \in For(b) => y = x(b) /\ b \in Held(to)
      <3> SUFFICES ASSUME NEW i \in DOMAIN to, q[i] \in For(b)
                   PROVE  q[i] = x(b) /\ b \in Held(to)
        BY <1>2 DEF Held
      <3>1. to[i] = b  BY <1>2, <1>3 DEF For, IsUpdateFor
      <3>2. QED  BY <1>2, <3>1 DEF Held
    <2>2. ASSUME b \in Held(to)  PROVE x(b) \in Held(q) /\ x(b) \in For(b)
      <3>1. PICK i \in DOMAIN to : to[i] = b  BY <2>2 DEF Held
      <3>2. QED  BY <1>2, <1>3, <1>5, <3>1 DEF Held, For, IsUpdateFor
    <2>3. QED  BY <2>1, <2>2
  <1>8. PICK f \in Seq(Task) :
          f = Filter(q, For(b)) /\ Held(f) = Held(q) \cap For(b) /\ NoRepeats(f)
    BY <1>6, FilterMembers, FilterNoRepeats
  <1>9. CASE b \in Held(to)
    <2>1. f = <<x(b)>>  BY <1>5, <1>7, <1>8, <1>9, HoldsOne
    <2>2. Updates(f) = <<UpdateOf(x(b))>>  BY <1>5, <2>1, UpdatesOfOne
    <2>3. Queued(q, b) = <<[topic |-> t, list |-> list]>>  BY <1>4, <1>8, <2>2 DEF Queued
    <2>4. QED  BY <1>1, <1>9, <2>3 DEF ToldOnce
  <1>10. CASE b \notin Held(to)
    <2>1. f = <<>>  BY <1>7, <1>8, <1>10, HoldsOne
    <2>2. Queued(q, b) = <<>>  BY <1>8, <2>1, UpdatesOfOne DEF Queued
    <2>3. QED  BY <1>1, <1>10, <2>2 DEF ToldOnce
  <1>11. QED  BY <1>9, <1>10

\* A feed is a list of updates.
LEMMA FeedType == ASSUME PoolType, NEW a  PROVE FeedOf(a) \in Seq(Update)
  <1>1. Carried(a) \in Seq(Update)  BY CarriedType
  <1>2. Queued(tasks, a) \in Seq(Update)  BY QueuedConcat DEF PoolType
  <1>3. QED  BY <1>1, <1>2, FeedParts, ConcatProperties

\* Tasks that are no updates leave the feeds alone.
LEMMA FeedSame ==
    ASSUME PoolType, NEW a, NEW new \in Seq(Task), tasks' = tasks \o new, running' = running,
           Queued(new, a) = <<>>
    PROVE  FeedOf(a)' = FeedOf(a)
  <1>1. Grows(a, new)  BY FeedGrows
  <1>2. FeedOf(a) \o <<>> = FeedOf(a)
    <2>1. PICK f \in Seq(Update) : f = FeedOf(a)  BY FeedType
    <2>2. f \o <<>> = f  BY ConcatEmptySeq
    <2>3. QED  BY <2>1, <2>2
  <1>3. QED  BY <1>1, <1>2 DEF Grows

Told(a, t, list, to) ==
  FeedOf(a)' = IF a \in to THEN Append(FeedOf(a), [topic |-> t, list |-> list]) ELSE FeedOf(a)

\* The feeds after a change of publishers was announced.
LEMMA FeedTold ==
    ASSUME PoolType, RegType, NEW a \in Apis, NEW old \in Seq(Task), NEW t \in Topics,
           NEW list \in Seq(Apis), NEW to \in Seq(Apis), NoRepeats(to),
           tasks' = (tasks \o old) \o notify(t, list, to), running' = running,
           Queued(old, a) = <<>>
    PROVE  Told(a, t, list, Held(to))
  <1> DEFINE u == [topic |-> t, list |-> list]
  <1>1. PICK new \in Seq(Task) : new = notify(t, list, to)  BY NewTasks
  <1>2. PICK more \in Seq(Task) : more = old \o new  BY ConcatProperties
  <1>3. tasks' = tasks \o more
    <2>1. tasks \in Seq(Task)  BY DEF PoolType
    <2>2. (tasks \o old) \o new = tasks \o (old \o new)  BY <2>1, ConcatAssociative, SMTT(40)
    <2>3. QED  BY <1>1, <1>2, <2>2
  <1>4. Grows(a, more)  BY <1>3, FeedGrows
  <1>5. Queued(more, a) = Queued(new, a)
    <2>1. Follows(old, new, a) /\ Queued(new, a) \in Seq(Update)  BY QueuedConcat
    <2>2. PICK v \in Seq(Update) : v = Queued(new, a)  BY <2>1
    <2>3. <<>> \o v = v  BY ConcatEmptySeq
    <2>4. QED  BY <1>2, <2>1, <2>2, <2>3 DEF Follows
  <1>6. ToldOnce(t, list, to, a)  BY QueuedNotify
  <1>7. PICK f \in Seq(Update) : f = FeedOf(a)  BY FeedType
  <1>8. CASE a \in Held(to)
    <2>1. Queued(more, a) = <<u>>  BY <1>1, <1>5, <1>6, <1>8 DEF ToldOnce
    <2>2. u \in Update
      <3> DEFINE x == [marker |-> a, task |-> "publisherUpdate", topic |-> t, list |-> list]
      <3>1. x \in Task  BY DEF Task
      <3>2. u = UpdateOf(x)  BY DEF UpdateOf
      <3> HIDE DEF x, u
      <3>3. QED  BY <3>1, <3>2 DEF Update
    <2>3. FeedOf(a)' = f \o <<u>>  BY <1>4, <1>7, <2>1 DEF Grows
    <2> HIDE DEF u
    <2>4. f \o <<u>> = Append(f, u)  BY <2>2, AppendIsConcat
    <2>5. FeedOf(a)' = Append(FeedOf(a), u)  BY <1>7, <2>3, <2>4
    <2>6. QED  BY <1>8, <2>5 DEF Told, u
  <1>9. CASE a \notin Held(to)
    <2>1. Queued(more, a) = <<>>  BY <1>1, <1>5, <1>6, <1>9 DEF ToldOnce
    <2>2. FeedOf(a)' = FeedOf(a)  BY <1>3, <2>1, FeedSame
    <2>3. QED  BY <1>9, <2>2 DEF Told
  <1>10. QED  BY <1>8, <1>9

\* A thread that does not carry an update for a, before and after, does not
\* change what is carried to a.
LEMMA CarriedSame ==
    ASSUME PoolType, NEW a, NEW w \in Workers, NEW x, running' = [running EXCEPT ![w] = x],
           w \notin Busy(a), w \notin Busy(a)'
    PROVE  Carried(a)' = Carried(a)
  <1>1. \A v \in Workers \ {w} : running'[v] = running[v]  BY DEF PoolType
  <1>2. Busy(a)' = Busy(a)
    <2>1. \A v \in Workers : v \in Busy(a)' <=> v \in Busy(a)
      <3> TAKE v \in Workers
      <3>1. CASE v = w  BY <3>1
      <3>2. CASE v # w
        <4>1. running'[v] = running[v]  BY <1>1, <3>2
        <4>2. QED  BY <4>1 DEF Busy, IsUpdateFor
      <3>3. QED  BY <3>1, <3>2
    <2>2. Busy(a) \subseteq Workers /\ Busy(a)' \subseteq Workers  BY DEF Busy
    <2>3. QED  BY <2>1, <2>2
  <1>3. CASE Busy(a) = {}  BY <1>2, <1>3 DEF Carried
  <1>4. CASE Busy(a) # {}
    <2> DEFINE c == CHOOSE v \in Busy(a) : TRUE
    <2>1. c \in Busy(a)  BY <1>4
    <2>2. Carried(a) = <<UpdateOf(running[c])>>  BY <1>4 DEF Carried
    <2>3. Carried(a)' = <<UpdateOf(running'[c])>>  BY <1>2, <1>4 DEF Carried, UpdateOf
    <2> HIDE DEF c
    <2>4. running'[c] = running[c]
      <3>1. c \in Workers /\ c # w  BY <2>1 DEF Busy
      <3>2. QED  BY <1>1, <3>1
    <2>5. QED  BY <2>2, <2>3, <2>4
  <1>5. QED  BY <1>3, <1>4

Removed(s, i, a) ==
  /\ s[i] \notin For(a) => Queued(RemoveAt(s, i), a) = Queued(s, a)
  /\ s[i] \in For(a) /\ (\A j \in 1..i - 1 : s[j] \notin For(a)) =>
       Queued(s, a) = <<UpdateOf(s[i])>> \o Queued(RemoveAt(s, i), a)

\* What is queued for a after a task was taken.
LEMMA QueuedRemove ==
    ASSUME NEW s \in Seq(Task), NEW i \in DOMAIN s, NEW a
    PROVE  Removed(s, i, a)
  <1>1. Len(s) \in Nat /\ DOMAIN s = 1..Len(s) /\ i \in 1..Len(s)  BY LenProperties
  <1>2. \A j \in 1..Len(s) : s[j] \in Task  BY ElementOfSeq
  <1>3. PICK x \in Task : x = s[i]  BY <1>1, <1>2
  <1>4. PICK p \in Seq(Task) : /\ p = SubSeq(s, 1, i - 1)
                               /\ \A y \in Held(p) : \E j \in 1..i - 1 : y = s[j]
    <2>1. \A j \in 1..i - 1 : s[j] \in Task  BY <1>1, <1>2
    <2>2. 1 \in Int /\ i - 1 \in Int /\ (i - 1) - 1 + 1 = i - 1  BY <1>1
    <2> DEFINE p == SubSeq(s, 1, i - 1)
    <2>3. p \in Seq(Task)  BY <2>1, <2>2, SubSeqProperties
    <2>4. Len(p) = i - 1  BY <1>1
    <2>5. \A j \in 1..i - 1 : p[j] = s[j]  BY <1>1
    <2> HIDE DEF p
    <2>6. DOMAIN p = 1..i - 1  BY <2>3, <2>4, LenProperties
    <2>7. \A y \in Held(p) : \E j \in 1..i - 1 : y = s[j]  BY <2>5, <2>6 DEF Held
    <2>8. QED  BY <2>3, <2>7 DEF p
  <1>5. PICK q \in Seq(Task) : q = SubSeq(s, i + 1, Len(s))
    <2>1. \A j \in i + 1..Len(s) : s[j] \in Task  BY <1>1, <1>2
    <2>2. i + 1 \in Int /\ Len(s) \in Int  BY <1>1
    <2>3. QED  BY <2>1, <2>2, SubSeqProperties
  <1>6. PICK e \in Seq(Task) : e = <<x>>
    <2>1. <<x>> \in Seq(Task)  OBVIOUS
    <2>2. QED  BY <2>1
  <1>7. PICK eq \in Seq(Task) : eq = e \o q  BY ConcatProperties
  <1>8. s = p \o eq
    <2>1. SubSeq(s, i, Len(s)) = <<s[i]>> \o SubSeq(s, i + 1, Len(s))
      <3>1. i \in 1..Len(s) /\ Len(s) \in i..Len(s)  BY <1>1
      <3>2. QED  BY <3>1, SubSeqRecursiveFirst
    <2>2. eq = SubSeq(s, i, Len(s))  BY <1>3, <1>5, <1>6, <1>7, <2>1
    <2>3. SubSeq(s, 1, i - 1) \o SubSeq(s, (i - 1) + 1, Len(s)) = SubSeq(s, 1, Len(s))
      <3>1. /\ 1 \in 1..Len(s) + 1 /\ i - 1 \in 1 - 1..Len(s)
            /\ Len(s) \in i - 1..Len(s)
        BY <1>1
      <3>2. QED  BY <3>1, ConcatAdjacentSubSeq
    <2>4. (i - 1) + 1 = i  BY <1>1
    <2>5. SubSeq(s, 1, Len(s)) = s  BY SubSeqFull
    <2>6. QED  BY <1>4, <2>2, <2>3, <2>4, <2>5
  <1>9. RemoveAt(s, i) = p \o q  BY <1>4, <1>5 DEF RemoveAt
  <1>10. PICK P \in Seq(Update), Q \in Seq(Update), E \in Seq(Update) :
           P = Queued(p, a) /\ Q = Queued(q, a) /\ E = Queued(e, a)
    BY QueuedConcat
  <1>11. Queued(s, a) = P \o (E \o Q)
    <2>1. Follows(p, eq, a) /\ Follows(e, q, a)  BY QueuedConcat
    <2>2. QED  BY <1>7, <1>8, <1>10, <2>1 DEF Follows
  <1>12. Queued(RemoveAt(s, i), a) = P \o Q
    <2>1. Follows(p, q, a)  BY QueuedConcat
    <2>2. QED  BY <1>9, <1>10, <2>1 DEF Follows
  <1>13. Held(e) = {x}
    <2>1. DOMAIN <<x>> = {1} /\ <<x>>[1] = x  OBVIOUS
    <2>2. QED  BY <1>6, <2>1 DEF Held
  <1>14. ASSUME x \notin For(a)  PROVE Queued(RemoveAt(s, i), a) = Queued(s, a)
    <2>1. Held(e) \cap For(a) = {}  BY <1>13, <1>14
    <2>2. Filter(e, For(a)) = <<>>  BY <2>1, FilterNone
    <2>3. E = <<>>  BY <1>10, <2>2, UpdatesOfOne DEF Queued
    <2>4. E \o Q = Q  BY <2>3, ConcatEmptySeq
    <2>5. QED  BY <1>11, <1>12, <2>4
  <1>15. ASSUME x \in For(a), \A j \in 1..i - 1 : s[j] \notin For(a)
         PROVE  Queued(s, a) = <<UpdateOf(x)>> \o Queued(RemoveAt(s, i), a)
    <2>1. Held(p) \cap For(a) = {}  BY <1>4, <1>15
    <2>2. Filter(p, For(a)) = <<>>  BY <2>1, FilterNone
    <2>3. P = <<>>  BY <1>10, <2>2, UpdatesOfOne DEF Queued
    <2>4. PICK f \in Seq(Task) : f = Filter(e, For(a)) /\ Held(f) = {x} /\ NoRepeats(f)
      <3>1. NoRepeats(e)
        <4>1. DOMAIN <<x>> = {1}  OBVIOUS
        <4>2. QED  BY <1>6, <4>1 DEF NoRepeats
      <3>2. Held(e) \cap For(a) = {x}  BY <1>13, <1>15
      <3>3. QED  BY <3>1, <3>2, FilterMembers, FilterNoRepeats
    <2>5. f = <<x>>  BY <2>4, HoldsOne, ZenonT(40)
    <2>6. E = <<UpdateOf(x)>>  BY <1>10, <2>4, <2>5, UpdatesOfOne DEF Queued
    <2>7. E \o Q \in Seq(Update)  BY ConcatProperties
    <2>8. P \o Q = Q /\ P \o (E \o Q) = E \o Q  BY <2>3, <2>7, ConcatEmptySeq
    <2>9. QED  BY <1>11, <1>12, <2>6, <2>8
  <1>16. QED  BY <1>3, <1>14, <1>15 DEF Removed

\* Handing a task to a thread changes no feed: the thread takes the first
\* task of a process nobody works for.
LEMMA FeedTake ==
    ASSUME IInv, NEW w \in Workers, get_next_task(w), NEW a \in Apis
    PROVE  FeedOf(a)' = FeedOf(a)
  <1> DEFINE i == CHOOSE j \in eligible : \A k \in eligible : j <= k
  <1>t. /\ PoolType /\ Alone /\ tasks \in Seq(Task)
        /\ running \in [Workers -> Task \cup {<<>>}]
    BY DEF IInv, PoolType
  <1>1. i \in eligible /\ \A k \in eligible : i <= k
    BY <1>t, FirstEligible DEF get_next_task
  <1>2. /\ running[w] = <<>> /\ running' = [running EXCEPT ![w] = tasks[i]]
        /\ tasks' = RemoveAt(tasks, i)
    BY DEF get_next_task
  <1> HIDE DEF i
  <1>3. i \in DOMAIN tasks /\ tasks[i].marker \notin markers  BY <1>1 DEF eligible
  <1>4. PICK x \in Task : x = tasks[i]  BY <1>t, <1>3, Taken
  <1>5. running'[w] = x  BY <1>t, <1>2, <1>4
  <1>6. Removed(tasks, i, a)  BY <1>t, <1>3, QueuedRemove
  <1>7. w \notin Busy(a)  BY <1>2 DEF Busy
  <1>8. CASE x \notin For(a)
    <2>1. w \notin Busy(a)'  BY <1>4, <1>5, <1>8 DEF Busy, For, IsUpdateFor
    <2>2. Carried(a)' = Carried(a)  BY <1>2, <1>7, <1>t, <2>1, CarriedSame
    <2>3. Queued(tasks', a) = Queued(tasks, a)  BY <1>2, <1>4, <1>6, <1>8 DEF Removed
    <2>4. QED  BY <2>2, <2>3, FeedParts, FeedPartsNext
  <1>9. CASE x \in For(a)
    <2>1. x.marker = a /\ IsUpdateFor(a, x) /\ x # <<>>  BY <1>9, TaskParts DEF For, IsUpdateFor
    <2>2. a \notin markers  BY <1>3, <1>4, <2>1
    <2>3. Busy(a) = {}  BY <2>2 DEF Busy, markers, IsUpdateFor
    <2>4. Carried(a) = <<>>  BY <2>3 DEF Carried
    <2>5. \A j \in 1..i - 1 : tasks[j] \notin For(a)
      <3> SUFFICES ASSUME NEW j \in 1..i - 1, tasks[j] \in For(a)  PROVE FALSE
        OBVIOUS
      <3>1. Len(tasks) \in Nat /\ DOMAIN tasks = 1..Len(tasks)  BY <1>t, LenProperties
      <3>2. j \in DOMAIN tasks /\ ~(i <= j)  BY <1>3, <3>1
      <3>3. tasks[j].marker = a  BY DEF For, IsUpdateFor
      <3>4. j \in eligible  BY <2>2, <3>2, <3>3 DEF eligible
      <3>5. QED  BY <1>1, <3>2, <3>4
    <2>6. Queued(tasks, a) = <<UpdateOf(x)>> \o Queued(tasks', a)
      BY <1>2, <1>4, <1>6, <1>9, <2>5 DEF Removed
    <2>7. Carried(a)' = <<UpdateOf(x)>>
      <3>1. \A v \in Workers : v \in Busy(a)' <=> v = w
        <4> TAKE v \in Workers
        <4>1. CASE v = w  BY <1>5, <2>1, <4>1 DEF Busy, IsUpdateFor
        <4>2. CASE v # w
          <5>1. running'[v] = running[v]  BY <1>2, <1>t, <4>2
          <5>2. v \in Busy(a)' <=> v \in Busy(a)  BY <5>1 DEF Busy, IsUpdateFor
          <5>3. QED  BY <2>3, <4>2, <5>2
        <4>3. QED  BY <4>1, <4>2
      <3>2. Busy(a)' = {w}  BY <3>1 DEF Busy
      <3>3. (CHOOSE v \in Busy(a)' : TRUE) = w  BY <3>2
      <3>4. QED  BY <1>5, <3>2, <3>3 DEF Carried, UpdateOf
    <2>8. PICK f \in Seq(Update) : f = Queued(tasks, a)  BY <1>t, QueuedConcat
    <2>9. FeedOf(a)' = f  BY <2>6, <2>7, <2>8, FeedPartsNext
    <2>10. FeedOf(a) = <<>> \o f  BY <2>4, <2>8, FeedParts
    <2>11. <<>> \o f = f  BY ConcatEmptySeq
    <2>12. QED  BY <2>9, <2>10, <2>11
  <1>10. QED  BY <1>8, <1>9

Delivered(a, u) ==
  FeedOf(a) # <<>> /\ Head(FeedOf(a)) = u /\ FeedOf(a)' = Tail(FeedOf(a))

\* A thread that ends its task ends the first update of the feed, if the
\* task is an update.
LEMMA FeedDone ==
    ASSUME IInv, NEW w \in Workers, running[w] # <<>>, tasks' = tasks,
           running' = [running EXCEPT ![w] = <<>>], NEW a \in Apis
    PROVE  /\ IsUpdateFor(a, running[w]) => Delivered(a, UpdateOf(running[w]))
           /\ ~IsUpdateFor(a, running[w]) => FeedOf(a)' = FeedOf(a)
  <1>t. /\ PoolType /\ Alone /\ tasks \in Seq(Task)
        /\ running \in [Workers -> Task \cup {<<>>}]
    BY DEF IInv, PoolType
  <1>1. running'[w] = <<>>  BY <1>t
  <1>2. w \notin Busy(a)'  BY <1>1 DEF Busy
  <1>3. PICK f \in Seq(Update) : f = Queued(tasks, a)  BY <1>t, QueuedConcat
  <1>4. Queued(tasks', a) = f  BY <1>3
  <1>5. ASSUME IsUpdateFor(a, running[w])  PROVE Delivered(a, UpdateOf(running[w]))
    <2>1. running[w] \in Task /\ running[w].marker = a  BY <1>5, <1>t DEF IsUpdateFor
    <2>2. Busy(a) = {w} /\ Carried(a) = <<UpdateOf(running[w])>>
      BY <1>5, <1>t, <2>1, CarriedOne
    <2>3. UpdateOf(running[w]) \in Update  BY <2>1 DEF Update
    <2>4. PICK u \in Update : u = UpdateOf(running[w])  BY <2>3
    <2>5. FeedOf(a) = <<u>> \o f  BY <1>3, <2>2, <2>4, FeedParts
    <2>6. Busy(a)' = {}
      <3>1. ASSUME NEW v \in Workers, v \in Busy(a)'  PROVE FALSE
        <4>1. v # w  BY <1>2, <3>1
        <4>2. running'[v] = running[v]  BY <1>t, <4>1
        <4>3. v \in Busy(a)  BY <3>1, <4>2 DEF Busy, IsUpdateFor
        <4>4. QED  BY <2>2, <4>1, <4>3
      <3>2. QED  BY <3>1 DEF Busy
    <2>7. Carried(a)' = <<>>  BY <2>6 DEF Carried
    <2>8. FeedOf(a)' = <<>> \o f  BY <1>4, <2>7, FeedPartsNext
    <2>9. <<>> \o f = f  BY ConcatEmptySeq
    <2>10. PICK g \in Seq(Update) : g = <<u>> \o f /\ IsConcat(g, <<u>>, f)
      <3>1. <<u>> \in Seq(Update)  OBVIOUS
      <3>2. QED  BY <3>1, ConcatParts
    <2>11. Len(<<u>>) = 1 /\ <<u>>[1] = u  OBVIOUS
    <2>12. Len(g) = 1 + Len(f) /\ Len(f) \in Nat /\ g[1] = u
      BY <2>10, <2>11 DEF IsConcat
    <2>13. \A j \in 1..Len(f) : g[1 + j] = f[j]  BY <2>10, <2>11 DEF IsConcat
    <2>14. g # <<>>  BY <2>12, EmptySeq
    <2>15. Head(g) = u  BY <2>12, <2>14
    <2>16. Tail(g) = f
      <3>1. /\ Tail(g) \in Seq(Update) /\ Len(Tail(g)) = Len(g) - 1
            /\ \A j \in 1..Len(Tail(g)) : Tail(g)[j] = g[j + 1]
        BY <2>14, HeadTailProperties
      <3>2. Len(Tail(g)) = Len(f)  BY <2>12, <3>1
      <3>3. \A j \in 1..Len(Tail(g)) : Tail(g)[j] = f[j]  BY <2>12, <2>13, <3>1, <3>2
      <3>4. QED  BY <3>1, <3>2, <3>3, SeqEqual
    <2>17. QED  BY <2>4, <2>5, <2>8, <2>9, <2>10, <2>14, <2>15, <2>16 DEF Delivered
  <1>6. ASSUME ~IsUpdateFor(a, running[w])  PROVE FeedOf(a)' = FeedOf(a)
    <2>1. w \notin Busy(a)  BY <1>6 DEF Busy
    <2>2. Carried(a)' = Carried(a)  BY <1>2, <1>t, <2>1, CarriedSame
    <2>3. QED  BY <1>3, <1>4, <2>2, FeedParts, FeedPartsNext
  <1>7. QED  BY <1>5, <1>6

-----------------------------------------------------------------------------
(* Every step is a step of MasterFeed, or none.                            *)

\* The members of a list, in both modules.
LEMMA SameMembers == \A s : Feed!Members(s) = Held(s)
  BY DEF Feed!Members, Held

\* No registration is new but k.
LEMMA OnlyNew ==
    ASSUME RegInv, NEW a \in Apis, NEW k \in Reg, Registers(a, k) \/ TakesBack(a, k)
    PROVE  /\ \A j \in Reg \ {k} : Held(providers'[j]) \subseteq Held(providers[j])
           /\ TakesBack(a, k) => Held(providers'[k]) \subseteq Held(providers[k])
           /\ Registers(a, k) => /\ a \in Held(providers'[k])
                                 /\ k[1] # "srv" =>
                                      Held(providers'[k]) \subseteq Held(providers[k]) \cup {a}
  <1>1. ASSUME Registers(a, k)
        PROVE  /\ \A j \in Reg \ {k} : Held(providers'[j]) \subseteq Held(providers[j])
               /\ a \in Held(providers'[k])
               /\ k[1] # "srv" => Held(providers'[k]) \subseteq Held(providers[k]) \cup {a}
    <2>1. register(a, k)  BY <1>1 DEF Registers
    <2>2. /\ \A j \in Reg \ {k} : Held(providers'[j]) =
                {b \in Held(providers[j]) : ~ (changed(a) /\ NameOf[b] = NameOf[a])}
          /\ Held(providers'[k]) =
                IF k[1] = "srv" THEN {a}
                ELSE {b \in Held(providers[k]) : ~ (changed(a) /\ NameOf[b] = NameOf[a])}
                        \cup {a}
      BY <2>1, RegisterTables
    <2>3. QED  BY <2>2
  <1>2. ASSUME TakesBack(a, k)
        PROVE  \A j \in Reg : Held(providers'[j]) \subseteq Held(providers[j])
    <2>1. unregister(a, k)  BY <1>2 DEF TakesBack
    <2>2. CASE a \notin Held(providers[k])
      <3>1. providers' = providers  BY <2>1, <2>2, UnregisterNothing DEF regVars
      <3>2. QED  BY <3>1
    <2>3. CASE a \in Held(providers[k])
      <3>1. /\ \A j \in Reg \ {k} : providers'[j] = providers[j]
            /\ Held(providers'[k]) = Held(providers[k]) \ {a}
        BY <2>1, <2>3, UnregisterTables
      <3>2. QED  BY <3>1
    <2>4. QED  BY <2>2, <2>3
  <1>3. QED  BY <1>1, <1>2

\* The keys of two topics are different, and so are those of a publisher, a
\* subscriber, a service and a parameter.
LEMMA DifferentKeys ==
    /\ \A t, u \in Topics : /\ Pub(t) # Sub(u) /\ (t # u => Pub(t) # Pub(u) /\ Sub(t) # Sub(u))
                            /\ Pub(t)[1] # "srv" /\ Sub(t)[1] # "srv"
    /\ \A t \in Topics : \A x : /\ <<"srv", x>> # Pub(t) /\ <<"srv", x>> # Sub(t)
                                /\ <<"par", x>> # Pub(t) /\ <<"par", x>> # Sub(t)
  BY DEF Pub, Sub

\* The tables of MasterFeed.
LEMMA FeedTables ==
    ASSUME providers' \in [Reg -> Seq(Apis)]
    PROVE  Feed!Tables
  <1>1. \A t \in Topics : providers'[Pub(t)] \in Seq(Apis) /\ providers'[Sub(t)] \in Seq(Apis)
    BY Keys
  <1>2. \A t \in Topics : Held(providers'[Sub(t)]) \subseteq Apis  BY <1>1 DEF Held
  <1>3. pubs' = [t \in Topics |-> providers'[Pub(t)]]  BY DEF pubs, Pub
  <1>4. subs' = [t \in Topics |-> Held(providers'[Sub(t)])]  BY DEF subs, Sub, Held
  <1>5. pubs' \in [Topics -> Seq(Apis)] /\ subs' \in [Topics -> SUBSET Apis]
    BY <1>1, <1>2, <1>3, <1>4
  <1>6. QED  BY <1>5 DEF Feed!Tables, pubs, subs

\* A change of publishers that is announced.
LEMMA AnnounceStep ==
    ASSUME providers' \in [Reg -> Seq(Apis)], NEW t \in Topics, NEW to,
           \A u \in Topics \ {t} : Held(providers'[Pub(u)]) \subseteq Held(providers[Pub(u)]),
           \A u \in Topics : Held(providers'[Sub(u)]) \subseteq Held(providers[Sub(u)]),
           to = Held(providers'[Sub(t)]),
           \A a \in Apis : Told(a, t, providers'[Pub(t)], to),
           heard' = heard, missed' = missed
    PROVE  Feed!Announce(t)
  <1>1. \A u \in Topics : pubs[u] = providers[Pub(u)] /\ pubs'[u] = providers'[Pub(u)]
    BY DEF pubs, Pub
  <1>2. \A u \in Topics : subs[u] = Held(providers[Sub(u)]) /\ subs'[u] = Held(providers'[Sub(u)])
    BY DEF subs, Sub, Held
  <1>3. feed' = [a \in Apis |-> IF a \in subs'[t]
                                THEN Append(feed[a], [topic |-> t, list |-> pubs'[t]])
                                ELSE feed[a]]
    <2>1. \A a \in Apis : FeedOf(a)' = IF a \in subs'[t]
                                        THEN Append(feed[a], [topic |-> t, list |-> pubs'[t]])
                                        ELSE feed[a]
      BY <1>1, <1>2 DEF Told, feed
    <2>2. feed' = [a \in Apis |-> FeedOf(a)']  BY DEF feed
    <2>3. QED  BY <2>1, <2>2
  <1>4. \A u \in Topics \ {t} : Feed!Members(pubs'[u]) \subseteq Feed!Members(pubs[u])
    BY <1>1, SameMembers
  <1>5. \A u \in Topics : subs'[u] \subseteq subs[u]  BY <1>2
  <1>6. QED
      BY <1>3, <1>4, <1>5, FeedTables DEF Feed!Announce, Feed!Tell, Feed!Tables, pubs, subs, feed

\* Registrations end and nothing is announced.
LEMMA DropStep ==
    ASSUME providers' \in [Reg -> Seq(Apis)],
           \A u \in Topics : /\ Held(providers'[Pub(u)]) \subseteq Held(providers[Pub(u)])
                             /\ Held(providers'[Sub(u)]) \subseteq Held(providers[Sub(u)]),
           \A a \in Apis : FeedOf(a)' = FeedOf(a),
           heard' = heard, missed' = missed
    PROVE  Feed!Drop
  <1>1. \A u \in Topics : pubs[u] = providers[Pub(u)] /\ pubs'[u] = providers'[Pub(u)]
    BY DEF pubs, Pub
  <1>2. \A u \in Topics : subs[u] = Held(providers[Sub(u)]) /\ subs'[u] = Held(providers'[Sub(u)])
    BY DEF subs, Sub, Held
  <1>3. \A u \in Topics : Feed!Members(pubs'[u]) \subseteq Feed!Members(pubs[u])
    BY <1>1, SameMembers
  <1>4. \A u \in Topics : subs'[u] \subseteq subs[u]  BY <1>2
  <1>5. feed' = feed  BY DEF feed
  <1>6. QED
      BY <1>3, <1>4, <1>5, FeedTables DEF Feed!Drop, Feed!Fewer, Feed!Tables, pubs, subs, feed

\* A subscriber is answered.
LEMMA JoinStep ==
    ASSUME providers' \in [Reg -> Seq(Apis)], NEW a \in Apis, NEW t \in Topics,
           \A u \in Topics : Held(providers'[Pub(u)]) \subseteq Held(providers[Pub(u)]),
           \A u \in Topics \ {t} : Held(providers'[Sub(u)]) \subseteq Held(providers[Sub(u)]),
           a \in Held(providers'[Sub(t)]),
           Held(providers'[Sub(t)]) \subseteq Held(providers[Sub(t)]) \cup {a},
           \A b \in Apis : FeedOf(b)' = FeedOf(b),
           heard' = [heard EXCEPT ![a][t] = Held(providers'[Pub(t)])],
           missed' = missed \ {<<a, t>>}
    PROVE  Feed!Join(a, t)
  <1>1. \A u \in Topics : pubs[u] = providers[Pub(u)] /\ pubs'[u] = providers'[Pub(u)]
    BY DEF pubs, Pub
  <1>2. \A u \in Topics : subs[u] = Held(providers[Sub(u)]) /\ subs'[u] = Held(providers'[Sub(u)])
    BY DEF subs, Sub, Held
  <1>3. \A u \in Topics : Feed!Members(pubs'[u]) \subseteq Feed!Members(pubs[u])
    BY <1>1, SameMembers
  <1>4. \A u \in Topics \ {t} : subs'[u] \subseteq subs[u]  BY <1>2
  <1>5. a \in subs'[t] /\ subs'[t] \subseteq subs[t] \cup {a}  BY <1>2
  <1>6. heard' = [heard EXCEPT ![a][t] = Feed!Members(pubs'[t])]  BY <1>1, SameMembers
  <1>7. feed' = feed  BY DEF feed
  <1>8. QED
      BY <1>3, <1>4, <1>5, <1>6, <1>7, FeedTables DEF Feed!Join, Feed!Tables, pubs, subs, feed

\* The API calls.
LEMMA FeedRequest ==
    ASSUME IInv, NEW a \in Apis, Request(a)
    PROVE  Feed!Next
  <1>t. /\ RegInv /\ RegType /\ PoolType /\ Once /\ tasks \in Seq(Task)
        /\ providers \in [Reg -> Seq(Apis)]
    BY DEF IInv, RegInv, RegType, PoolType
  <1>n. IInv' /\ RegInv' /\ providers' \in [Reg -> Seq(Apis)] /\ Once'
    <2>1. IInv'  BY RequestStep
    <2>2. QED  BY <2>1 DEF IInv, RegInv, RegType
  <1>b. /\ bump_task(a) \in Seq(Task) /\ \A b : Queued(bump_task(a), b) = <<>>
    BY <1>t, NewTasks, QueuedBump
  <1>e. /\ <<>> \in Seq(Task) /\ tasks \o <<>> = tasks /\ \A b : Queued(<<>>, b) = <<>>
    <2>1. <<>> \in Seq(Task) /\ tasks \o <<>> = tasks  BY <1>t, EmptySeq, ConcatEmptySeq
    <2>2. \A b : Filter(<<>>, For(b)) = <<>>  BY FilterEmpty
    <2>3. QED  BY <2>1, <2>2, UpdatesOfOne DEF Queued
  <1>1. ASSUME NEW t \in Topics, registerPublisher(a, t)  PROVE Feed!Announce(t)
    <2>1. Pub(t) \in Reg /\ Registers(a, Pub(t))  BY <1>1, Keys DEF registerPublisher, Registers
    <2>2. \A j \in Reg \ {Pub(t)} : Held(providers'[j]) \subseteq Held(providers[j])
      BY <1>t, <2>1, OnlyNew
    <2>3. /\ \A u \in Topics \ {t} : Held(providers'[Pub(u)]) \subseteq Held(providers[Pub(u)])
          /\ \A u \in Topics : Held(providers'[Sub(u)]) \subseteq Held(providers[Sub(u)])
      BY <2>2, Keys, DifferentKeys
    <2>4. PICK list \in Seq(Apis), to \in Seq(Apis) :
            list = providers'[Pub(t)] /\ to = providers'[Sub(t)] /\ NoRepeats(to)
      BY <1>n, Keys DEF Once
    <2>5. /\ tasks' = (tasks \o bump_task(a)) \o notify(t, list, to) /\ running' = running
          /\ heard' = heard /\ missed' = missed
      BY <1>1, <2>4 DEF registerPublisher
    <2>6. \A b \in Apis : Told(b, t, list, Held(to))  BY <1>t, <1>b, <2>4, <2>5, FeedTold
    <2>7. QED  BY <1>n, <2>3, <2>4, <2>5, <2>6, AnnounceStep
  <1>2. ASSUME NEW t \in Topics, unregisterPublisher(a, t)  PROVE Feed!Announce(t) \/ Feed!Drop
    <2>1. Pub(t) \in Reg /\ Sub(t) \in Reg /\ TakesBack(a, Pub(t))
      BY <1>2, Keys DEF unregisterPublisher, TakesBack
    <2>2. \A j \in Reg : Held(providers'[j]) \subseteq Held(providers[j])
      BY <1>t, <2>1, OnlyNew
    <2>3. \A u \in Topics : /\ Held(providers'[Pub(u)]) \subseteq Held(providers[Pub(u)])
                            /\ Held(providers'[Sub(u)]) \subseteq Held(providers[Sub(u)])
      BY <2>2, Keys
    <2>4. running' = running /\ heard' = heard /\ missed' = missed
      BY <1>2 DEF unregisterPublisher
    <2>5. CASE providers' = providers
      <3>1. tasks' = tasks \o <<>>  BY <1>2, <2>5 DEF unregisterPublisher
      <3>2. \A b \in Apis : FeedOf(b)' = FeedOf(b)  BY <1>t, <1>e, <2>4, <3>1, FeedSame
      <3>3. QED  BY <1>n, <2>3, <2>4, <3>2, DropStep
    <2>6. CASE providers' # providers
      <3>1. providers'[Sub(t)] = providers[Sub(t)]
        <4>1. unregister(a, Pub(t))  BY <2>1 DEF TakesBack
        <4>2. a \in Held(providers[Pub(t)])
          BY <1>t, <2>1, <2>6, <4>1, UnregisterNothing DEF regVars
        <4>3. \A j \in Reg \ {Pub(t)} : providers'[j] = providers[j]
          BY <1>t, <2>1, <4>1, <4>2, UnregisterTables
        <4>4. QED  BY <2>1, <4>3, DifferentKeys
      <3>2. PICK list \in Seq(Apis), to \in Seq(Apis) :
              list = providers'[Pub(t)] /\ to = providers'[Sub(t)] /\ NoRepeats(to)
        BY <1>n, Keys DEF Once
      <3>3. tasks' = (tasks \o <<>>) \o notify(t, list, to)
        BY <1>2, <1>e, <2>6, <3>1, <3>2 DEF unregisterPublisher
      <3>4. \A b \in Apis : Told(b, t, list, Held(to))
        BY <1>t, <1>e, <2>4, <3>2, <3>3, FeedTold
      <3>5. QED  BY <1>n, <2>3, <2>4, <3>2, <3>4, AnnounceStep
    <2>7. QED  BY <2>5, <2>6
  <1>3. ASSUME NEW t \in Topics, registerSubscriber(a, t)  PROVE Feed!Join(a, t)
    <2>1. Sub(t) \in Reg /\ Registers(a, Sub(t))  BY <1>3, Keys DEF registerSubscriber, Registers
    <2>2. /\ \A j \in Reg \ {Sub(t)} : Held(providers'[j]) \subseteq Held(providers[j])
          /\ a \in Held(providers'[Sub(t)])
          /\ Sub(t)[1] # "srv" =>
               Held(providers'[Sub(t)]) \subseteq Held(providers[Sub(t)]) \cup {a}
      BY <1>t, <2>1, OnlyNew
    <2>3. /\ \A u \in Topics : Held(providers'[Pub(u)]) \subseteq Held(providers[Pub(u)])
          /\ \A u \in Topics \ {t} : Held(providers'[Sub(u)]) \subseteq Held(providers[Sub(u)])
          /\ Held(providers'[Sub(t)]) \subseteq Held(providers[Sub(t)]) \cup {a}
      BY <2>2, Keys, DifferentKeys
    <2>4. /\ tasks' = tasks \o bump_task(a) /\ running' = running
          /\ heard' = [heard EXCEPT ![a][t] = Held(providers'[Pub(t)])]
          /\ missed' = missed \ {<<a, t>>}
      BY <1>3 DEF registerSubscriber
    <2>5. \A b \in Apis : FeedOf(b)' = FeedOf(b)  BY <1>t, <1>b, <2>4, FeedSame
    <2>6. QED  BY <1>n, <2>2, <2>3, <2>4, <2>5, JoinStep
  <1>4. ASSUME NEW k \in Reg, \A t \in Topics : k # Pub(t) /\ k # Sub(t), registerOther(a, k)
        PROVE  Feed!Drop
    <2>1. Registers(a, k)  BY <1>4 DEF registerOther, Registers
    <2>2. \A j \in Reg \ {k} : Held(providers'[j]) \subseteq Held(providers[j])
      BY <1>t, <2>1, OnlyNew
    <2>3. \A u \in Topics : /\ Held(providers'[Pub(u)]) \subseteq Held(providers[Pub(u)])
                            /\ Held(providers'[Sub(u)]) \subseteq Held(providers[Sub(u)])
      BY <1>4, <2>2, Keys
    <2>4. /\ tasks' = tasks \o bump_task(a) /\ running' = running
          /\ heard' = heard /\ missed' = missed
      BY <1>4 DEF registerOther
    <2>5. \A b \in Apis : FeedOf(b)' = FeedOf(b)  BY <1>t, <1>b, <2>4, FeedSame
    <2>6. QED  BY <1>n, <2>3, <2>4, <2>5, DropStep
  <1>5. ASSUME NEW k \in Reg, unregisterOther(a, k)  PROVE Feed!Drop
    <2>1. TakesBack(a, k)  BY <1>5 DEF unregisterOther, TakesBack
    <2>2. \A j \in Reg : Held(providers'[j]) \subseteq Held(providers[j])
      BY <1>t, <2>1, OnlyNew
    <2>3. \A u \in Topics : /\ Held(providers'[Pub(u)]) \subseteq Held(providers[Pub(u)])
                            /\ Held(providers'[Sub(u)]) \subseteq Held(providers[Sub(u)])
      BY <2>2, Keys
    <2>4. /\ tasks' = tasks \o <<>> /\ running' = running
          /\ heard' = heard /\ missed' = missed
      BY <1>5, <1>e DEF unregisterOther, poolVars
    <2>5. \A b \in Apis : FeedOf(b)' = FeedOf(b)  BY <1>t, <1>e, <2>4, FeedSame
    <2>6. QED  BY <1>n, <2>3, <2>4, <2>5, DropStep
  <1>6. \A t \in Topics : unregisterSubscriber(a, t) => Feed!Drop
    BY <1>5, Keys DEF unregisterSubscriber
  <1>7. \A s \in Services : registerService(a, s) \/ unregisterService(a, s) => Feed!Drop
    BY <1>4, <1>5, Keys, DifferentKeys DEF registerService, unregisterService
  <1>8. \A p \in Params : subscribeParam(a, p) \/ unsubscribeParam(a, p) => Feed!Drop
    BY <1>4, <1>5, Keys, DifferentKeys DEF subscribeParam, unsubscribeParam
  <1>9. QED  BY <1>1, <1>2, <1>3, <1>6, <1>7, <1>8 DEF Request, Feed!Next

\* The steps of a thread.
LEMMA FeedThread ==
    ASSUME IInv, NEW w \in Workers, Thread(w)
    PROVE  Feed!Next \/ UNCHANGED Feed!feedVars
  <1>t. PoolType /\ running \in [Workers -> Task \cup {<<>>}]  BY DEF IInv, PoolType
  <1>u. providers' = providers /\ pubs' = pubs /\ subs' = subs
    BY DEF Thread, get_next_task, finish_task, fail_task, regVars, pubs, subs
  <1>s. ASSUME \A a \in Apis : FeedOf(a)' = FeedOf(a), heard' = heard, missed' = missed
        PROVE  UNCHANGED Feed!feedVars
    <2>1. feed' = feed  BY <1>s DEF feed
    <2>2. QED  BY <1>s, <1>u, <2>1 DEF Feed!feedVars, pubs, subs, feed
  <1>1. CASE get_next_task(w)
    <2>1. heard' = heard /\ missed' = missed  BY <1>1 DEF get_next_task
    <2>2. \A a \in Apis : FeedOf(a)' = FeedOf(a)  BY <1>1, FeedTake
    <2>3. QED  BY <1>s, <2>1, <2>2
  <1>2. CASE finish_task(w) \/ fail_task(w)
    <2>1. /\ running[w] # <<>> /\ tasks' = tasks /\ running' = [running EXCEPT ![w] = <<>>]
      BY <1>2 DEF finish_task, fail_task
    <2>2. PICK x \in Task : x = running[w]  BY <1>t, <2>1
    <2>3. x.marker \in Apis  BY TaskParts
    <2>4. \A a \in Apis : /\ IsUpdateFor(a, x) => Delivered(a, UpdateOf(x))
                          /\ ~IsUpdateFor(a, x) => FeedOf(a)' = FeedOf(a)
      BY <2>1, <2>2, FeedDone
    <2>5. CASE x.task # "publisherUpdate"
      <3>1. \A a \in Apis : FeedOf(a)' = FeedOf(a)  BY <2>4, <2>5 DEF IsUpdateFor
      <3>2. heard' = heard /\ missed' = missed
        BY <1>2, <2>2, <2>5 DEF finish_task, fail_task
      <3>3. QED  BY <1>s, <3>1, <3>2
    <2>6. CASE x.task = "publisherUpdate"
      <3> DEFINE a == x.marker
                 u == UpdateOf(x)
      <3>1. /\ FeedOf(a) # <<>> /\ Head(FeedOf(a)) = u /\ FeedOf(a)' = Tail(FeedOf(a))
            /\ \A b \in Apis \ {a} : FeedOf(b)' = FeedOf(b)
        BY <2>3, <2>4, <2>6 DEF IsUpdateFor, Delivered
      <3>2. u.topic = x.topic /\ u.list = x.list  BY TaskParts
      <3>3. /\ feed[a] # <<>> /\ Head(feed[a]) = u
            /\ feed' = [feed EXCEPT ![a] = Tail(@)]
        <4>1. feed[a] = FeedOf(a)  BY <2>3 DEF feed
        <4> HIDE DEF a, u
        <4>2. feed' = [b \in Apis |-> FeedOf(b)']  BY DEF feed
        <4>3. [feed EXCEPT ![a] = Tail(@)] =
                [b \in Apis |-> IF b = a THEN Tail(FeedOf(a)) ELSE FeedOf(b)]
          BY <2>3 DEF feed, a
        <4>4. QED  BY <3>1, <4>1, <4>2, <4>3
      <3>4. CASE finish_task(w)
        <4>1. /\ heard' = [heard EXCEPT ![a][u.topic] = @ \cup Held(u.list)]
              /\ missed' = missed \ {<<a, u.topic>>}
          BY <2>2, <2>6, <3>2, <3>4 DEF finish_task
        <4>2. heard' = [heard EXCEPT ![a][Head(feed[a]).topic] = @ \cup Held(Head(feed[a]).list)]
          BY <3>3, <4>1
        <4>3. missed' = missed \ {<<a, Head(feed[a]).topic>>}  BY <3>3, <4>1
        <4>4. heard' = [heard EXCEPT ![a][Head(feed[a]).topic] =
                          @ \cup Feed!Members(Head(feed[a]).list)]
          BY <4>2, SameMembers
        <4> HIDE DEF a, u
        <4>5. Feed!Deliver(a)
          BY <1>u, <3>3, <4>3, <4>4 DEF Feed!Deliver, pubs, subs, feed
        <4>6. QED  BY <2>3, <4>5 DEF Feed!Next, a
      <3>5. CASE fail_task(w)
        <4>1. heard' = heard /\ missed' = missed \cup {<<a, Head(feed[a]).topic>>}
          BY <2>2, <3>2, <3>3, <3>5 DEF fail_task
        <4> HIDE DEF a, u
        <4>2. Feed!Lose(a)  BY <1>u, <3>3, <4>1 DEF Feed!Lose, pubs, subs, feed
        <4>3. QED  BY <2>3, <4>2 DEF Feed!Next, a
      <3>6. QED  BY <1>2, <3>4, <3>5
    <2>7. QED  BY <2>5, <2>6
  <1>3. QED  BY <1>1, <1>2 DEF Thread

\* The feeds start empty.
LEMMA FeedInit == ASSUME Init  PROVE Feed!Init
  <1>1. IInv  BY InitInv
  <1>2. ASSUME NEW a \in Apis  PROVE FeedOf(a) = <<>>
    <2>1. Busy(a) = {}  BY DEF Init, Busy
    <2>2. Carried(a) = <<>>  BY <2>1 DEF Carried
    <2>3. tasks = <<>>  BY DEF Init
    <2>4. Queued(<<>>, a) = <<>>  BY FilterEmpty, UpdatesOfOne DEF Queued
    <2>5. <<>> \in Seq(Update)  BY EmptySeq
    <2>6. <<>> \o <<>> = <<>>  BY <2>5, ConcatEmptySeq
    <2>7. QED  BY <2>2, <2>3, <2>4, <2>6, FeedParts
  <1>3. feed = [a \in Apis |-> <<>>]  BY <1>2 DEF feed
  <1>4. pubs = [t \in Topics |-> <<>>]  BY Keys DEF Init, pubs
  <1>5. subs = [t \in Topics |-> {}]
    <2>1. \A t \in Topics : providers[Sub(t)] = <<>>  BY Keys DEF Init
    <2>2. Held(<<>>) = {}  BY EmptySeq DEF Held
    <2>3. QED  BY <2>1, <2>2 DEF subs
  <1>6. heard = [a \in Apis |-> [t \in Topics |-> {}]] /\ missed = {}  BY DEF Init
  <1>7. QED  BY <1>3, <1>4, <1>5, <1>6 DEF Feed!Init, pubs, subs, feed

\* Every step is a step of MasterFeed, or leaves its variables alone.
LEMMA FeedNext == ASSUME IInv, [Next]_vars  PROVE [Feed!Next]_Feed!feedVars
  <1>1. ASSUME NEW a \in Apis, Request(a)  PROVE Feed!Next  BY <1>1, FeedRequest
  <1>2. ASSUME NEW w \in Workers, Thread(w)  PROVE [Feed!Next]_Feed!feedVars
    BY <1>2, FeedThread
  <1>3. CASE UNCHANGED vars
    <2>1. pubs' = pubs /\ subs' = subs /\ heard' = heard /\ missed' = missed
      BY <1>3 DEF vars, regVars, pubs, subs
    <2>2. \A a : FeedOf(a)' = FeedOf(a)
      BY <1>3 DEF vars, poolVars, FeedOf
    <2>3. feed' = feed  BY <2>2 DEF feed
    <2>4. QED  BY <2>1, <2>3 DEF Feed!feedVars, pubs, subs, feed
  <1>4. QED  BY <1>1, <1>2, <1>3 DEF Next

(***************************************************************************)
(* The master implements MasterFeed: the publisher lists that _notify      *)
(* queues under ps_lock reach every subscriber in the order of the changes *)
(* although several threads of the pool carry them, because                *)
(* MarkedThreadPool hands out no task of a process that is being called.   *)
(***************************************************************************)
THEOREM MasterImplementsFeed == Spec => ImplementsFeed
  <1>1. Init => Feed!Init  BY FeedInit
  <1>2. IInv /\ [Next]_vars => [Feed!Next]_Feed!feedVars  BY FeedNext
  <1>3. QED  BY <1>1, <1>2, InvariantHolds, PTL DEF Spec, ImplementsFeed, Feed!Spec

-----------------------------------------------------------------------------
(***************************************************************************)
(* What MasterFeed promises the subscribers.  A feed in flight may hold    *)
(* several lists of a topic, some of them out of date; the last one is     *)
(* what counts.                                                            *)
(***************************************************************************)

Entry == [topic : Topics, list : Seq(Apis)]

FeedTyped ==
  /\ pubs \in [Topics -> Seq(Apis)]
  /\ subs \in [Topics -> SUBSET Apis]
  /\ feed \in [Apis -> Seq(Entry)]
  /\ heard \in [Apis -> [Topics -> SUBSET Apis]]

NothingOf(f, t) == \A i \in DOMAIN f : f[i].topic # t

\* Entry i is the last of its topic in the feed f.
LastOf(f, t, i) ==
  /\ i \in DOMAIN f /\ f[i].topic = t
  /\ \A j \in DOMAIN f : j > i => f[j].topic # t

\* The last list of t on the way to a holds every publisher of t.
OnTheWay(a, t) ==
  \E i \in DOMAIN feed[a] :
    LastOf(feed[a], t, i) /\ Feed!Members(pubs[t]) \subseteq Feed!Members(feed[a][i].list)

(***************************************************************************)
(* A subscriber knows every publisher, or will from the last list on the   *)
(* way to it, or that list was lost.                                       *)
(***************************************************************************)
Informed ==
  \A a \in Apis, t \in Topics : a \in subs[t] =>
    \/ Feed!Members(pubs[t]) \subseteq heard[a][t]
    \/ OnTheWay(a, t)
    \/ NothingOf(feed[a], t) /\ <<a, t>> \in missed

FeedInv == FeedTyped /\ Informed

\* Informed is enough.
LEMMA InformedImplies == ASSUME FeedInv  PROVE Feed!NothingMissed
  BY DEF FeedInv, Informed, Feed!NothingMissed, OnTheWay, LastOf, NothingOf

\* What an entry at the end does to a feed.
LEMMA AtTheEnd ==
    ASSUME NEW f \in Seq(Entry), NEW e \in Entry
    PROVE  /\ Append(f, e) \in Seq(Entry)
           /\ LastOf(Append(f, e), e.topic, Len(f) + 1) /\ Append(f, e)[Len(f) + 1] = e
           /\ \A t \in Topics \ {e.topic} :
                /\ NothingOf(f, t) => NothingOf(Append(f, e), t)
                /\ \A i \in DOMAIN f : /\ LastOf(f, t, i) => LastOf(Append(f, e), t, i)
                                       /\ i \in DOMAIN Append(f, e) /\ Append(f, e)[i] = f[i]
  <1> DEFINE g == Append(f, e)
  <1>1. /\ g \in Seq(Entry) /\ Len(g) = Len(f) + 1 /\ Len(f) \in Nat
        /\ \A i \in 1..Len(f) : g[i] = f[i]
        /\ g[Len(f) + 1] = e
        /\ DOMAIN f = 1..Len(f) /\ DOMAIN g = 1..Len(g)
    BY AppendProperties, LenProperties
  <1> HIDE DEF g
  <1>2. DOMAIN g = DOMAIN f \cup {Len(f) + 1}  BY <1>1
  <1>3. LastOf(g, e.topic, Len(f) + 1)
    <2>1. \A j \in DOMAIN g : ~(j > Len(f) + 1)  BY <1>1
    <2>2. QED  BY <1>1, <1>2, <2>1 DEF LastOf
  <1>4. ASSUME NEW t \in Topics \ {e.topic}, NothingOf(f, t)  PROVE NothingOf(g, t)
    BY <1>1, <1>2, <1>4 DEF NothingOf
  <1>5. ASSUME NEW t \in Topics \ {e.topic}, NEW i \in DOMAIN f, LastOf(f, t, i)
        PROVE  LastOf(g, t, i)
    BY <1>1, <1>2, <1>5 DEF LastOf
  <1>6. \A i \in DOMAIN f : i \in DOMAIN g /\ g[i] = f[i]  BY <1>1, <1>2
  <1>7. QED  BY <1>1, <1>3, <1>4, <1>5, <1>6 DEF g

\* What the delivery or the loss of the first entry does to a feed.
LEMMA AtTheHead ==
    ASSUME NEW f \in Seq(Entry), f # <<>>
    PROVE  /\ Tail(f) \in Seq(Entry) /\ Head(f) = f[1] /\ f[1] \in Entry /\ 1 \in DOMAIN f
           /\ \A t \in Topics :
                /\ NothingOf(f, t) => NothingOf(Tail(f), t)
                /\ LastOf(f, t, 1) => NothingOf(Tail(f), t)
                /\ \A i \in DOMAIN f \ {1} : LastOf(f, t, i) =>
                     /\ LastOf(Tail(f), t, i - 1)
                     /\ i - 1 \in DOMAIN Tail(f) /\ Tail(f)[i - 1] = f[i]
  <1> DEFINE g == Tail(f)
  <1>1. /\ g \in Seq(Entry) /\ Len(g) = Len(f) - 1 /\ Len(f) \in Nat \ {0}
        /\ \A i \in 1..Len(g) : g[i] = f[i + 1]
        /\ DOMAIN f = 1..Len(f) /\ DOMAIN g = 1..Len(g)
    BY HeadTailProperties, LenProperties, EmptySeq
  <1>2. Head(f) = f[1] /\ 1 \in DOMAIN f /\ f[1] \in Entry  BY <1>1, ElementOfSeq
  <1> HIDE DEF g
  <1>3. \A j \in DOMAIN g : j + 1 \in DOMAIN f /\ j + 1 > 1 /\ g[j] = f[j + 1]  BY <1>1
  <1>4. ASSUME NEW t \in Topics, NothingOf(f, t)  PROVE NothingOf(g, t)  BY <1>3, <1>4 DEF NothingOf
  <1>5. ASSUME NEW t \in Topics, LastOf(f, t, 1)  PROVE NothingOf(g, t)
    BY <1>3, <1>5 DEF NothingOf, LastOf
  <1>6. ASSUME NEW t \in Topics, NEW i \in DOMAIN f \ {1}, LastOf(f, t, i)
        PROVE  LastOf(g, t, i - 1) /\ i - 1 \in DOMAIN g /\ g[i - 1] = f[i]
    <2>1. i - 1 \in DOMAIN g /\ (i - 1) + 1 = i  BY <1>1
    <2>2. g[i - 1] = f[i]  BY <1>3, <2>1
    <2>3. ASSUME NEW j \in DOMAIN g, j > i - 1  PROVE g[j].topic # t
      <3>1. j + 1 \in DOMAIN f /\ j + 1 > i /\ g[j] = f[j + 1]  BY <1>1, <1>3, <2>3
      <3>2. QED  BY <1>6, <3>1 DEF LastOf
    <2>4. QED  BY <1>6, <2>1, <2>2, <2>3 DEF LastOf
  <1>7. QED  BY <1>1, <1>2, <1>4, <1>5, <1>6 DEF g

\* A list of processes has members that are processes.
LEMMA MembersType == \A s \in Seq(Apis) : Feed!Members(s) \subseteq Apis
  BY DEF Feed!Members

\* An announcement tells every subscriber.
LEMMA AnnounceInv == ASSUME FeedInv, NEW t \in Topics, Feed!Announce(t)  PROVE FeedInv'
  <1> DEFINE e == [topic |-> t, list |-> pubs'[t]]
  <1>t. FeedTyped /\ Informed  BY DEF FeedInv
  <1>1. /\ pubs' \in [Topics -> Seq(Apis)] /\ subs' \in [Topics -> SUBSET Apis]
        /\ heard' = heard /\ missed' = missed
        /\ \A u \in Topics \ {t} : Feed!Members(pubs'[u]) \subseteq Feed!Members(pubs[u])
        /\ \A u \in Topics : subs'[u] \subseteq subs[u]
        /\ feed' = [a \in Apis |-> IF a \in subs'[t] THEN Append(feed[a], e) ELSE feed[a]]
    BY DEF Feed!Announce, Feed!Tables, Feed!Tell
  <1>2. e \in Entry /\ e.topic = t /\ e.list = pubs'[t]  BY <1>1 DEF Entry
  <1> HIDE DEF e
  <1>3. \A a \in Apis : feed[a] \in Seq(Entry) /\ Append(feed[a], e) \in Seq(Entry)
    BY <1>2, <1>t, AtTheEnd DEF FeedTyped
  <1>4. FeedTyped'
    <2>1. feed' \in [Apis -> Seq(Entry)]  BY <1>1, <1>3
    <2>2. QED  BY <1>1, <1>t, <2>1 DEF FeedTyped
  <1>5. ASSUME NEW a \in Apis, NEW u \in Topics, a \in subs'[u]
        PROVE  \/ Feed!Members(pubs'[u]) \subseteq heard'[a][u]
               \/ OnTheWay(a, u)'
               \/ NothingOf(feed'[a], u) /\ <<a, u>> \in missed'
    <2>1. feed'[a] = IF a \in subs'[t] THEN Append(feed[a], e) ELSE feed[a]  BY <1>1
    <2>2. PICK f \in Seq(Entry) : f = feed[a]  BY <1>3
    <2>3. CASE u = t
      <3>1. feed'[a] = Append(f, e)  BY <1>5, <2>1, <2>2, <2>3
      <3>2. /\ LastOf(feed'[a], t, Len(f) + 1) /\ feed'[a][Len(f) + 1] = e
        BY <1>2, <3>1, AtTheEnd
      <3>3. Len(f) + 1 \in DOMAIN feed'[a]  BY <3>2 DEF LastOf
      <3>4. OnTheWay(a, t)'  BY <1>2, <3>2, <3>3 DEF OnTheWay, LastOf, Feed!Members
      <3>5. QED  BY <2>3, <3>4
    <2>4. CASE u # t
      <3>1. a \in subs[u] /\ Feed!Members(pubs'[u]) \subseteq Feed!Members(pubs[u])
        BY <1>1, <1>5, <2>4
      <3>2. /\ NothingOf(f, u) => NothingOf(feed'[a], u)
            /\ \A i \in DOMAIN f : LastOf(f, u, i) =>
                 LastOf(feed'[a], u, i) /\ i \in DOMAIN feed'[a] /\ feed'[a][i] = f[i]
        <4>1. CASE a \in subs'[t]
          <5>1. feed'[a] = Append(f, e)  BY <2>1, <2>2, <4>1
          <5>2. u \in Topics \ {e.topic}  BY <1>2, <2>4
          <5>3. QED  BY <1>2, <5>1, <5>2, AtTheEnd
        <4>2. CASE a \notin subs'[t]
          <5>1. feed'[a] = f  BY <2>1, <2>2, <4>2
          <5>2. QED  BY <5>1
        <4>3. QED  BY <4>1, <4>2
      <3>3. CASE OnTheWay(a, u)
        <4>1. PICK i \in DOMAIN f : LastOf(f, u, i) /\ Feed!Members(pubs[u]) \subseteq Feed!Members(f[i].list)
          BY <2>2, <3>3 DEF OnTheWay
        <4>2. LastOf(feed'[a], u, i) /\ i \in DOMAIN feed'[a] /\ feed'[a][i] = f[i]
          BY <3>2, <4>1
        <4>3. Feed!Members(pubs'[u]) \subseteq Feed!Members(feed'[a][i].list)  BY <3>1, <4>1, <4>2
        <4>4. QED  BY <4>2, <4>3 DEF OnTheWay, LastOf, Feed!Members
      <3>4. CASE Feed!Members(pubs[u]) \subseteq heard[a][u]  BY <1>1, <3>1, <3>4
      <3>5. CASE NothingOf(feed[a], u) /\ <<a, u>> \in missed  BY <1>1, <2>2, <3>2, <3>5
      <3>6. QED  BY <1>t, <3>1, <3>3, <3>4, <3>5 DEF Informed
    <2>5. QED  BY <2>3, <2>4
  <1>6. Informed'  BY <1>5 DEF Informed, NothingOf, Feed!Members
  <1>7. QED  BY <1>4, <1>6 DEF FeedInv

\* Feed!Fewer publishers, and the feeds as they were: who was informed still is.
LEMMA StillInformed ==
    ASSUME FeedInv, NEW a \in Apis, NEW t \in Topics, a \in subs[t], feed' = feed,
           Feed!Members(pubs'[t]) \subseteq Feed!Members(pubs[t]),
           heard'[a][t] = heard[a][t], <<a, t>> \in missed => <<a, t>> \in missed'
    PROVE  \/ Feed!Members(pubs'[t]) \subseteq heard'[a][t]
           \/ OnTheWay(a, t)'
           \/ NothingOf(feed'[a], t) /\ <<a, t>> \in missed'
  <1>1. CASE OnTheWay(a, t)
    <2>1. PICK i \in DOMAIN feed[a] :
            LastOf(feed[a], t, i) /\ Feed!Members(pubs[t]) \subseteq Feed!Members(feed[a][i].list)
      BY <1>1 DEF OnTheWay
    <2>2. Feed!Members(pubs'[t]) \subseteq Feed!Members(feed[a][i].list)  BY <2>1
    <2>3. OnTheWay(a, t)'  BY <2>1, <2>2 DEF OnTheWay, LastOf, Feed!Members
    <2>4. QED  BY <2>3
  <1>2. CASE Feed!Members(pubs[t]) \subseteq heard[a][t]  BY <1>2
  <1>3. CASE NothingOf(feed[a], t) /\ <<a, t>> \in missed  BY <1>3 DEF NothingOf
  <1>4. QED  BY <1>1, <1>2, <1>3 DEF FeedInv, Informed

\* A subscriber that joins knows the list of the answer.
LEMMA JoinInv == ASSUME FeedInv, NEW a \in Apis, NEW t \in Topics, Feed!Join(a, t)  PROVE FeedInv'
  <1>t. FeedTyped /\ Informed  BY DEF FeedInv
  <1>1. /\ pubs' \in [Topics -> Seq(Apis)] /\ subs' \in [Topics -> SUBSET Apis]
        /\ heard' = [heard EXCEPT ![a][t] = Feed!Members(pubs'[t])]
        /\ missed' = missed \ {<<a, t>>} /\ feed' = feed
        /\ \A u \in Topics : Feed!Members(pubs'[u]) \subseteq Feed!Members(pubs[u])
        /\ \A u \in Topics \ {t} : subs'[u] \subseteq subs[u]
        /\ subs'[t] \subseteq subs[t] \cup {a}
    BY DEF Feed!Join, Feed!Tables
  <1>2. heard \in [Apis -> [Topics -> SUBSET Apis]]  BY <1>t DEF FeedTyped
  <1>3. Feed!Members(pubs'[t]) \subseteq Apis  BY <1>1, MembersType
  <1>4. /\ heard' \in [Apis -> [Topics -> SUBSET Apis]]
        /\ heard'[a][t] = Feed!Members(pubs'[t])
        /\ \A b \in Apis, u \in Topics : <<b, u>> # <<a, t>> => heard'[b][u] = heard[b][u]
    BY <1>1, <1>2, <1>3
  <1>5. FeedTyped'  BY <1>1, <1>4, <1>t DEF FeedTyped
  <1>6. ASSUME NEW b \in Apis, NEW u \in Topics, b \in subs'[u]
        PROVE  \/ Feed!Members(pubs'[u]) \subseteq heard'[b][u]
               \/ OnTheWay(b, u)'
               \/ NothingOf(feed'[b], u) /\ <<b, u>> \in missed'
    <2>1. CASE b = a /\ u = t  BY <1>4, <2>1
    <2>2. CASE ~(b = a /\ u = t)
      <3>1. b \in subs[u]
        <4>1. CASE u = t  BY <1>1, <1>6, <2>2, <4>1
        <4>2. CASE u # t  BY <1>1, <1>6, <4>2
        <4>3. QED  BY <4>1, <4>2
      <3>2. <<b, u>> # <<a, t>>  BY <2>2
      <3>3. heard'[b][u] = heard[b][u] /\ (<<b, u>> \in missed => <<b, u>> \in missed')
        BY <1>1, <1>4, <3>2
      <3>4. QED  BY <1>1, <3>1, <3>3, StillInformed
    <2>3. QED  BY <2>1, <2>2
  <1>7. Informed'  BY <1>6 DEF Informed, NothingOf, Feed!Members
  <1>8. QED  BY <1>5, <1>7 DEF FeedInv

\* Registrations that end take no information away.
LEMMA DropInv == ASSUME FeedInv, Feed!Drop  PROVE FeedInv'
  <1>t. FeedTyped /\ Informed  BY DEF FeedInv
  <1>1. /\ pubs' \in [Topics -> Seq(Apis)] /\ subs' \in [Topics -> SUBSET Apis]
        /\ heard' = heard /\ missed' = missed /\ feed' = feed
        /\ \A u \in Topics : /\ Feed!Members(pubs'[u]) \subseteq Feed!Members(pubs[u])
                              /\ subs'[u] \subseteq subs[u]
    BY DEF Feed!Drop, Feed!Fewer, Feed!Tables
  <1>2. FeedTyped'  BY <1>1, <1>t DEF FeedTyped
  <1>3. ASSUME NEW b \in Apis, NEW u \in Topics, b \in subs'[u]
        PROVE  \/ Feed!Members(pubs'[u]) \subseteq heard'[b][u]
               \/ OnTheWay(b, u)'
               \/ NothingOf(feed'[b], u) /\ <<b, u>> \in missed'
    <2>1. b \in subs[u]  BY <1>1, <1>3
    <2>2. QED  BY <1>1, <2>1, StillInformed
  <1>4. Informed'  BY <1>3 DEF Informed, NothingOf, Feed!Members
  <1>5. QED  BY <1>2, <1>4 DEF FeedInv

\* The first entry of a feed is delivered or lost.
LEMMA HeadInv == ASSUME FeedInv, NEW a \in Apis, Feed!Deliver(a) \/ Feed!Lose(a)  PROVE FeedInv'
  <1>t. FeedTyped /\ Informed  BY DEF FeedInv
  <1>1. PICK f \in Seq(Entry) : f = feed[a] /\ f # <<>>
    BY <1>t DEF FeedTyped, Feed!Deliver, Feed!Lose
  <1>2. /\ Tail(f) \in Seq(Entry) /\ Head(f) = f[1] /\ f[1] \in Entry /\ 1 \in DOMAIN f
        /\ \A t \in Topics :
             /\ NothingOf(f, t) => NothingOf(Tail(f), t)
             /\ LastOf(f, t, 1) => NothingOf(Tail(f), t)
             /\ \A i \in DOMAIN f \ {1} : LastOf(f, t, i) =>
                  /\ LastOf(Tail(f), t, i - 1)
                  /\ i - 1 \in DOMAIN Tail(f) /\ Tail(f)[i - 1] = f[i]
    BY <1>1, AtTheHead
  <1> DEFINE e == f[1]
  <1>3. e \in Entry /\ e.topic \in Topics /\ e.list \in Seq(Apis)  BY <1>2 DEF Entry
  <1>e. Head(feed[a]) = e  BY <1>1, <1>2
  <1>4. /\ pubs' = pubs /\ subs' = subs
        /\ feed' = [feed EXCEPT ![a] = Tail(f)]
    BY <1>1 DEF Feed!Deliver, Feed!Lose
  <1>5. /\ feed' \in [Apis -> Seq(Entry)] /\ feed'[a] = Tail(f)
        /\ \A b \in Apis \ {a} : feed'[b] = feed[b]
    BY <1>2, <1>4, <1>t DEF FeedTyped
  <1>h. \/ /\ heard' = [heard EXCEPT ![a][e.topic] = @ \cup Feed!Members(e.list)]
           /\ missed' = missed \ {<<a, e.topic>>}
        \/ heard' = heard /\ missed' = missed \cup {<<a, e.topic>>}
    BY <1>e DEF Feed!Deliver, Feed!Lose
  <1>6. heard \in [Apis -> [Topics -> SUBSET Apis]] /\ Feed!Members(e.list) \subseteq Apis
    BY <1>3, <1>t, MembersType DEF FeedTyped
  <1> HIDE DEF e
  <1>7. /\ heard' \in [Apis -> [Topics -> SUBSET Apis]]
        /\ \A b \in Apis, u \in Topics : heard[b][u] \subseteq heard'[b][u]
        /\ \/ Feed!Members(e.list) \subseteq heard'[a][e.topic]
           \/ <<a, e.topic>> \in missed'
        /\ \A b \in Apis, u \in Topics :
             <<b, u>> # <<a, e.topic>> /\ <<b, u>> \in missed => <<b, u>> \in missed'
    <2>1. CASE /\ heard' = [heard EXCEPT ![a][e.topic] = @ \cup Feed!Members(e.list)]
               /\ missed' = missed \ {<<a, e.topic>>}
      <3>1. heard' \in [Apis -> [Topics -> SUBSET Apis]]  BY <1>3, <1>6, <2>1
      <3>2. heard'[a][e.topic] = heard[a][e.topic] \cup Feed!Members(e.list)  BY <1>3, <1>6, <2>1
      <3>3. \A b \in Apis, u \in Topics : heard[b][u] \subseteq heard'[b][u]
        <4> TAKE b \in Apis, u \in Topics
        <4>1. CASE b = a /\ u = e.topic  BY <3>2, <4>1
        <4>2. CASE ~(b = a /\ u = e.topic)
          <5>1. heard'[b][u] = heard[b][u]  BY <1>3, <1>6, <2>1, <4>2
          <5>2. QED  BY <5>1
        <4>3. QED  BY <4>1, <4>2
      <3>4. QED  BY <2>1, <3>1, <3>2, <3>3
    <2>2. CASE heard' = heard /\ missed' = missed \cup {<<a, e.topic>>}  BY <1>6, <2>2
    <2>3. QED  BY <1>h, <2>1, <2>2
  <1>8. FeedTyped'  BY <1>4, <1>5, <1>7, <1>t DEF FeedTyped
  <1>9. ASSUME NEW b \in Apis, NEW u \in Topics, b \in subs'[u]
        PROVE  \/ Feed!Members(pubs'[u]) \subseteq heard'[b][u]
               \/ OnTheWay(b, u)'
               \/ NothingOf(feed'[b], u) /\ <<b, u>> \in missed'
    <2>1. b \in subs[u]  BY <1>4, <1>9
    <2>2. CASE Feed!Members(pubs[u]) \subseteq heard[b][u]
      <3>1. heard[b][u] \subseteq heard'[b][u]  BY <1>7
      <3>2. QED  BY <1>4, <2>2, <3>1
    <2>3. CASE OnTheWay(b, u)
      <3>1. PICK i \in DOMAIN feed[b] :
              LastOf(feed[b], u, i) /\ Feed!Members(pubs[u]) \subseteq Feed!Members(feed[b][i].list)
        BY <2>3 DEF OnTheWay
      <3>2. CASE b # a
        <4>1. feed'[b] = feed[b]  BY <1>5, <3>2
        <4>2. OnTheWay(b, u)'
          <5>1. /\ LastOf(feed'[b], u, i) /\ i \in DOMAIN feed'[b]
                /\ Feed!Members(pubs'[u]) \subseteq Feed!Members(feed'[b][i].list)
            BY <1>4, <3>1, <4>1
          <5>2. QED  BY <5>1 DEF OnTheWay, LastOf, Feed!Members
        <4>3. QED  BY <4>2
      <3>3. CASE b = a /\ i = 1
        <4>1. LastOf(f, u, 1) /\ e.topic = u  BY <1>1, <3>1, <3>3 DEF LastOf, e
        <4>2. NothingOf(feed'[b], u)  BY <1>2, <1>5, <3>3, <4>1
        <4>3. Feed!Members(pubs[u]) \subseteq Feed!Members(e.list)  BY <1>1, <3>1, <3>3 DEF e
        <4>4. \/ Feed!Members(e.list) \subseteq heard'[b][u]
              \/ <<b, u>> \in missed'
          BY <1>7, <3>3, <4>1
        <4>5. QED  BY <1>4, <4>2, <4>3, <4>4
      <3>4. CASE b = a /\ i # 1
        <4>1. i \in DOMAIN f \ {1} /\ LastOf(f, u, i)  BY <1>1, <3>1, <3>4
        <4>2. LastOf(Tail(f), u, i - 1) /\ i - 1 \in DOMAIN Tail(f) /\ Tail(f)[i - 1] = f[i]
          BY <1>2, <4>1
        <4>3. /\ LastOf(feed'[b], u, i - 1) /\ i - 1 \in DOMAIN feed'[b]
              /\ Feed!Members(pubs'[u]) \subseteq Feed!Members(feed'[b][i - 1].list)
          BY <1>1, <1>4, <1>5, <3>1, <3>4, <4>2
        <4>4. PICK k : k = i - 1  OBVIOUS
        <4>5. /\ LastOf(feed'[b], u, k) /\ k \in DOMAIN feed'[b]
              /\ Feed!Members(pubs'[u]) \subseteq Feed!Members(feed'[b][k].list)
          BY <4>3, <4>4
        <4>6. OnTheWay(b, u)'  BY <4>5 DEF OnTheWay, LastOf, Feed!Members
        <4>7. QED  BY <4>6
      <3>5. QED  BY <3>2, <3>3, <3>4
    <2>4. CASE NothingOf(feed[b], u) /\ <<b, u>> \in missed
      <3>1. CASE b = a
        <4>1. NothingOf(feed'[b], u)  BY <1>1, <1>2, <1>5, <2>4, <3>1
        <4>2. e.topic # u  BY <1>1, <1>2, <2>4, <3>1 DEF NothingOf, e
        <4>3. <<b, u>> # <<a, e.topic>>  BY <4>2
        <4>4. QED  BY <1>7, <2>4, <4>1, <4>3
      <3>2. CASE b # a
        <4>1. feed'[b] = feed[b] /\ <<b, u>> # <<a, e.topic>>  BY <1>5, <3>2
        <4>2. QED  BY <1>7, <2>4, <4>1
      <3>3. QED  BY <3>1, <3>2
    <2>5. QED  BY <1>t, <2>1, <2>2, <2>3, <2>4 DEF Informed
  <1>10. Informed'  BY <1>9 DEF Informed, NothingOf, Feed!Members
  <1>11. QED  BY <1>8, <1>10 DEF FeedInv

(***************************************************************************)
(* A subscriber to which nothing is on the way knows every publisher of    *)
(* its topic, unless the last update it was sent was lost.                 *)
(***************************************************************************)
THEOREM FeedInforms == Feed!Spec => []Feed!NothingMissed
  <1>1. Feed!Init => FeedInv
    <2> SUFFICES ASSUME Feed!Init  PROVE FeedInv
      OBVIOUS
    <2>1. \A S : <<>> \in Seq(S)  BY EmptySeq
    <2>2. FeedTyped  BY <2>1 DEF Feed!Init, FeedTyped
    <2>3. QED  BY <2>2 DEF Feed!Init, FeedInv, Informed
  <1>2. FeedInv /\ [Feed!Next]_(Feed!feedVars) => FeedInv'
    <2> SUFFICES ASSUME FeedInv, [Feed!Next]_(Feed!feedVars)  PROVE FeedInv'
      OBVIOUS
    <2>1. CASE UNCHANGED Feed!feedVars
      <3>1. /\ pubs' = pubs /\ subs' = subs /\ feed' = feed /\ heard' = heard
            /\ missed' = missed
        BY <2>1 DEF Feed!feedVars
      <3>2. FeedTyped'  BY <3>1 DEF FeedInv, FeedTyped
      <3>3. ASSUME NEW a \in Apis, NEW t \in Topics, a \in subs'[t]
            PROVE  \/ Feed!Members(pubs'[t]) \subseteq heard'[a][t]
                   \/ OnTheWay(a, t)'
                   \/ NothingOf(feed'[a], t) /\ <<a, t>> \in missed'
        BY <3>1, <3>3, StillInformed
      <3>4. Informed'  BY <3>3 DEF Informed, NothingOf, Feed!Members
      <3>5. QED  BY <3>2, <3>4 DEF FeedInv
    <2>2. QED  BY <2>1, AnnounceInv, JoinInv, DropInv, HeadInv DEF Feed!Next
  <1>3. FeedInv => Feed!NothingMissed  BY InformedImplies
  <1>4. QED  BY <1>1, <1>2, <1>3, PTL DEF Feed!Spec

(***************************************************************************)
(* A subscriber with no update pending, in the queue or with a thread, was *)
(* told of every publisher of its topics, unless the last call to it       *)
(* failed: what MasterFeed promises holds of the master.                   *)
(***************************************************************************)
THEOREM SubscribersAreTold == Spec => []NothingMissed
  BY FeedInforms, MasterImplementsFeed, PTL DEF ImplementsFeed, NothingMissed

-----------------------------------------------------------------------------
(***************************************************************************)
(* The node at the other end of a feed: a rospy subscription (RospyTopic), *)
(* its threads and its transports.                                         *)
(***************************************************************************)

\* A transport that is in a list was added by a thread that has ended, and one
\* that a thread has added is in a list as long as it is not done.
Sound(x) ==
  /\ x \in Attempt
  /\ x.pc \in {"look", "request", "create"} => x.st = "none" /\ ~x.inlist
  /\ x.pc = "add" => ~x.inlist
  /\ x.pc = "end" /\ x.st \notin {"none", "done"} => x.inlist

\* No list has two transports for one publisher.
OneInList(f) ==
  \A i, j \in DOMAIN f :
    f[i].inlist /\ f[j].inlist /\ f[i].impl = f[j].impl /\ f[i].uri = f[j].uri => i = j

Orderly(f) ==
  /\ DOMAIN f \subseteq Pubs \X (1..MaxThreads)
  /\ \A i \in DOMAIN f : Sound(f[i]) /\ f[i].uri = i[1]
  /\ OneInList(f)

TopicInv ==
  /\ up \subseteq Pubs /\ advertised \subseteq up /\ listed \subseteq Pubs
  /\ inbox \in Seq(SUBSET Pubs) /\ answer \in {None} \cup SUBSET Pubs
  /\ updates \in Seq(SUBSET Pubs)
  /\ user \in {"idle", "calling", "subscribed", "closing", "leaving"}
  /\ impl \in Nat
  /\ Orderly(attempts)

\* Attempts that stay, or leave a list, stay in order.
LEMMA Narrow ==
    ASSUME NEW f, NEW g, Orderly(f), DOMAIN g \subseteq DOMAIN f,
           \A i \in DOMAIN g : /\ Sound(g[i]) /\ g[i].uri = f[i].uri
                               /\ g[i].inlist => f[i].inlist /\ g[i].impl = f[i].impl
    PROVE  Orderly(g)
  BY DEF Orderly, OneInList

\* Forgetting attempts.
LEMMA ReapOrderly == ASSUME NEW f, Orderly(f)  PROVE Orderly(Reap(f))
  <1>1. DOMAIN Reap(f) \subseteq DOMAIN f /\ \A i \in DOMAIN Reap(f) : Reap(f)[i] = f[i]
    BY DEF Reap
  <1>2. QED  BY <1>1, Narrow DEF Orderly

\* A step of one thread that puts nothing into a list.
LEMMA OneThread ==
    ASSUME Orderly(attempts), NEW i \in DOMAIN attempts, NEW x, Step(i, x), Sound(x),
           x.uri = attempts[i].uri,
           x.inlist => attempts[i].inlist /\ x.impl = attempts[i].impl
    PROVE  Orderly(attempts')
  <1> DEFINE g == [attempts EXCEPT ![i] = x]
  <1>1. DOMAIN g = DOMAIN attempts
    OBVIOUS
  <1>2. \A j \in DOMAIN g : g[j] = IF j = i THEN x ELSE attempts[j]  OBVIOUS
  <1>3. attempts' = Reap(g)  BY DEF Step
  <1> HIDE DEF g
  <1>4. Orderly(g)  BY <1>1, <1>2, Narrow DEF Orderly
  <1>5. QED  BY <1>3, <1>4, ReapOrderly

\* The fields of an attempt.
LEMMA Fields ==
    ASSUME NEW x \in Attempt
    PROVE  /\ x = [uri |-> x.uri, pc |-> x.pc, st |-> x.st, impl |-> x.impl, inlist |-> x.inlist]
           /\ x.uri \in Pubs /\ x.impl \in Nat /\ x.inlist \in BOOLEAN
           /\ x.pc \in {"look", "request", "create", "add", "end"}
           /\ x.st \in {"none", "connecting", "check", "open", "broken", "retry", "done"}
  BY DEF Attempt

\* TCPROSTransport.close ends a transport that a thread has created.
LEMMA CloseSound ==
    ASSUME NEW x, Sound(x), x.pc \in {"add", "end"}
    PROVE  /\ Sound(close(x)) /\ close(x).uri = x.uri
           /\ Sound([close(x) EXCEPT !.inlist = FALSE])
           /\ [close(x) EXCEPT !.inlist = FALSE].uri = x.uri
           /\ close(x).inlist => x.inlist /\ close(x).impl = x.impl
           /\ [close(x) EXCEPT !.inlist = FALSE].inlist = FALSE
  <1>1. x \in Attempt  BY DEF Sound
  <1>2. CASE x.st = "done"
    <2>1. close(x) = x  BY <1>2 DEF close
    <2>2. [x EXCEPT !.inlist = FALSE] \in Attempt /\ [x EXCEPT !.inlist = FALSE].pc = x.pc
          /\ [x EXCEPT !.inlist = FALSE].st = x.st /\ [x EXCEPT !.inlist = FALSE].uri = x.uri
          /\ [x EXCEPT !.inlist = FALSE].inlist = FALSE
      BY <1>1 DEF Attempt
    <2>3. QED  BY <1>2, <2>1, <2>2 DEF Sound
  <1>3. CASE x.st # "done"
    <2> DEFINE y == [x EXCEPT !.st = "done", !.inlist = FALSE]
    <2>1. close(x) = y  BY <1>3 DEF close
    <2>2. y \in Attempt /\ y.pc = x.pc /\ y.st = "done" /\ y.uri = x.uri /\ y.inlist = FALSE
      BY <1>1 DEF Attempt
    <2> HIDE DEF y
    <2>3. [y EXCEPT !.inlist = FALSE] \in Attempt /\ [y EXCEPT !.inlist = FALSE].pc = x.pc
          /\ [y EXCEPT !.inlist = FALSE].st = "done" /\ [y EXCEPT !.inlist = FALSE].uri = x.uri
          /\ [y EXCEPT !.inlist = FALSE].inlist = FALSE
      BY <2>2 DEF Attempt
    <2>4. QED  BY <2>1, <2>2, <2>3 DEF Sound
  <1>4. QED  BY <1>2, <1>3

\* add_connection: the transport goes into a list from which the others for the
\* same publisher are dropped.
LEMMA AddOrderly ==
    ASSUME Orderly(attempts), NEW i \in DOMAIN attempts, add_connection(i)
    PROVE Orderly(attempts')
  <1> DEFINE x == [attempts[i] EXCEPT !.pc = "end", !.inlist = TRUE]
             g == [j \in DOMAIN attempts |->
                     IF j = i THEN x
                     ELSE IF j \in drop_old(i)
                          THEN [close(attempts[j]) EXCEPT !.inlist = FALSE]
                     ELSE attempts[j]]
  <1>1. attempts' = Reap(g) /\ attempts[i].pc = "add"  BY DEF add_connection
  <1>2. Sound(attempts[i])  BY DEF Orderly
  <1>3. Sound(x) /\ x.uri = attempts[i].uri /\ x.impl = attempts[i].impl /\ x.inlist
    <2>1. attempts[i] \in Attempt  BY <1>2 DEF Sound
    <2>2. /\ x \in Attempt /\ x.pc = "end" /\ x.uri = attempts[i].uri
          /\ x.impl = attempts[i].impl /\ x.inlist
      BY <2>1 DEF Attempt
    <2>3. QED  BY <2>2 DEF Sound
  <1> HIDE DEF x
  <1>d. \A j \in drop_old(i) : j \in DOMAIN attempts /\ attempts[j].inlist
      BY DEF drop_old
  <1>4. ASSUME NEW j \in DOMAIN attempts, j # i, j \in drop_old(i)
        PROVE  Sound(g[j]) /\ g[j].uri = attempts[j].uri /\ g[j].inlist = FALSE
    <2>1. Sound(attempts[j]) /\ attempts[j].inlist  BY <1>4, <1>d DEF Orderly
    <2>2. attempts[j].pc \in {"add", "end"}  BY <2>1, Fields DEF Sound
    <2>3. g[j] = [close(attempts[j]) EXCEPT !.inlist = FALSE]  BY <1>4
    <2>4. /\ Sound([close(attempts[j]) EXCEPT !.inlist = FALSE])
          /\ [close(attempts[j]) EXCEPT !.inlist = FALSE].uri = attempts[j].uri
          /\ [close(attempts[j]) EXCEPT !.inlist = FALSE].inlist = FALSE
      BY <2>1, <2>2, CloseSound
    <2> HIDE DEF g
    <2>5. QED  BY <2>3, <2>4, Zenon
  <1>5. ASSUME NEW j \in DOMAIN attempts, j # i, j \notin drop_old(i)
        PROVE  g[j] = attempts[j]
    BY <1>5
  <1>6. g[i] = x /\ DOMAIN g = DOMAIN attempts  OBVIOUS
  <1> HIDE DEF g
  <1>7. ASSUME NEW j \in DOMAIN attempts
        PROVE  Sound(g[j]) /\ g[j].uri = attempts[j].uri
    BY <1>3, <1>4, <1>5, <1>6 DEF Orderly
  <1>8. ASSUME NEW j \in DOMAIN attempts, NEW k \in DOMAIN attempts, g[j].inlist, g[k].inlist,
               g[j].impl = g[k].impl, g[j].uri = g[k].uri
        PROVE  j = k
    <2>1. j # i => g[j] = attempts[j] /\ j \notin drop_old(i)  BY <1>4, <1>5, <1>8
    <2>2. k # i => g[k] = attempts[k] /\ k \notin drop_old(i)  BY <1>4, <1>5, <1>8
    <2>3. CASE j # i /\ k # i  BY <1>8, <2>1, <2>2, <2>3 DEF Orderly, OneInList
    <2>4. CASE j = i /\ k # i
      <3>1. k \in drop_old(i)  BY <1>3, <1>6, <1>8, <2>2, <2>4 DEF drop_old
      <3>2. QED  BY <2>2, <2>4, <3>1
    <2>5. CASE j # i /\ k = i
      <3>1. j \in drop_old(i)  BY <1>3, <1>6, <1>8, <2>1, <2>5 DEF drop_old
      <3>2. QED  BY <2>1, <2>5, <3>1
    <2>6. QED  BY <2>3, <2>4, <2>5
  <1>9. Orderly(g)
    <2>1. OneInList(g)  BY <1>6, <1>8 DEF OneInList
    <2>2. QED  BY <1>6, <1>7, <2>1 DEF Orderly
  <1>10. QED  BY <1>1, <1>9, ReapOrderly

\* A step of a connect thread or of a transport's thread.
LEMMA ThreadOrderly ==
    ASSUME Orderly(attempts), impl \in Nat, NEW i \in DOMAIN attempts, ConnectThread(i)
    PROVE  Orderly(attempts')
  <1> DEFINE x == attempts[i]
  <1>1. Sound(x) /\ x \in Attempt  BY DEF Orderly, Sound
  <1>p. ASSUME NEW pc \in {"request", "create", "end"}, x.pc \in {"look", "request", "create"},
               Step(i, [x EXCEPT !.pc = pc])
        PROVE  Orderly(attempts')
    <2> DEFINE y == [x EXCEPT !.pc = pc]
    <2>1. y \in Attempt /\ y.pc = pc /\ y.st = x.st /\ y.uri = x.uri /\ y.inlist = x.inlist
      BY <1>1 DEF Attempt
    <2>2. Step(i, y) /\ x.st = "none" /\ ~x.inlist  BY <1>1, <1>p DEF Sound
    <2> HIDE DEF x, y
    <2>3. Sound(y)  BY <2>1, <2>2 DEF Sound
    <2>4. QED  BY <2>1, <2>2, <2>3, OneThread DEF x
  <1>s. ASSUME NEW st \in {"check", "open", "broken", "retry", "done"}, x.st \notin {"none", "done"},
               Step(i, [x EXCEPT !.st = st])
        PROVE  Orderly(attempts')
    <2> DEFINE y == [x EXCEPT !.st = st]
    <2>1. /\ y \in Attempt /\ y.pc = x.pc /\ y.st = st /\ y.uri = x.uri /\ y.inlist = x.inlist
          /\ y.impl = x.impl
      BY <1>1 DEF Attempt
    <2>2. Step(i, y)  BY <1>s
    <2>3. x.pc \notin {"look", "request", "create"} /\ (x.pc = "end" => x.inlist)
      BY <1>1, <1>s DEF Sound
    <2> HIDE DEF x, y
    <2>4. Sound(y)  BY <1>1, <2>1, <2>3 DEF Sound
    <2>5. QED  BY <2>1, <2>2, <2>4, OneThread DEF x
  <1>c. ASSUME x.st \notin {"none", "done"}, Step(i, close(x))  PROVE Orderly(attempts')
    <2>1. x.pc \in {"add", "end"}  BY <1>1, <1>c, Fields DEF Sound
    <2> HIDE DEF x
    <2>2. /\ Sound(close(x)) /\ close(x).uri = x.uri
          /\ close(x).inlist => x.inlist /\ close(x).impl = x.impl
      BY <1>1, <2>1, CloseSound
    <2>3. QED  BY <1>c, <2>2, OneThread DEF x
  <1>2. CASE look(i)  BY <1>2, <1>p DEF look
  <1>3. CASE requestTopic(i)  BY <1>3, <1>p DEF requestTopic
  <1>4. CASE create_transport(i)
    <2>1. x.pc = "create" /\ x.st = "none" /\ ~x.inlist
        BY <1>1, <1>4 DEF create_transport, Sound
    <2>2. CASE known
      <3> DEFINE y == [x EXCEPT !.pc = "add", !.st = "connecting", !.impl = impl]
      <3>1. /\ y \in Attempt /\ y.pc = "add" /\ y.uri = x.uri /\ y.inlist = x.inlist
        BY <1>1 DEF Attempt
      <3>2. Step(i, y)  BY <1>4, <2>2 DEF create_transport
      <3> HIDE DEF x, y
      <3>3. Sound(y)  BY <2>1, <3>1 DEF Sound
      <3>4. QED  BY <2>1, <3>1, <3>2, <3>3, OneThread DEF x
    <2>3. CASE ~known
      <3>1. Step(i, [x EXCEPT !.pc = "end"])  BY <1>4, <2>3 DEF create_transport
      <3>2. QED  BY <1>p, <2>1, <3>1
    <2>4. QED  BY <2>2, <2>3
  <1>5. CASE add_connection(i)  BY <1>5, AddOrderly
  <1>6. CASE connect(i)  BY <1>6, <1>s, <1>c DEF connect
  <1>7. CASE check_if_still_publisher(i)  BY <1>7, <1>s DEF check_if_still_publisher
  <1>8. CASE end_of_file(i)  BY <1>8, <1>s DEF end_of_file
  <1>9. CASE reconnect(i)  BY <1>9, <1>s, <1>c DEF reconnect
  <1>10. QED  BY <1>2, <1>3, <1>4, <1>5, <1>6, <1>7, <1>8, <1>9 DEF ConnectThread


\* A publisher closes its connections.
LEMMA HangupOrderly == ASSUME Orderly(attempts), NEW p  PROVE Orderly(hangup(p))
  <1>1. ASSUME NEW i \in DOMAIN attempts
        PROVE  /\ Sound(hangup(p)[i]) /\ hangup(p)[i].uri = attempts[i].uri
               /\ hangup(p)[i].inlist => attempts[i].inlist /\ hangup(p)[i].impl = attempts[i].impl
    <2> DEFINE x == attempts[i]
               y == [x EXCEPT !.st = "broken"]
    <2>1. Sound(x) /\ x \in Attempt  BY DEF Orderly, Sound
    <2>2. /\ y \in Attempt /\ y.pc = x.pc /\ y.st = "broken" /\ y.uri = x.uri
          /\ y.inlist = x.inlist /\ y.impl = x.impl
      BY <2>1 DEF Attempt
    <2>3. hangup(p)[i] = IF x.uri = p /\ x.st = "open" THEN y ELSE x  BY DEF hangup
    <2> HIDE DEF x, y
    <2>4. x.st = "open" => Sound(y)  BY <2>1, <2>2 DEF Sound
    <2>5. QED  BY <2>1, <2>2, <2>3, <2>4 DEF x
  <1>2. DOMAIN hangup(p) = DOMAIN attempts  BY DEF hangup
  <1>3. QED  BY <1>1, <1>2, Narrow

\* _TopicImpl.close.
LEMMA CloseOrderly == ASSUME Orderly(attempts), close_impl  PROVE Orderly(attempts')
  <1> DEFINE g == [i \in DOMAIN attempts |->
                   IF attempts[i].inlist /\ attempts[i].impl = impl
                   THEN [close(attempts[i]) EXCEPT !.inlist = FALSE]
                   ELSE attempts[i]]
  <1>1. attempts' = Reap(g)  BY DEF close_impl
  <1>2. ASSUME NEW i \in DOMAIN attempts
        PROVE  /\ Sound(g[i]) /\ g[i].uri = attempts[i].uri
               /\ g[i].inlist => attempts[i].inlist /\ g[i].impl = attempts[i].impl
    <2>1. Sound(attempts[i])  BY DEF Orderly
    <2>2. CASE attempts[i].inlist /\ attempts[i].impl = impl
      <3>1. g[i] = [close(attempts[i]) EXCEPT !.inlist = FALSE]  BY <2>2
      <3>2. attempts[i].pc \in {"add", "end"}  BY <2>1, <2>2, Fields DEF Sound
      <3>3. QED  BY <2>1, <3>1, <3>2, CloseSound
    <2>3. CASE ~(attempts[i].inlist /\ attempts[i].impl = impl)  BY <2>1, <2>3
    <2>4. QED  BY <2>2, <2>3
  <1>3. DOMAIN g = DOMAIN attempts  OBVIOUS
  <1> HIDE DEF g
  <1>4. Orderly(g)  BY <1>2, <1>3, Narrow
  <1>5. QED  BY <1>1, <1>4, ReapOrderly

\* New threads have no transport yet.
LEMMA SpawnOrderly ==
    ASSUME Orderly(attempts), NEW uris \in SUBSET Pubs, \A p \in uris : Free(p) # {}
    PROVE  Orderly(spawn(uris))
  <1> DEFINE g == spawn(uris)
  <1>1. \A i \in NewThreads(uris) : i \in Pubs \X (1..MaxThreads)
    <2> SUFFICES ASSUME NEW p \in uris
                 PROVE  <<p, CHOOSE k \in Free(p) : TRUE>> \in Pubs \X (1..MaxThreads)
      BY DEF NewThreads
    <2>1. (CHOOSE k \in Free(p) : TRUE) \in Free(p)  OBVIOUS
    <2>2. QED  BY <2>1 DEF Free
  <1>2. /\ DOMAIN g = DOMAIN attempts \cup NewThreads(uris)
        /\ \A i \in DOMAIN attempts : g[i] = attempts[i]
        /\ \A i \in DOMAIN g \ DOMAIN attempts :
             g[i] = [uri |-> i[1], pc |-> "look", st |-> "none", impl |-> 0, inlist |-> FALSE]
    BY DEF spawn
  <1> HIDE DEF g
  <1>3. ASSUME NEW i \in DOMAIN g \ DOMAIN attempts
        PROVE  Sound(g[i]) /\ g[i].uri = i[1] /\ g[i].inlist = FALSE
    <2>1. i[1] \in Pubs  BY <1>1, <1>2
    <2> DEFINE x == [uri |-> i[1], pc |-> "look", st |-> "none", impl |-> 0, inlist |-> FALSE]
    <2>2. x \in Attempt /\ x.pc = "look" /\ x.st = "none" /\ x.inlist = FALSE /\ x.uri = i[1]
      BY <2>1 DEF Attempt
    <2>3. g[i] = x  BY <1>2
    <2> HIDE DEF x
    <2>4. QED  BY <2>2, <2>3 DEF Sound
  <1>4. OneInList(g)  BY <1>2, <1>3 DEF Orderly, OneInList
  <1>5. QED  BY <1>1, <1>2, <1>3, <1>4 DEF Orderly, g

\* Nobody has subscribed and no thread runs.
LEMMA TopicStarts == TopicInit => TopicInv
  <1> SUFFICES ASSUME TopicInit  PROVE TopicInv
    OBVIOUS
  <1>1. <<>> \in Seq(SUBSET Pubs) /\ DOMAIN <<>> = {}  BY EmptySeq
  <1>2. Orderly(<<>>)  BY <1>1 DEF Orderly, OneInList
  <1>3. QED  BY <1>1, <1>2 DEF TopicInit, TopicInv

\* Every step of a publisher, the master or the node.
LEMMA TopicStep == TopicInv /\ [TopicNext]_topicVars => TopicInv'
  <1> SUFFICES ASSUME TopicInv, [TopicNext]_topicVars  PROVE TopicInv'
    OBVIOUS
  <1> USE DEF pubVars, masterVars, userVars
  <1>1. ASSUME NEW p \in Pubs, Publisher(p)  PROVE TopicInv'
    <2>1. Orderly(hangup(p))  BY HangupOrderly DEF TopicInv
    <2>2. ASSUME NEW list \in SUBSET Pubs, announce(list)
          PROVE  listed' = list /\ inbox' \in Seq(SUBSET Pubs) /\ UNCHANGED <<subscribed, answer>>
      <3>1. inbox \in Seq(SUBSET Pubs)  BY DEF TopicInv
      <3>2. Append(inbox, list) \in Seq(SUBSET Pubs)  BY <3>1, AppendProperties
      <3>3. QED  BY <2>2, <3>1, <3>2 DEF announce
    <2>3. CASE advertise(p)  BY <2>3 DEF advertise, TopicInv
    <2>4. CASE reg_publisher(p)
      <3>1. listed \cup {p} \in SUBSET Pubs /\ announce(listed \cup {p})
        BY <2>4 DEF reg_publisher, TopicInv
      <3>2. QED  BY <2>2, <2>4, <3>1 DEF reg_publisher, TopicInv
    <2>5. CASE unadvertise(p)
      <3>1. attempts' = hangup(p)  BY <2>5 DEF unadvertise
      <3>2. QED  BY <2>1, <2>5, <3>1 DEF unadvertise, TopicInv
    <2>6. CASE unreg_publisher(p)
      <3>1. listed \ {p} \in SUBSET Pubs /\ announce(listed \ {p})
        BY <2>6 DEF unreg_publisher, TopicInv
      <3>2. QED  BY <2>2, <2>6, <3>1 DEF unreg_publisher, TopicInv
    <2>7. CASE die(p)
      <3>1. attempts' = hangup(p)  BY <2>7 DEF die
      <3>2. QED  BY <2>1, <2>7, <3>1 DEF die, TopicInv
    <2>8. QED  BY <1>1, <2>3, <2>4, <2>5, <2>6, <2>7 DEF Publisher
  <1>2. CASE subscribe  BY <1>2 DEF subscribe, TopicInv
  <1>3. CASE reg_added
    <2>1. answer \in SUBSET Pubs /\ updates \in Seq(SUBSET Pubs)
        BY <1>3 DEF reg_added, TopicInv
    <2>2. Append(updates, answer) \in Seq(SUBSET Pubs)  BY <2>1, AppendProperties
    <2>3. QED  BY <1>3, <2>2 DEF reg_added, TopicInv
  <1>4. CASE close_impl
    <2>1. Orderly(attempts')  BY <1>4, CloseOrderly DEF TopicInv
    <2>2. QED  BY <1>4, <2>1 DEF close_impl, TopicInv
  <1>5. CASE remove_impl  BY <1>5 DEF remove_impl, TopicInv
  <1>6. CASE publisherUpdate
    <2>1. inbox \in Seq(SUBSET Pubs) /\ inbox # <<>> /\ updates \in Seq(SUBSET Pubs)
      BY <1>6 DEF publisherUpdate, TopicInv
    <2>2. Head(inbox) \in SUBSET Pubs /\ Tail(inbox) \in Seq(SUBSET Pubs)
      BY <2>1, HeadTailProperties
    <2>3. Cardinality(Head(inbox)) \in Nat
      <3>1. IsFiniteSet(Pubs)  BY TopicAssumption
      <3>2. QED  BY <2>2, <3>1, FS_Subset, FS_CardinalityType
    <2> DEFINE r == [i \in 1..Cardinality(Head(inbox)) |-> Head(inbox)]
    <2>4. r \in Seq(SUBSET Pubs)  BY <2>2, <2>3, SeqDef
    <2> HIDE DEF r
    <2>5. updates \o r \in Seq(SUBSET Pubs)  BY <2>1, <2>4, ConcatProperties
    <2>6. updates' = updates \o r /\ inbox' = Tail(inbox)  BY <1>6 DEF publisherUpdate, r
    <2>7. QED  BY <1>6, <2>2, <2>5, <2>6 DEF publisherUpdate, TopicInv
  <1>7. CASE run
    <2>1. updates \in Seq(SUBSET Pubs) /\ updates # <<>>  BY <1>7 DEF run, TopicInv
    <2>2. Len(updates) \in Nat \ {0}  BY <2>1, EmptySeq, LenProperties
    <2>3. Last(updates) \in SUBSET Pubs  BY <2>1, <2>2, ElementOfSeq DEF Last
    <2>4. Orderly(attempts')  BY <1>7, <2>3, SpawnOrderly DEF run, TopicInv
    <2>5. <<>> \in Seq(SUBSET Pubs)  BY EmptySeq
    <2>6. QED  BY <1>7, <2>4, <2>5 DEF run, TopicInv
  <1>8. CASE Master
    BY <1>8 DEF Master, reg_subscriber, reg_removed, TopicInv
  <1>9. ASSUME NEW i \in DOMAIN attempts, ConnectThread(i)  PROVE TopicInv'
    <2>1. Orderly(attempts')  BY <1>9, ThreadOrderly DEF TopicInv
    <2>2. ThreadLeaves
      BY <1>9 DEF ConnectThread, look, requestTopic, create_transport, add_connection, connect,
                  check_if_still_publisher, end_of_file, reconnect
    <2>3. QED  BY <2>1, <2>2 DEF ThreadLeaves, TopicInv
  <1>10. CASE UNCHANGED topicVars  BY <1>10 DEF topicVars, TopicInv
  <1>11. QED
      BY <1>1, <1>2, <1>3, <1>4, <1>5, <1>6, <1>7, <1>8, <1>9, <1>10 DEF TopicNext, Node

\* A transport that is kept is in a list.
LEMMA TopicImplies == ASSUME TopicInv  PROVE OnePerPublisher
  <1>1. TopicTypeOK  BY DEF TopicInv, TopicTypeOK, Orderly, Sound
  <1>2. ASSUME NEW i \in DOMAIN attempts, attempts[i].pc = "end",
               attempts[i].inlist \/ attempts[i].st \notin {"none", "done"}
        PROVE  attempts[i].inlist
    BY <1>2 DEF TopicInv, Orderly, Sound
  <1>3. OneInList(attempts)  BY DEF TopicInv, Orderly
  <1>4. QED  BY <1>1, <1>2, <1>3 DEF OnePerPublisher, OneInList

(***************************************************************************)
(* A rospy node ends up with one transport for a publisher and a           *)
(* subscription, however many threads connect to it at once: _TopicImpl's  *)
(* add_connection drops what is in the list already.                       *)
(***************************************************************************)
THEOREM OneTransport == TopicSpec => []OnePerPublisher
  <1>1. TopicInv => OnePerPublisher  BY TopicImplies
  <1>2. QED  BY <1>1, TopicStarts, TopicStep, PTL DEF TopicSpec
=============================================================================
