------------------------------ MODULE RosMaster ------------------------------
(***************************************************************************)
(* The ROS master (tools/rosmaster): the registration tables, the node     *)
(* references that count a node's registrations, the API handlers that     *)
(* change them under ps_lock, and the marked thread pool that carries the  *)
(* master's calls back to the nodes.                                       *)
(*                                                                         *)
(* A node process is known by the URI of its slave API; its caller_id is   *)
(* NameOf of it.  Two processes may have one name: the master keeps the    *)
(* one that registered last and shuts the other down.  The service_api of  *)
(* a process stands for the same process.                                  *)
(***************************************************************************)
EXTENDS Lists, FiniteSets, SequencesExt

CONSTANTS Apis,      \* node processes (slave API URIs)
          Names,     \* caller_ids
          NameOf,    \* the caller_id of each process
          Topics, Services, Params,
          Workers,   \* the threads of the pool (NUM_WORKERS of them)
          Hung,      \* processes whose API never answers a call
          MaxCalls,  \* bound: calls made to the master
          NoNode     \* nodes.get(caller_id) is None

ASSUME MasterAssumption ==
  /\ NameOf \in [Apis -> Names]
  /\ Hung \subseteq Apis
  /\ IsFiniteSet(Hung) /\ IsFiniteSet(Workers)
  /\ Cardinality(Hung) < Cardinality(Workers)
  /\ MaxCalls \in Nat

\* The four Registrations of the manager, one key each.
Pub(t) == <<"pub", t>>
Sub(t) == <<"sub", t>>
Reg == (({"pub", "sub"} \X Topics) \cup ({"srv"} \X Services))
          \cup ({"par"} \X Params)

NodeRef == [api : Apis, refs : SUBSET Reg]

ASSUME NoNodeAssumption == NoNode \notin NodeRef

VARIABLES
  providers,        \* Registrations.map: key -> the processes registered
  service_api_map,  \* service -> processes that hold its service_api (at most one)
  nodes,            \* caller_id -> NodeRef or NoNode
  tasks,            \* MarkedThreadPool.__tasks
  running,          \* worker -> the task it executes, <<>> for none
  mine,             \* process -> what it registered and did not unregister
  calls,            \* calls made so far
  heard, missed     \* what the subscribers were told (see MasterFeed)

regVars  == <<providers, service_api_map, nodes>>
poolVars == <<tasks, running>>
vars == <<regVars, poolVars, mine, calls, heard, missed>>

Task == [marker : Apis, task : {"publisherUpdate"}, topic : Topics, list : Seq(Apis)]
          \cup [marker : Apis, task : {"shutdown"}]

Init ==
  /\ providers = [k \in Reg |-> <<>>]
  /\ service_api_map = [s \in Services |-> {}]
  /\ nodes = [n \in Names |-> NoNode]
  /\ tasks = <<>>
  /\ running = [w \in Workers |-> <<>>]
  /\ mine = [a \in Apis |-> {}]
  /\ calls = 0
  /\ heard = [a \in Apis |-> [t \in Topics |-> {}]]
  /\ missed = {}

-----------------------------------------------------------------------------
(***************************************************************************)
(* The registration tables.                                                *)
(***************************************************************************)

\* Mutant of changed: the new URI is stored and nothing else.
never_changed(a) == FALSE

\* _register_node_api: another process already has the name
changed(a) == /\ nodes[NameOf[a]] # NoNode
              /\ nodes[NameOf[a]].api # a

\* _register_node_api and NodeRef.add: the process' reference is kept, or is
\* a new one.
register_node_api(a, k) ==
  nodes' = [nodes EXCEPT ![NameOf[a]] =
              [api |-> a,
               refs |-> {k} \cup (IF @ # NoNode /\ ~changed(a) THEN @.refs ELSE {})]]

\* The pool task queued for the process that loses its name.
bump_task(a) ==
  IF changed(a)
  THEN <<[marker |-> nodes[NameOf[a]].api, task |-> "shutdown"]>>
  ELSE <<>>

\* Registrations.unregister_all: drop every entry under the name
unregister_all(n) ==
  [k \in Reg |-> Filter(providers[k], {a \in Apis : NameOf[a] # n})]

\* Registrations.register: a service has one provider, the last one
add_provider(map, k, a) ==
  [map EXCEPT ![k] = IF k[1] = "srv" THEN <<a>>
                     ELSE IF a \in Held(@) THEN @ ELSE Append(@, a)]

\* RegistrationManager._register
register(a, k) ==
  /\ register_node_api(a, k)
  /\ providers' = add_provider(IF changed(a) THEN unregister_all(NameOf[a])
                                             ELSE providers, k, a)
  /\ service_api_map' =
       [s \in Services |->
          IF k = <<"srv", s>> THEN {a}
          ELSE IF changed(a) THEN {b \in service_api_map[s] : NameOf[b] # NameOf[a]}
          ELSE service_api_map[s]]

\* Mutant of is_provider: compares the caller_id only.
is_provider_by_name(a, k) ==
  IF k[1] = "srv" THEN service_api_map[k[2]] # {}
  ELSE \E b \in Held(providers[k]) : NameOf[b] = NameOf[a]

\* Registrations.unregister: does the caller hold this very registration?
is_provider(a, k) ==
  IF k[1] = "srv" THEN service_api_map[k[2]] = {a}
                  ELSE a \in Held(providers[k])

\* Registrations.unregister, the tables after a valid request
remove_provider(a, k) ==
  [providers EXCEPT ![k] = IF k[1] = "srv" THEN <<>>
                           ELSE Filter(@, Apis \ {a})]

\* RegistrationManager._unregister: the reference of the NAME is updated,
\* and dropped once it is empty; the value tells if anything was removed.
unregister(a, k) ==
  LET n == NameOf[a]
      val == nodes[n] # NoNode /\ is_provider(a, k)
      left == nodes[n].refs \ (IF val THEN {k} ELSE {})
  IN /\ providers' = IF val THEN remove_provider(a, k) ELSE providers
     /\ service_api_map' = IF val /\ k[1] = "srv"
                           THEN [service_api_map EXCEPT ![k[2]] = {}]
                           ELSE service_api_map
     /\ nodes' = IF nodes[n] = NoNode THEN nodes
                 ELSE [nodes EXCEPT ![n] = IF left = {} THEN NoNode
                                           ELSE [@ EXCEPT !.refs = left]]

-----------------------------------------------------------------------------
(***************************************************************************)
(* The API handlers.  Each runs under ps_lock from its first read to its   *)
(* last queue_task, so it is one step.  A node registers what it does not  *)
(* hold and unregisters what it holds; it does not learn that the master   *)
(* dropped it.                                                             *)
(***************************************************************************)

Call == calls < MaxCalls /\ calls' = calls + 1

\* Mutant of notify: the last subscriber is forgotten.
notify_short(t, list, to) ==
  [i \in 1..(Len(to) - 1) |-> [marker |-> to[i], task |-> "publisherUpdate",
                               topic |-> t, list |-> list]]

\* _notify: one task per subscriber, marked with the subscriber's URI
notify(t, list, to) ==
  [i \in DOMAIN to |-> [marker |-> to[i], task |-> "publisherUpdate",
                        topic |-> t, list |-> list]]

registerPublisher(a, t) ==
  /\ Call /\ Pub(t) \notin mine[a]
  /\ register(a, Pub(t))
  /\ tasks' = tasks \o bump_task(a)
                \o notify(t, providers'[Pub(t)], providers'[Sub(t)])
  /\ mine' = [mine EXCEPT ![a] = @ \cup {Pub(t)}]
  /\ UNCHANGED <<running, heard, missed>>

\* The answer carries the list of publishers.
registerSubscriber(a, t) ==
  /\ Call /\ Sub(t) \notin mine[a]
  /\ register(a, Sub(t))
  /\ tasks' = tasks \o bump_task(a)
  /\ mine' = [mine EXCEPT ![a] = @ \cup {Sub(t)}]
  /\ heard' = [heard EXCEPT ![a][t] = Held(providers'[Pub(t)])]
  /\ missed' = missed \ {<<a, t>>}
  /\ UNCHANGED running

\* registerService and subscribeParam tell nobody.
registerOther(a, k) ==
  /\ Call /\ k \notin mine[a]
  /\ register(a, k)
  /\ tasks' = tasks \o bump_task(a)
  /\ mine' = [mine EXCEPT ![a] = @ \cup {k}]
  /\ UNCHANGED <<running, heard, missed>>

registerService(a, s) == registerOther(a, <<"srv", s>>)
subscribeParam(a, p) == registerOther(a, <<"par", p>>)

unregisterPublisher(a, t) ==
  /\ Call /\ Pub(t) \in mine[a]
  /\ unregister(a, Pub(t))
  /\ tasks' = tasks \o (IF providers' # providers
                        THEN notify(t, providers'[Pub(t)], providers[Sub(t)])
                        ELSE <<>>)
  /\ mine' = [mine EXCEPT ![a] = @ \ {Pub(t)}]
  /\ UNCHANGED <<running, heard, missed>>

unregisterOther(a, k) ==
  /\ Call /\ k \in mine[a]
  /\ unregister(a, k)
  /\ mine' = [mine EXCEPT ![a] = @ \ {k}]
  /\ UNCHANGED <<poolVars, heard, missed>>

unregisterSubscriber(a, t) == unregisterOther(a, Sub(t))
unregisterService(a, s) == unregisterOther(a, <<"srv", s>>)
unsubscribeParam(a, p) == unregisterOther(a, <<"par", p>>)

-----------------------------------------------------------------------------
(***************************************************************************)
(* The marked thread pool.                                                 *)
(***************************************************************************)

\* MarkedThreadPool.__markers
markers == {running[w].marker : w \in {v \in Workers : running[v] # <<>>}}

\* Mutant of eligible: a thread takes the oldest task, whatever is running.
any_task == DOMAIN tasks

\* Tasks a thread may take: those whose marker is not being executed
eligible == {i \in DOMAIN tasks : tasks[i].marker \notin markers}

\* ThreadPoolThread.run with get_next_task: the first eligible one
get_next_task(w) ==
  /\ running[w] = <<>>
  /\ eligible # {}
  /\ LET i == CHOOSE j \in eligible : \A k \in eligible : j <= k IN
       /\ running' = [running EXCEPT ![w] = tasks[i]]
       /\ tasks' = RemoveAt(tasks, i)
  /\ UNCHANGED <<regVars, mine, calls, heard, missed>>

\* The task's call returns and remove_marker frees the marker: a publisher
\* list arrived, or a shutdown was carried out (or failed, which is ignored).
finish_task(w) ==
  /\ running[w] # <<>>
  /\ running[w].marker \notin Hung
  /\ running' = [running EXCEPT ![w] = <<>>]
  /\ IF running[w].task = "publisherUpdate"
     THEN LET a == running[w].marker  t == running[w].topic IN
            /\ heard' = [heard EXCEPT ![a][t] = @ \cup Held(running[w].list)]
            /\ missed' = missed \ {<<a, t>>}
     ELSE UNCHANGED <<heard, missed>>
  /\ UNCHANGED <<regVars, tasks, mine, calls>>

\* The call raises: run() logs the error, and the update is not repeated.
fail_task(w) ==
  /\ running[w] # <<>>
  /\ running[w].marker \notin Hung
  /\ running[w].task = "publisherUpdate"
  /\ running' = [running EXCEPT ![w] = <<>>]
  /\ missed' = missed \cup {<<running[w].marker, running[w].topic>>}
  /\ UNCHANGED <<regVars, tasks, mine, calls, heard>>

Request(a) ==
  \/ \E t \in Topics : \/ registerPublisher(a, t) \/ unregisterPublisher(a, t)
                       \/ registerSubscriber(a, t) \/ unregisterSubscriber(a, t)
  \/ \E s \in Services : registerService(a, s) \/ unregisterService(a, s)
  \/ \E p \in Params : subscribeParam(a, p) \/ unsubscribeParam(a, p)

Thread(w) == get_next_task(w) \/ finish_task(w) \/ fail_task(w)

Next ==
  \/ \E a \in Apis : Request(a)
  \/ \E w \in Workers : Thread(w)

\* The threads of the pool keep running; nothing makes a node call again.
Fairness == \A w \in Workers : WF_vars(Thread(w))

Spec == Init /\ [][Next]_vars /\ Fairness

-----------------------------------------------------------------------------
(***************************************************************************)
(* Properties.                                                             *)
(***************************************************************************)

\* Tables, references and tasks have their types: pool tasks are marked with the
\* URI of a node process, never with its name.
TypeOK ==
  /\ providers \in [Reg -> Seq(Apis)]
  /\ service_api_map \in [Services -> SUBSET Apis]
  /\ nodes \in [Names -> NodeRef \cup {NoNode}]
  /\ tasks \in Seq(Task)
  /\ running \in [Workers -> Task \cup {<<>>}]
  /\ mine \in [Apis -> SUBSET Reg]
  /\ calls \in 0..MaxCalls

(***************************************************************************)
(* The tables and the node references agree: every entry belongs to the    *)
(* process its name refers to, and the reference counts it; a topic or     *)
(* parameter that a reference counts is registered.  A service may be      *)
(* counted by a node that lost it to another one: only for that reason is  *)
(* a node still listed whose process took back all that it registered.     *)
(***************************************************************************)
RefsAgree ==
  /\ TypeOK
  /\ \A k \in Reg : \A a \in Held(providers[k]) :
       /\ nodes[NameOf[a]] # NoNode
       /\ nodes[NameOf[a]].api = a
       /\ k \in nodes[NameOf[a]].refs
  /\ \A n \in Names : nodes[n] # NoNode =>
       \A k \in nodes[n].refs : \/ k[1] = "srv"
                                \/ nodes[n].api \in Held(providers[k])
  /\ \A n \in Names : nodes[n] # NoNode /\ mine[nodes[n].api] = {} =>
       /\ nodes[n].refs # {}
       /\ \A k \in nodes[n].refs : nodes[n].api \notin Held(providers[k])
  /\ \A s \in Services : service_api_map[s] = Held(providers[<<"srv", s>>])

(***************************************************************************)
(* A registration ends because its own process asked, because another      *)
(* process took its name, or (a service) because another process provides  *)
(* it now: a late unregister call of a process that lost its name does not *)
(* touch what its successor registered.                                    *)
(***************************************************************************)
OnlyOwnRegistrationsEnd ==
  [][\A k \in Reg : \A a \in Held(providers[k]) \ Held(providers'[k]) :
       \/ k \in mine[a] /\ k \notin mine'[a]
       \/ nodes'[NameOf[a]] # NoNode /\ nodes'[NameOf[a]].api # a
       \/ k[1] = "srv" /\ providers'[k] # <<>>]_vars

(***************************************************************************)
(* The master implements MasterFeed: through the pool's threads the        *)
(* publisher lists reach every subscriber in the order of the changes, none *)
(* skipped or overtaken.                                                   *)
(***************************************************************************)
UpdateOf(task) == [topic |-> task.topic, list |-> task.list]
IsUpdateFor(a, task) == task.marker = a /\ task.task = "publisherUpdate"

FeedOf(a) ==
  LET busy == {w \in Workers : running[w] # <<>> /\ IsUpdateFor(a, running[w])}
      queued == Filter(tasks, {k \in Task : IsUpdateFor(a, k)})
      head == IF busy = {} THEN <<>>
              ELSE <<UpdateOf(running[CHOOSE w \in busy : TRUE])>>
  IN head \o [i \in DOMAIN queued |-> UpdateOf(queued[i])]

pubs == [t \in Topics |-> providers[Pub(t)]]
subs == [t \in Topics |-> Held(providers[Sub(t)])]
feed == [a \in Apis |-> FeedOf(a)]

Feed == INSTANCE MasterFeed WITH pubs <- pubs, subs <- subs, feed <- feed

\* Every step of the tables and of the pool is a step of MasterFeed, or none.
ImplementsFeed == Feed!Spec

(***************************************************************************)
(* A subscriber with no update pending was told of every publisher of its  *)
(* topics, unless the last call to it failed.                              *)
(***************************************************************************)
NothingMissed == Feed!NothingMissed

Waiting(a) == \/ \E i \in DOMAIN tasks : tasks[i].marker = a
              \/ a \in markers

(***************************************************************************)
(* As long as fewer processes hang than the pool has threads, every task   *)
(* for a process that answers is taken and carried out.                    *)
(***************************************************************************)
PoolServes == \A a \in Apis \ Hung : Waiting(a) ~> ~Waiting(a)
=============================================================================
