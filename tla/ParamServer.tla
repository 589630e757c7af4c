---------------------------- MODULE ParamServer ----------------------------
(***************************************************************************)
(* The parameter server of the ROS master (ParamDictionary) and the nodes  *)
(* that keep parameters of it in a cache (ros::param::getCached).          *)
(*                                                                         *)
(* A name is a sequence of namespaces, the root is <<>>.  A value is a     *)
(* tree: a function on a prefix-closed set of names that gives a scalar at *)
(* a leaf and Dict at a namespace; {} is the tree with Dict alone.         *)
(* Updates reach a node one at a time and in order (see RosMaster).        *)
(***************************************************************************)
EXTENDS Lists, FiniteSets, SequencesExt

CONSTANTS Clients,  \* nodes with a parameter cache
          Spaces,   \* the parts of a name
          Scalars,  \* values that are no dictionary
          Keys,     \* names that are set and deleted, not the root
          Reads,    \* node -> the keys it reads through the cache
          Setters,  \* nodes that set and delete parameters themselves
          MayLose,  \* nodes whose name another process may take
          Values,   \* trees that are stored
          Dict,     \* marks a namespace in a tree
          None,     \* no value: KeyError, an invalid XmlRpcValue
          MaxSets   \* bound: calls that change parameters

Tree(v) == /\ v \in [DOMAIN v -> Scalars \cup {Dict}]
           /\ DOMAIN v \subseteq Seq(Spaces)
           /\ <<>> \in DOMAIN v
           /\ \A p \in DOMAIN v : p # <<>> => /\ Front(p) \in DOMAIN v
                                             /\ v[Front(p)] = Dict

ASSUME ParamAssumption ==
  /\ Keys \subseteq Seq(Spaces) \ {<<>>} /\ IsFiniteSet(Keys)
  /\ Dict \notin Scalars /\ None \notin Clients
  /\ \A v \in Values : Tree(v)
  /\ Reads \in [Clients -> SUBSET Keys]
  /\ Setters \subseteq Clients /\ MayLose \subseteq Clients
  /\ MaxSets \in Nat

VARIABLES
  parameters,   \* ParamDictionary.parameters
  subscribers,  \* param_subscribers: key -> list of nodes
  holder,       \* the change whose subscribers are being told, under the lock
  tasks,        \* node -> paramUpdate calls the pool has for it
  registered,   \* nodes that hold their name at the master
  subscribed,   \* node -> g_subscribed_params
  cache,        \* node -> g_params
  thread,       \* node -> the parameter call its thread is in
  sets,         \* calls made so far
  astray        \* node -> keys whose last change the node was not told of

masterVars == <<parameters, subscribers, holder, registered>>
vars == <<masterVars, tasks, subscribed, cache, thread, sets, astray>>

Empty == [p \in {<<>>} |-> Dict]
Idle == [op |-> "idle"]
NoCall == [todo |-> <<>>, i |-> 1, by |-> None]

Init ==
  /\ parameters = Empty
  /\ subscribers = [k \in Keys |-> <<>>]
  /\ holder = NoCall
  /\ tasks = [c \in Clients |-> <<>>]
  /\ registered = Clients
  /\ subscribed = [c \in Clients |-> {}]
  /\ cache = [c \in Clients |-> <<>>]
  /\ thread = [c \in Clients |-> Idle]
  /\ sets = 0
  /\ astray = [c \in Clients |-> {}]

-----------------------------------------------------------------------------
(***************************************************************************)
(* The tree.                                                               *)
(***************************************************************************)

Below(p, key) == SubSeq(p, Len(key) + 1, Len(p))
Under(key, v) == {p \in DOMAIN v : IsPrefix(key, p)}

has_param(key) == key \in DOMAIN parameters

\* A part of a tree
at(v, key) == [q \in {Below(p, key) : p \in Under(key, v)} |-> v[key \o q]]

get_param(key) == IF has_param(key) THEN at(parameters, key) ELSE None

\* set_param: the namespaces above become dictionaries, whatever they were,
\* and everything below is replaced.
set_param(key, v) ==
  LET new == {key \o q : q \in DOMAIN v} IN
  [p \in (DOMAIN parameters \ Under(key, parameters)) \cup Prefixes(key) \cup new |->
     IF p \in new THEN v[Below(p, key)]
     ELSE IF IsStrictPrefix(p, key) THEN Dict ELSE parameters[p]]

delete_param(key) ==
  [p \in DOMAIN parameters \ Under(key, parameters) |-> parameters[p]]

\* Mutant of search_param: range(1, len(namespaces)) never gets to the root.
search_param_short(ns, key) ==
  LET up[i \in 0..Len(ns)] ==
        LET here == SubSeq(ns, 1, Len(ns) - i) IN
        IF has_param(Append(here, Head(key))) THEN here \o key
        ELSE IF i + 1 >= Len(ns) THEN None ELSE up[i + 1]
  IN up[0]

\* search_param of a relative key, from a namespace towards the root
search_param(ns, key) ==
  LET up[i \in 0..Len(ns)] ==
        LET here == SubSeq(ns, 1, Len(ns) - i) IN
        IF has_param(Append(here, Head(key))) THEN here \o key
        ELSE IF i = Len(ns) THEN None ELSE up[i + 1]
  IN up[0]

-----------------------------------------------------------------------------
(***************************************************************************)
(* Who is told of a change.                                                *)
(***************************************************************************)

IsDict(v) == v[<<>>] = Dict
Listening == {s \in Keys : subscribers[s] # <<>>}

\* _compute_all_keys: the names a new value holds
all_keys(key, v) == {key \o q : q \in DOMAIN v \ {<<>>}}

\* Mutant of deleted_keys: forgets the keys the new value does not hold.
no_deleted_keys(key, v) == {}

\* Keys below the changed one that the new value does not hold; a value
\* that is no dictionary has no all_keys, and nobody below is told.
deleted_keys(key, v) ==
  {s \in Listening : /\ IsDict(v) /\ IsStrictPrefix(key, s)
                     /\ s \notin all_keys(key, v)}

\* The first loop of compute_param_updates: subscriptions at or above the key
\* and deleted ones below it
loop_updates(key, v) ==
  {[sub |-> s, key |-> key, val |-> v] : s \in {r \in Listening : IsPrefix(r, key)}}
  \cup {[sub |-> s, key |-> s, val |-> Empty] : s \in deleted_keys(key, v)}

\* The exact matches within the new value
exact_updates(key, v) ==
  {[sub |-> s, key |-> s, val |-> at(v, Below(s, key))] :
     s \in Listening \cap all_keys(key, v)}

\* compute_param_updates: both, each in any order
compute_param_updates(key, v) ==
  {f \o g : f \in SetToSeqs(loop_updates(key, v)), g \in SetToSeqs(exact_updates(key, v))}

\* Subscriptions below a key that becomes a scalar
shadowed(c, key, v) ==
  {s \in Keys : /\ ~IsDict(v) /\ IsStrictPrefix(key, s)
                /\ \E i \in DOMAIN subscribers[s] : subscribers[s][i] = c}

\* set_param and delete_param: the change and its updates, under the lock,
\* which is kept until every update is queued.
Change(by, key, new, v) ==
  /\ holder.by = None
  /\ parameters' = new
  /\ \E u \in compute_param_updates(key, v) :
       holder' = [todo |-> u, i |-> 1, by |-> by]
  /\ astray' = [c \in Clients |-> astray[c] \cup shadowed(c, key, v)]
  /\ UNCHANGED <<subscribers, registered, tasks, subscribed, cache>>

setParam(by, key, v) == Change(by, key, set_param(key, v), v)

\* A KeyError for a parameter that is not set
deleteParam(by, key) ==
  \/ has_param(key) /\ Change(by, key, delete_param(key), Empty)
  \/ /\ ~has_param(key) /\ holder.by = None
     /\ UNCHANGED <<masterVars, tasks, subscribed, cache, astray>>

\* Mutant of may_queue: the loop calls the node, which may hold its mutex.
may_call(c) == thread[c].op \notin {"set", "subscribe"}

\* queue_task never waits for the node.
may_queue(c) == TRUE

\* _notify_param_subscribers: one turn of the loops over the updates and
\* over the list of subscribers, which is not a copy.
notify_param_subscribers ==
  LET u == Head(holder.todo)  list == subscribers[u.sub]  c == list[holder.i] IN
  /\ holder.by # None /\ holder.todo # <<>>
  /\ holder' = IF holder.i >= Len(list)
               THEN [holder EXCEPT !.todo = Tail(@), !.i = 1]
               ELSE [holder EXCEPT !.i = @ + 1]
  /\ IF holder.i > Len(list)
     THEN UNCHANGED <<tasks, astray>>
     ELSE /\ may_queue(c)
          /\ tasks' = [tasks EXCEPT ![c] = Append(@, [key |-> u.key, val |-> u.val])]
          /\ astray' = [astray EXCEPT ![c] = @ \ {u.sub}]
  /\ UNCHANGED <<parameters, subscribers, registered, subscribed, cache, thread, sets>>

\* The call returns and the lock is free.
release ==
  /\ holder.by # None /\ holder.todo = <<>>
  /\ holder' = NoCall
  /\ UNCHANGED <<parameters, subscribers, registered, tasks, subscribed, cache,
                 thread, sets, astray>>

\* _register of another process under the node's name takes it out of every
\* list (unregister_all), under ps_lock only: a loop over such a list goes on
\* with the next index.
unregister_all(c) ==
  LET removed(s) == Filter(s, Clients \ {c})
      list == subscribers[Head(holder.todo).sub]
      skips == /\ holder.by # None /\ holder.todo # <<>>
               /\ holder.i \in DOMAIN list
               /\ \E j \in 1..(holder.i - 1) : list[j] = c
  IN /\ c \in registered \cap MayLose
     /\ registered' = registered \ {c}
     /\ subscribers' = [k \in Keys |-> removed(subscribers[k])]
     /\ astray' = IF skips
                  THEN [astray EXCEPT ![list[holder.i]] = @ \cup {Head(holder.todo).sub}]
                  ELSE astray
     /\ UNCHANGED <<parameters, holder, tasks, subscribed, cache, thread, sets>>

-----------------------------------------------------------------------------
(***************************************************************************)
(* A node: ros::param.  Its thread makes one call at a time; g_params_mutex *)
(* is held during set and during the subscription.                         *)
(***************************************************************************)

Without(f, S) == [k \in DOMAIN f \ S |-> f[k]]
With(f, k, v) == [j \in DOMAIN f \cup {k} |-> IF j = k THEN v ELSE f[j]]

\* invalidateParentParams: cached namespaces above a name, not the root
parents(c, key) == {s \in subscribed[c] : IsStrictPrefix(s, key)}

\* Update the entry of a subscribed key and forget those above it
stored(c, key, v) ==
  Without(IF key \in subscribed[c] THEN With(cache[c], key, v) ELSE cache[c],
          parents(c, key))

Request == sets < MaxSets /\ sets' = sets + 1
NodeLeaves == UNCHANGED <<parameters, holder, registered, tasks>>
ThreadTo(c, t) == thread' = [thread EXCEPT ![c] = t]

\* getCached of a key that is not in the cache: subscribeParam at the first
\* time, which needs the dictionary's lock
getCached(c, key) ==
  /\ thread[c] = Idle /\ c \in registered
  /\ key \notin subscribed[c] \cap DOMAIN cache[c]
  /\ IF key \in subscribed[c]
     THEN ThreadTo(c, [op |-> "get", key |-> key]) /\ UNCHANGED subscribed
     ELSE /\ ThreadTo(c, [op |-> "subscribe", key |-> key])
          /\ subscribed' = [subscribed EXCEPT ![c] = @ \cup {key}]
  /\ NodeLeaves /\ UNCHANGED <<subscribers, cache, astray, sets>>

\* subscribe_param at the master; a node that lost its name is not served.
\* An update for this very key may be on its way already, for the sake of a
\* subscription above: it is older than the value the node will get.
subscribe_param(c) ==
  LET key == thread[c].key IN
  /\ thread[c].op = "subscribe" /\ holder.by = None
  /\ subscribers' = IF c \in registered /\ ~Contains(subscribers[key], c)
                    THEN [subscribers EXCEPT ![key] = Append(@, c)] ELSE subscribers
  /\ ThreadTo(c, [op |-> "get", key |-> key])
  /\ astray' = IF \E i \in DOMAIN tasks[c] : tasks[c][i].key = key
               THEN [astray EXCEPT ![c] = @ \cup {key}] ELSE astray
  /\ NodeLeaves /\ UNCHANGED <<subscribed, cache, sets>>

\* getParam at the master, without g_params_mutex
getParam(c) ==
  LET key == thread[c].key IN
  /\ thread[c].op = "get" /\ holder.by = None
  /\ ThreadTo(c, [op |-> "store", key |-> key, val |-> get_param(key), late |-> FALSE])
  /\ NodeLeaves /\ UNCHANGED <<subscribers, subscribed, cache, astray, sets>>

\* The answer goes into the cache, over an update that came in between.
store(c) ==
  LET t == thread[c] IN
  /\ t.op = "store"
  /\ cache' = [cache EXCEPT ![c] = With(@, t.key, t.val)]
  /\ astray' = IF t.late THEN [astray EXCEPT ![c] = @ \cup {t.key}] ELSE astray
  /\ ThreadTo(c, Idle)
  /\ NodeLeaves /\ UNCHANGED <<subscribers, subscribed, sets>>

\* set: the mutex is held over the call to the master
set(c, key, v) ==
  /\ thread[c] = Idle /\ c \in registered \cap Setters
  /\ Request
  /\ setParam(c, key, v)
  /\ ThreadTo(c, [op |-> "set", key |-> key, val |-> v])

set_returns(c) ==
  LET t == thread[c] IN
  /\ t.op = "set" /\ holder.by # c
  /\ cache' = [cache EXCEPT ![c] = stored(c, t.key, t.val)]
  /\ ThreadTo(c, Idle)
  /\ NodeLeaves /\ UNCHANGED <<subscribers, subscribed, astray, sets>>

\* del: the key is forgotten here first, then deleted at the master
del(c, key) ==
  /\ thread[c] = Idle /\ c \in registered \cap Setters
  /\ Request
  /\ subscribed' = [subscribed EXCEPT ![c] = @ \ {key}]
  /\ cache' = [cache EXCEPT ![c] = Without(@, {key})]
  /\ ThreadTo(c, [op |-> "del", key |-> key])
  /\ NodeLeaves /\ UNCHANGED <<subscribers, astray>>

deleteParam_call(c) ==
  /\ thread[c].op = "del"
  /\ deleteParam(c, thread[c].key)
  /\ ThreadTo(c, [op |-> "deleting"])
  /\ UNCHANGED sets

del_returns(c) ==
  /\ thread[c].op = "deleting" /\ holder.by # c
  /\ ThreadTo(c, Idle)
  /\ NodeLeaves /\ UNCHANGED <<subscribers, subscribed, cache, astray, sets>>

\* paramUpdate in the node, which waits for the mutex
update(c) ==
  LET u == Head(tasks[c])  t == thread[c] IN
  /\ tasks[c] # <<>>
  /\ t.op \notin {"set", "subscribe"}
  /\ cache' = [cache EXCEPT ![c] = stored(c, u.key, u.val)]
  /\ thread' = IF t.op = "store" /\ IsPrefix(t.key, u.key)
               THEN [thread EXCEPT ![c].late = TRUE] ELSE thread
  /\ tasks' = [tasks EXCEPT ![c] = Tail(@)]
  /\ UNCHANGED <<masterVars, subscribed, sets, astray>>

-----------------------------------------------------------------------------
Client(c) ==
  \/ \E key \in Reads[c] : getCached(c, key)
  \/ \E key \in Keys : del(c, key) \/ \E v \in Values : set(c, key, v)
  \/ unregister_all(c)

\* Steps of calls that are on their way
Progress(c) == \/ subscribe_param(c) \/ getParam(c) \/ store(c)
               \/ set_returns(c)
               \/ deleteParam_call(c) \/ del_returns(c)

Next ==
  \/ notify_param_subscribers \/ release
  \/ \E c \in Clients : Client(c) \/ Progress(c) \/ update(c)

\* The threads of the master and of the nodes run.
Fairness ==
  /\ WF_vars(notify_param_subscribers) /\ WF_vars(release)
  /\ \A c \in Clients : WF_vars(Progress(c)) /\ WF_vars(update(c))

Spec == Init /\ [][Next]_vars /\ Fairness

-----------------------------------------------------------------------------
(***************************************************************************)
(* Properties.                                                             *)
(***************************************************************************)

\* The dictionary stays a tree, every stored or queued value is one, and a
\* node that lost its name is in no list.
TypeOK ==
  /\ Tree(parameters) /\ IsDict(parameters)
  /\ \A k \in Keys : ToSet(subscribers[k]) \subseteq registered
  /\ \A c \in Clients :
       /\ subscribed[c] \subseteq Keys /\ DOMAIN cache[c] \subseteq Keys
       /\ \A k \in DOMAIN cache[c] : cache[c][k] = None \/ Tree(cache[c][k])
       /\ \A i \in DOMAIN tasks[c] : Tree(tasks[c][i].val)
  /\ sets \in 0..MaxSets

\* {} stands for a parameter that is not set.
Same(v, w) == v = w \/ {v, w} \subseteq {None, Empty}

(***************************************************************************)
(* getCached is as good as get: once its updates have arrived, what a node *)
(* has cached is what the master stores.  The keys in astray are excepted: *)
(* an update overwritten by an older answer (store), an update from before *)
(* the key's subscription that arrives after the answer (subscribe_param), *)
(* a namespace above replaced by a scalar (shadowed), a subscriber passed  *)
(* over because the list shrank during the loop (unregister_all).          *)
(***************************************************************************)
CacheCurrent ==
  TypeOK /\ \A c \in registered :
    holder.by = None /\ tasks[c] = <<>> /\ thread[c] = Idle =>
      \A k \in (subscribed[c] \cap DOMAIN cache[c]) \ astray[c] :
        Same(cache[c][k], get_param(k))

(***************************************************************************)
(* search_param finds the key in the nearest namespace, the root included. *)
(***************************************************************************)
SearchFindsNearest ==
  \A ns, key \in Keys :
    LET hits == {p \in Prefixes(ns) : has_param(Append(p, Head(key)))} IN
    IF hits = {} THEN search_param(ns, key) = None
    ELSE \E p \in hits : /\ search_param(ns, key) = p \o key
                         /\ \A q \in hits : IsPrefix(q, p)

(***************************************************************************)
(* A node calls the master with its cache locked and the master calls it   *)
(* back: every call returns nevertheless.                                  *)
(***************************************************************************)
CallsReturn ==
  \A c \in Clients : thread[c] # Idle ~> thread[c] = Idle
=============================================================================
