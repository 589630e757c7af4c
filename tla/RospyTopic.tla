----------------------------- MODULE RospyTopic -----------------------------
(***************************************************************************)
(* How a rospy node keeps one topic subscription connected: the topic      *)
(* manager creates and closes the _SubscriberImpl, the registration        *)
(* manager turns publisher lists into connect threads, each thread asks    *)
(* the publisher for the topic and creates a TCPROS transport, and every   *)
(* transport has a thread that connects, receives and reconnects.          *)
(*                                                                         *)
(* The other side is a set of publisher nodes that advertise, unadvertise  *)
(* and die, and the master, which tells the subscriber of every change in  *)
(* order, as MasterFeed promises.                                          *)
(***************************************************************************)
EXTENDS Integers, FiniteSets, SequencesExt

CONSTANTS Pubs,         \* publisher nodes (URIs)
          MaxAdvertise, \* bound: advertisements of each publisher
          MaxSubscribe, \* bound: subscriptions the user makes
          MayDie,       \* publishers that may crash
          MaxThreads,   \* bound: connect threads for one publisher at any time
          None

ASSUME TopicAssumption ==
  /\ MaxAdvertise \in Nat /\ MaxSubscribe \in Nat /\ MaxThreads \in Nat
  /\ MayDie \subseteq Pubs
  /\ IsFiniteSet(Pubs)

VARIABLES
  up,          \* publishers whose process runs
  advertised,  \* publishers with the topic in their topic manager
  ads,         \* publisher -> advertisements made
  listed,      \* the master's publisher list
  subscribed,  \* the master lists the node as a subscriber
  inbox,       \* publisherUpdate calls on their way to the node
  answer,      \* the answer of registerSubscriber on its way, or None
  user,        \* the user thread: idle, calling, subscribed, closing, leaving
  impl,        \* the latest _SubscriberImpl, 0 before the first
  known,       \* the topic manager's subs has the topic
  updates,     \* RegManager.updates
  attempts,    \* connect threads and their transports, by publisher and number
  passed_over  \* publishers named by a discarded update and not by the one kept

pubVars  == <<up, advertised, ads>>
masterVars == <<listed, subscribed, inbox, answer>>
userVars == <<user, impl, known>>
topicVars == <<pubVars, masterVars, userVars, updates, attempts, passed_over>>

(***************************************************************************)
(* An attempt: pc is the connect thread, st the transport it created.      *)
(* inlist: the transport is in the connections of _SubscriberImpl number   *)
(* impl.  An attempt is forgotten when its thread has ended and its        *)
(* transport is done and in no list.                                       *)
(***************************************************************************)
Attempt == [uri : Pubs, pc : {"look", "request", "create", "add", "end"},
            st : {"none", "connecting", "check", "open", "broken", "retry", "done"},
            impl : Nat, inlist : BOOLEAN]

Finished(x) == x.pc = "end" /\ x.st \in {"none", "done"} /\ ~x.inlist
Reap(f) == [i \in {j \in DOMAIN f : ~Finished(f[j])} |-> f[i]]

\* TCPROSTransport.close: nothing on a transport that is done; the cleanup
\* callback removes it from the list it was added to.
close(x) == IF x.st = "done" THEN x ELSE [x EXCEPT !.st = "done", !.inlist = FALSE]

TopicInit ==
  /\ up = Pubs /\ advertised = {} /\ ads = [p \in Pubs |-> 0]
  /\ listed = {} /\ subscribed = FALSE /\ inbox = <<>> /\ answer = None
  /\ user = "idle" /\ impl = 0 /\ known = FALSE
  /\ updates = <<>> /\ attempts = <<>> /\ passed_over = {}

-----------------------------------------------------------------------------
(***************************************************************************)
(* Publishers and master.                                                  *)
(***************************************************************************)

\* Connections a publisher closes: the receive loop will read end of file.
hangup(p) ==
  [i \in DOMAIN attempts |->
     IF attempts[i].uri = p /\ attempts[i].st = "open"
     THEN [attempts[i] EXCEPT !.st = "broken"] ELSE attempts[i]]

\* registerPublisher and unregisterPublisher in the master
announce(list) ==
  /\ listed' = list
  /\ inbox' = IF subscribed THEN Append(inbox, list) ELSE inbox
  /\ UNCHANGED <<subscribed, answer>>

\* _TopicManager._add of a publication: in the map first, then at the master
advertise(p) ==
  /\ p \in up \ advertised /\ p \notin listed
  /\ ads[p] < MaxAdvertise
  /\ advertised' = advertised \cup {p}
  /\ ads' = [ads EXCEPT ![p] = @ + 1]
  /\ UNCHANGED <<up, masterVars, userVars, updates, attempts, passed_over>>

reg_publisher(p) ==
  /\ p \in advertised \ listed
  /\ announce(listed \cup {p})
  /\ UNCHANGED <<pubVars, userVars, updates, attempts, passed_over>>

\* release_impl of a publication: its connections are closed, then the
\* master is told
unadvertise(p) ==
  /\ p \in up \cap advertised \cap listed
  /\ advertised' = advertised \ {p}
  /\ attempts' = hangup(p)
  /\ UNCHANGED <<up, ads, masterVars, userVars, updates, passed_over>>

unreg_publisher(p) ==
  /\ p \in (up \cap listed) \ advertised
  /\ announce(listed \ {p})
  /\ UNCHANGED <<pubVars, userVars, updates, attempts, passed_over>>

\* A crash: the master goes on listing the publisher.
die(p) ==
  /\ p \in up \cap MayDie
  /\ up' = up \ {p} /\ advertised' = advertised \ {p}
  /\ attempts' = hangup(p)
  /\ UNCHANGED <<ads, masterVars, userVars, updates, passed_over>>

-----------------------------------------------------------------------------
(***************************************************************************)
(* The user subscribes and unsubscribes.                                   *)
(***************************************************************************)

\* acquire_impl and _add: the impl is in the map while reg_added calls the
\* master
subscribe ==
  /\ user = "idle" /\ impl < MaxSubscribe
  /\ impl' = impl + 1 /\ known' = TRUE /\ user' = "calling"
  /\ passed_over' = {}
  /\ UNCHANGED <<pubVars, masterVars, updates, attempts>>

\* registerSubscriber in the master: the answer is the current list
reg_subscriber ==
  /\ user = "calling" /\ ~subscribed
  /\ subscribed' = TRUE /\ answer' = listed
  /\ UNCHANGED <<pubVars, listed, inbox, userVars, updates, attempts, passed_over>>

\* reg_added hands the answer to publisher_update.
reg_added ==
  /\ user = "calling" /\ answer # None
  /\ updates' = Append(updates, answer)
  /\ answer' = None /\ user' = "subscribed"
  /\ UNCHANGED <<pubVars, listed, subscribed, inbox, impl, known, attempts, passed_over>>

\* release_impl: _TopicImpl.close closes and forgets the connections ...
close_impl ==
  /\ user = "subscribed"
  /\ user' = "closing"
  /\ attempts' = Reap([i \in DOMAIN attempts |->
                   IF attempts[i].inlist /\ attempts[i].impl = impl
                   THEN [close(attempts[i]) EXCEPT !.inlist = FALSE]
                   ELSE attempts[i]])
  /\ UNCHANGED <<pubVars, masterVars, impl, known, updates, passed_over>>

\* ... then _remove takes the impl out of the map ...
remove_impl ==
  /\ user = "closing"
  /\ known' = FALSE /\ user' = "leaving"
  /\ UNCHANGED <<pubVars, masterVars, impl, updates, attempts, passed_over>>

\* ... and reg_removed unregisters at the master.
reg_removed ==
  /\ user = "leaving"
  /\ subscribed' = FALSE /\ user' = "idle"
  /\ UNCHANGED <<pubVars, listed, inbox, answer, impl, known, updates, attempts,
                 passed_over>>

-----------------------------------------------------------------------------
(***************************************************************************)
(* Publisher lists become connect threads.                                 *)
(***************************************************************************)

\* ROSHandler.publisherUpdate: the list is appended once per publisher in it
publisherUpdate ==
  /\ inbox # <<>>
  /\ updates' = updates \o [i \in 1..Cardinality(Head(inbox)) |-> Head(inbox)]
  /\ inbox' = Tail(inbox)
  /\ UNCHANGED <<pubVars, listed, subscribed, answer, userVars, attempts, passed_over>>

\* Connect threads for a list, one for each publisher, under numbers that are free
Free(p) == {k \in 1..MaxThreads : <<p, k>> \notin DOMAIN attempts}
NewThreads(uris) == {<<p, CHOOSE k \in Free(p) : TRUE>> : p \in uris}

spawn(uris) ==
  [i \in DOMAIN attempts \cup NewThreads(uris) |->
     IF i \in DOMAIN attempts THEN attempts[i]
     ELSE [uri |-> i[1], pc |-> "look", st |-> "none", impl |-> 0, inlist |-> FALSE]]

\* RegManager.run: the last update is used and the older ones are dropped.
run ==
  /\ updates # <<>> /\ \A p \in Last(updates) : Free(p) # {}
  /\ updates' = <<>>
  /\ attempts' = spawn(Last(updates))
  /\ passed_over' =
       (passed_over \cup UNION {updates[i] : i \in DOMAIN updates}) \ Last(updates)
  /\ UNCHANGED <<pubVars, masterVars, userVars>>

-----------------------------------------------------------------------------
(***************************************************************************)
(* A connect thread: _connect_topic_thread.                                *)
(***************************************************************************)

\* Mutant of has_connection: connections of a closed impl count too.
has_any_connection(uri) ==
  \E i \in DOMAIN attempts : attempts[i].inlist /\ attempts[i].uri = uri

\* _TopicImpl.has_connection
has_connection(uri) ==
  \E i \in DOMAIN attempts : /\ attempts[i].inlist
                             /\ attempts[i].impl = impl
                             /\ attempts[i].uri = uri

Step(i, x) == attempts' = Reap([attempts EXCEPT ![i] = x])
ThreadLeaves == UNCHANGED <<pubVars, masterVars, userVars, updates, passed_over>>

\* _connect_topic: a subscription to connect, not connected to this URI yet
look(i) ==
  LET x == attempts[i] IN
  /\ x.pc = "look"
  /\ Step(i, [x EXCEPT !.pc = IF known /\ ~has_connection(x.uri)
                              THEN "request" ELSE "end"])
  /\ ThreadLeaves

\* requestTopic at the publisher, refused if it has no such publication and
\* given up after three tries if it does not answer
requestTopic(i) ==
  LET x == attempts[i] IN
  /\ x.pc = "request"
  /\ Step(i, [x EXCEPT !.pc = IF x.uri \in advertised THEN "create" ELSE "end"])
  /\ ThreadLeaves

\* create_transport: looks the impl up again and starts the transport's
\* thread; without an impl the thread dies of an AttributeError
create_transport(i) ==
  LET x == attempts[i] IN
  /\ x.pc = "create"
  /\ Step(i, IF known THEN [x EXCEPT !.pc = "add", !.st = "connecting", !.impl = impl]
                      ELSE [x EXCEPT !.pc = "end"])
  /\ ThreadLeaves

\* Mutant of drop_old: an earlier connection to the same publisher is kept.
keep_old(i) == {}

\* Connections to the same endpoint that add_connection drops
drop_old(i) ==
  {j \in DOMAIN attempts : /\ attempts[j].inlist
                           /\ attempts[j].impl = attempts[i].impl
                           /\ attempts[j].uri = attempts[i].uri}

\* _TopicImpl.add_connection: neither a closed impl nor a transport that is
\* done already is noticed
add_connection(i) ==
  /\ attempts[i].pc = "add"
  /\ attempts' = Reap([j \in DOMAIN attempts |->
       IF j = i THEN [attempts[i] EXCEPT !.pc = "end", !.inlist = TRUE]
       ELSE IF j \in drop_old(i) THEN [close(attempts[j]) EXCEPT !.inlist = FALSE]
       ELSE attempts[j]])
  /\ ThreadLeaves

-----------------------------------------------------------------------------
(***************************************************************************)
(* A transport's thread: robust_connect_subscriber and receive_loop.       *)
(***************************************************************************)

\* connect: the handshake succeeds; or the publisher refuses the topic; or
\* nobody listens, an unknown error that closes the transport
connect(i) ==
  LET x == attempts[i] IN
  /\ x.st = "connecting"
  /\ Step(i, IF x.uri \in advertised THEN [x EXCEPT !.st = "open"]
             ELSE IF x.uri \in up THEN [x EXCEPT !.st = "check"]
             ELSE close(x))
  /\ ThreadLeaves

\* check_if_still_publisher after a refused handshake: if not, the transport
\* is marked done (not closed); else receive_loop finds the socket dead
check_if_still_publisher(i) ==
  LET x == attempts[i] IN
  /\ x.st = "check"
  /\ Step(i, [x EXCEPT !.st = IF x.uri \in advertised THEN "broken" ELSE "done"])
  /\ ThreadLeaves

\* receive_loop: the publisher closed the connection, reconnect
end_of_file(i) ==
  /\ attempts[i].st = "broken"
  /\ Step(i, [attempts[i] EXCEPT !.st = "retry"])
  /\ ThreadLeaves

\* _reconnect: tries until the handshake succeeds or nobody listens
reconnect(i) ==
  LET x == attempts[i] IN
  /\ x.st = "retry"
  /\ x.uri \in advertised \/ x.uri \notin up
  /\ Step(i, IF x.uri \in advertised THEN [x EXCEPT !.st = "open"] ELSE close(x))
  /\ ThreadLeaves

ConnectThread(i) ==
  \/ look(i) \/ requestTopic(i) \/ create_transport(i) \/ add_connection(i)
  \/ connect(i) \/ check_if_still_publisher(i) \/ end_of_file(i) \/ reconnect(i)

Node == subscribe \/ reg_added \/ close_impl \/ remove_impl \/ publisherUpdate \/ run
Master == reg_subscriber \/ reg_removed
Publisher(p) == \/ advertise(p) \/ reg_publisher(p)
                \/ unadvertise(p) \/ unreg_publisher(p) \/ die(p)

TopicNext ==
  \/ \E p \in Pubs : Publisher(p)
  \/ Node \/ Master
  \/ \E i \in DOMAIN attempts : ConnectThread(i)

\* Calls are answered and threads run; nobody has to subscribe, advertise or
\* stop.
TopicFairness ==
  /\ WF_topicVars(reg_subscriber) /\ WF_topicVars(reg_added)
  /\ WF_topicVars(remove_impl) /\ WF_topicVars(reg_removed)
  /\ WF_topicVars(publisherUpdate) /\ WF_topicVars(run)
  /\ \A p \in Pubs : WF_topicVars(reg_publisher(p) \/ unreg_publisher(p))
  /\ \A i \in Pubs \X (1..MaxThreads) : WF_topicVars(i \in DOMAIN attempts /\ ConnectThread(i))

TopicSpec == TopicInit /\ [][TopicNext]_topicVars /\ TopicFairness

-----------------------------------------------------------------------------
(***************************************************************************)
(* Properties.                                                             *)
(***************************************************************************)

\* Every variable has its type, and a thread connects to the publisher it was
\* started for.
TopicTypeOK ==
  /\ up \subseteq Pubs /\ advertised \subseteq up /\ listed \subseteq Pubs
  /\ inbox \in Seq(SUBSET Pubs) /\ answer \in {None} \cup SUBSET Pubs
  /\ updates \in Seq(SUBSET Pubs)
  /\ user \in {"idle", "calling", "subscribed", "closing", "leaving"}
  /\ DOMAIN attempts \subseteq Pubs \X (1..MaxThreads)
  /\ \A i \in DOMAIN attempts : attempts[i] \in Attempt /\ attempts[i].uri = i[1]

(***************************************************************************)
(* However many threads connect to one publisher at once, a subscription   *)
(* is left with one transport for it: messages do not arrive twice.        *)
(***************************************************************************)
OnePerPublisher ==
  LET Kept(i) == /\ attempts[i].pc = "end"
                 /\ attempts[i].inlist \/ attempts[i].st \notin {"none", "done"}
  IN TopicTypeOK /\ \A i, j \in DOMAIN attempts :
       /\ i # j /\ Kept(i) /\ Kept(j)
       /\ attempts[i].impl = attempts[j].impl
       => attempts[i].uri # attempts[j].uri

\* The subscription receives from p.
Open(p) ==
  \E i \in DOMAIN attempts : /\ attempts[i].uri = p /\ attempts[i].impl = impl
                             /\ attempts[i].inlist /\ attempts[i].st = "open"

\* A transport that is done and still counts as a connection to p
Dead(p) ==
  \E i \in DOMAIN attempts : /\ attempts[i].uri = p /\ attempts[i].impl = impl
                             /\ attempts[i].inlist /\ attempts[i].st = "done"

\* The node wants p's messages and p offers them.
WantedFrom(p) == user = "subscribed" /\ p \in advertised \cap listed

(***************************************************************************)
(* A publisher that stays advertised is received from in the end, through  *)
(* every restart of subscription, publication and connection.  There are   *)
(* two exceptions: a transport that died before it was added, or was       *)
(* marked done, keeps the publisher's place in the list of connections;    *)
(* and an update that names the publisher was dropped for one that arrived *)
(* later and does not.                                                     *)
(***************************************************************************)
ConnectsUnlessMissed ==
  \A p \in Pubs :
    <>[]WantedFrom(p) => <>[](Open(p) \/ Dead(p) \/ p \in passed_over)
=============================================================================
