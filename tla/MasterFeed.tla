----------------------------- MODULE MasterFeed -----------------------------
(***************************************************************************)
(* What the ROS master promises the subscribers of its topics, without     *)
(* the thread pool that keeps the promise.  Every subscriber process has a *)
(* feed of publisher lists: a change of a topic's publishers is appended   *)
(* to the feeds of the processes that subscribe to the topic at that       *)
(* moment, a feed is delivered from its head, and an entry whose delivery  *)
(* fails is gone.  RosMaster implements this module.                       *)
(***************************************************************************)
EXTENDS Naturals, Sequences

CONSTANTS Apis,    \* node processes, known by their XML-RPC URI
          Topics

VARIABLES pubs,    \* topic -> its publishers, in order of registration
          subs,    \* topic -> its subscribers
          feed,    \* process -> publisher lists on the way to it
          heard,   \* process, topic -> publishers it was told of
          missed   \* <<process, topic>> whose last update was lost

feedVars == <<pubs, subs, feed, heard, missed>>

Members(s) == {s[i] : i \in DOMAIN s}

Init ==
  /\ pubs = [t \in Topics |-> <<>>]
  /\ subs = [t \in Topics |-> {}]
  /\ feed = [a \in Apis |-> <<>>]
  /\ heard = [a \in Apis |-> [t \in Topics |-> {}]]
  /\ missed = {}

\* A step that changes the tables leaves lists of processes in them.
Tables == pubs' \in [Topics -> Seq(Apis)] /\ subs' \in [Topics -> SUBSET Apis]

(***************************************************************************)
(* A node name changes hands: registrations of the old process disappear   *)
(* from any number of topics, and nobody is told.                          *)
(***************************************************************************)
Fewer(newPubs, newSubs) ==
  \A t \in Topics : /\ Members(newPubs[t]) \subseteq Members(pubs[t])
                    /\ newSubs[t] \subseteq subs[t]

\* Every subscriber of t is sent the topic's new list.
Tell(t, list, to) ==
  feed' = [a \in Apis |-> IF a \in to THEN Append(feed[a], [topic |-> t, list |-> list])
                                      ELSE feed[a]]

\* The publishers of t change (others may be dropped in the same step).
Announce(t) ==
  /\ Tables
  /\ \A u \in Topics \ {t} : Members(pubs'[u]) \subseteq Members(pubs[u])
  /\ \A u \in Topics : subs'[u] \subseteq subs[u]
  /\ Tell(t, pubs'[t], subs'[t])
  /\ UNCHANGED <<heard, missed>>

\* The caller of registerSubscriber gets the current list as its answer.
Join(a, t) ==
  /\ Tables
  /\ \A u \in Topics : Members(pubs'[u]) \subseteq Members(pubs[u])
  /\ \A u \in Topics \ {t} : subs'[u] \subseteq subs[u]
  /\ a \in subs'[t] /\ subs'[t] \subseteq subs[t] \cup {a}
  /\ heard' = [heard EXCEPT ![a][t] = Members(pubs'[t])]
  /\ missed' = missed \ {<<a, t>>}
  /\ UNCHANGED feed

\* Registrations end and no list is announced.
Drop ==
  /\ Tables
  /\ Fewer(pubs', subs')
  /\ UNCHANGED <<feed, heard, missed>>

Deliver(a) ==
  /\ feed[a] # <<>>
  /\ LET u == Head(feed[a]) IN
       /\ heard' = [heard EXCEPT ![a][u.topic] = @ \cup Members(u.list)]
       /\ missed' = missed \ {<<a, u.topic>>}
  /\ feed' = [feed EXCEPT ![a] = Tail(@)]
  /\ UNCHANGED <<pubs, subs>>

Lose(a) ==
  /\ feed[a] # <<>>
  /\ missed' = missed \cup {<<a, Head(feed[a]).topic>>}
  /\ feed' = [feed EXCEPT ![a] = Tail(@)]
  /\ UNCHANGED <<pubs, subs, heard>>

Next ==
  \/ \E t \in Topics : Announce(t)
  \/ \E a \in Apis, t \in Topics : Join(a, t)
  \/ Drop
  \/ \E a \in Apis : Deliver(a) \/ Lose(a)

Spec == Init /\ [][Next]_feedVars

(***************************************************************************)
(* A subscriber with nothing on the way to it knows every publisher of the *)
(* topic, unless the last update it was sent did not arrive.               *)
(***************************************************************************)
NothingMissed ==
  \A a \in Apis, t \in Topics :
    /\ a \in subs[t]
    /\ <<a, t>> \notin missed
    /\ \A i \in DOMAIN feed[a] : feed[a][i].topic # t
    => Members(pubs[t]) \subseteq heard[a][t]
=============================================================================
