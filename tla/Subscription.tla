---------------------------- MODULE Subscription ----------------------------
(***************************************************************************)
(* One subscription of a ROS node: the bounded SubscriptionQueue, the      *)
(* entries it has in the node's CallbackQueue, the spinner threads that    *)
(* take them (MultiThreadedSpinner), the network thread that delivers      *)
(* messages, and the removal of the subscription by a user thread or by    *)
(* the callback itself.                                                    *)
(*                                                                         *)
(* ROSCH changes call(): the callback of a scheduled topic runs on an      *)
(* application thread while call() keeps its locks.  Messages are numbered *)
(* in the order of arrival.  What call() does with the deadline is in      *)
(* module SchedNode.                                                       *)
(***************************************************************************)
EXTENDS Integers, Sequences, FiniteSets

CONSTANTS
    None,             \* no thread
    Callers,          \* spinner threads
    User,             \* a thread that may unsubscribe
    AppOf(_),         \* the application thread that serves a spinner thread
    QueueSize,        \* size_, 0: unlimited
    AllowConcurrent,  \* values of allow_concurrent_callbacks_
    Scheduled,        \* how callbacks may run: TRUE on an application thread
    Removers,         \* who may unsubscribe: "user", "callback"
    MaxMsg            \* bound: messages delivered by the network

ASSUME SubscriptionAssumption ==
    /\ QueueSize \in Nat /\ MaxMsg \in Nat
    /\ AllowConcurrent \subseteq BOOLEAN
    /\ Scheduled \subseteq BOOLEAN
    /\ Removers \subseteq {"user", "callback"}
    /\ None \notin Callers \cup {User} \cup {AppOf(c) : c \in Callers}
    /\ IsFiniteSet(Callers) /\ User \notin Callers

VARIABLES
    queue, queue_size,  \* SubscriptionQueue::queue_, queue_size_
    mutex,              \* owner of callback_mutex_ (recursive), or None
    concurrent,         \* allow_concurrent_callbacks_
    tracked,            \* the tracked object of the subscription is alive
    subscribed,         \* Subscription::callbacks_ holds the subscription
    entries,            \* its entries in CallbackQueue::callbacks_
    registered,         \* CallbackQueue::id_info_ holds its removal id
    readers,            \* threads holding calling_rw_mutex shared
    next, npc,          \* the network thread: next message, handleMessage
    cpc, item, on_app,  \* the spinner threads in callOne / call
    remover, rpc,       \* the thread in removeCallback, and where
    last                \* history: the last message given to a callback

squeue  == <<queue, queue_size, mutex, concurrent, tracked>>
cqueue  == <<entries, registered, readers>>
network == <<next, npc>>
callers == <<cpc, item, on_app>>
removal == <<remover, rpc>>
vars    == <<squeue, subscribed, cqueue, network, callers, removal, last>>

CallPC   == {"idle", "taken", "lock_shared", "try_lock", "pop", "run", "done"}
NetPC    == {"idle", "add", "register"}
RemovePC == {"none", "erase", "clear", "remove", "erase_id", "done"}
Removing == rpc \notin {"none", "done"}

-----------------------------------------------------------------------------
(* The network thread in Subscription::handleMessage.                      *)

FullNoLock == QueueSize > 0 /\ queue_size >= QueueSize

DropNewest == IF FullNoLock THEN queue ELSE Append(queue, next)   \* faulty variant
PushedQueue == Append(IF FullNoLock THEN Tail(queue) ELSE queue, next)

\* push(): a full queue loses its oldest message and keeps its entries.
Push ==
    /\ npc = "idle" /\ subscribed /\ next <= MaxMsg
    /\ queue' = PushedQueue
    /\ queue_size' = IF FullNoLock THEN queue_size ELSE queue_size + 1
    /\ next' = next + 1
    /\ npc' = IF FullNoLock THEN "idle" ELSE "add"
    /\ UNCHANGED <<mutex, concurrent, tracked, subscribed, cqueue, callers, removal, last>>

\* CallbackQueue::addCallback inserts the entry, then the removal id, under
\* different mutexes.
AddCallback ==
    /\ npc = "add"
    /\ entries' = entries + 1
    /\ npc' = "register"
    /\ UNCHANGED <<squeue, subscribed, registered, readers, next, callers, removal, last>>

AddIDInfo ==
    /\ npc = "register"
    /\ registered' = TRUE
    /\ npc' = "idle"
    /\ UNCHANGED <<squeue, subscribed, entries, readers, next, callers, removal, last>>

-----------------------------------------------------------------------------
(* A spinner thread in CallbackQueue::callOne and SubscriptionQueue::call. *)

CallerTo(c, pc) == cpc' = [cpc EXCEPT ![c] = pc]

HasEntry == entries > 0

CallOne(c) ==
    /\ cpc[c] = "idle"
    /\ HasEntry
    /\ entries' = entries - 1
    /\ CallerTo(c, "taken")
    /\ UNCHANGED <<squeue, subscribed, registered, readers, network, item, on_app,
                   removal, last>>

\* callOneCB: an entry without removal id is dropped.
GetIDInfo(c) ==
    /\ cpc[c] = "taken"
    /\ CallerTo(c, IF registered THEN "lock_shared" ELSE "idle")
    /\ UNCHANGED <<squeue, subscribed, cqueue, network, item, on_app, removal, last>>

\* A waiting exclusive lock holds back new shared ones.
LockShared(c) ==
    /\ cpc[c] = "lock_shared" /\ rpc # "remove"
    /\ readers' = readers \cup {c}
    /\ CallerTo(c, "try_lock")
    /\ UNCHANGED <<squeue, subscribed, entries, registered, network, item, on_app,
                   removal, last>>

MayCall(c) == concurrent \/ mutex \in {None, c}

TryLock(c) ==
    /\ cpc[c] = "try_lock"
    /\ MayCall(c)
    /\ mutex' = IF concurrent THEN mutex ELSE c
    /\ CallerTo(c, "pop")
    /\ UNCHANGED <<queue, queue_size, concurrent, tracked, subscribed, cqueue, network, item,
                   on_app, removal, last>>

EntryForgotten == entries   \* faulty variant
EntryBack == entries + 1

\* TryAgain: callOneCB puts the entry back.
TryAgain(c) ==
    /\ cpc[c] = "try_lock" /\ ~MayCall(c)
    /\ entries' = EntryBack
    /\ readers' = readers \ {c}
    /\ CallerTo(c, "idle")
    /\ UNCHANGED <<squeue, subscribed, registered, network, item, on_app, removal, last>>

\* faulty variant: an early return keeps callback_mutex_
UnlockForgotten(c) ==
    /\ mutex' = mutex
    /\ readers' = readers \ {c}
    /\ CallerTo(c, "idle")

Unlock(c) ==
    /\ mutex' = IF concurrent THEN mutex ELSE None
    /\ readers' = readers \ {c}
    /\ CallerTo(c, "idle")

\* Invalid: no message, or the tracked object is gone; nothing is popped.
CallInvalid(c) ==
    /\ cpc[c] = "pop"
    /\ queue = <<>> \/ ~tracked
    /\ Unlock(c)
    /\ UNCHANGED <<queue, queue_size, concurrent, tracked, subscribed, entries, registered, network,
                   item, on_app, removal, last>>

\* The front message goes to the callback, on a thread chosen by
\* removeRemainSubTopic; a message that cannot be deserialized goes nowhere.
Call(c) ==
    /\ cpc[c] = "pop"
    /\ queue # <<>> /\ tracked
    /\ queue' = Tail(queue)
    /\ queue_size' = queue_size - 1
    /\ item' = [item EXCEPT ![c] = Head(queue)]
    /\ last' = Head(queue)
    /\ \/ \E app \in Scheduled : CallerTo(c, "run") /\ on_app' = [on_app EXCEPT ![c] = app]
       \/ CallerTo(c, "done") /\ UNCHANGED on_app
    /\ UNCHANGED <<mutex, concurrent, tracked, subscribed, cqueue, network, removal>>

\* The callback returns; under ROSCH the application thread has signalled.
Thread(c) == IF on_app[c] THEN AppOf(c) ELSE c

CallbackReturn(c) ==
    /\ cpc[c] = "run" /\ ~(Removing /\ remover = Thread(c))
    /\ CallerTo(c, "done")
    /\ on_app' = [on_app EXCEPT ![c] = FALSE]
    /\ UNCHANGED <<squeue, subscribed, cqueue, network, item, removal, last>>

CallReturn(c) ==
    /\ cpc[c] = "done"
    /\ Unlock(c)
    /\ item' = [item EXCEPT ![c] = 0]
    /\ UNCHANGED <<queue, queue_size, concurrent, tracked, subscribed, entries, registered, network,
                   on_app, removal, last>>

-----------------------------------------------------------------------------
(* Subscription::removeCallback, by a user thread or inside a callback.    *)

RemoveStart(th) ==
    /\ rpc = "none"
    /\ \/ "user" \in Removers /\ th = User
       \/ /\ "callback" \in Removers
          /\ \E c \in Callers : cpc[c] = "run" /\ th = Thread(c)
    /\ rpc' = "erase"
    /\ remover' = th
    /\ UNCHANGED <<squeue, subscribed, cqueue, network, callers, last>>

\* callbacks_mutex_ is held by handleMessage from push to the removal id.
RemoveErase ==
    /\ rpc = "erase" /\ npc = "idle"
    /\ subscribed' = FALSE
    /\ rpc' = "clear"
    /\ UNCHANGED <<squeue, cqueue, network, callers, remover, last>>

MayClear == mutex \in {None, remover}

SizeAfterClear == 0

\* SubscriptionQueue::clear waits for callback_mutex_, which is recursive.
Clear ==
    /\ rpc = "clear"
    /\ MayClear
    /\ queue' = <<>>
    /\ queue_size' = SizeAfterClear
    /\ rpc' = "remove"
    /\ UNCHANGED <<mutex, concurrent, tracked, subscribed, cqueue, network, callers, remover, last>>

NoExclusiveLock == TRUE   \* faulty variant
ExclusiveLock == registered => readers \subseteq {remover}

\* CallbackQueue::removeByID takes calling_rw_mutex exclusively; a thread that
\* is inside callOneCB itself gives up its shared lock first.
RemoveByID ==
    /\ rpc = "remove"
    /\ ExclusiveLock
    /\ entries' = IF registered THEN 0 ELSE entries
    /\ rpc' = IF registered THEN "erase_id" ELSE "done"
    /\ UNCHANGED <<squeue, subscribed, registered, readers, network, callers, remover, last>>

EraseIDInfo ==
    /\ rpc = "erase_id"
    /\ registered' = FALSE
    /\ rpc' = "done"
    /\ UNCHANGED <<squeue, subscribed, entries, readers, network, callers, remover, last>>

\* The object the subscription tracks is destroyed.
Expire ==
    /\ tracked
    /\ tracked' = FALSE
    /\ UNCHANGED <<queue, queue_size, mutex, concurrent, subscribed, cqueue, network, callers,
                   removal, last>>

-----------------------------------------------------------------------------
Init ==
    /\ queue = <<>> /\ queue_size = 0
    /\ mutex = None
    /\ concurrent \in AllowConcurrent
    /\ tracked = TRUE
    /\ subscribed = TRUE
    /\ entries = 0
    /\ registered = FALSE
    /\ readers = {}
    /\ next = 1 /\ npc = "idle"
    /\ cpc = [c \in Callers |-> "idle"]
    /\ item = [c \in Callers |-> 0]
    /\ on_app = [c \in Callers |-> FALSE]
    /\ remover = None /\ rpc = "none"
    /\ last = 0

Network == AddCallback \/ AddIDInfo

Spin(c) ==
    \/ CallOne(c) \/ GetIDInfo(c) \/ LockShared(c) \/ TryLock(c) \/ TryAgain(c)
    \/ CallInvalid(c) \/ Call(c) \/ CallbackReturn(c) \/ CallReturn(c)

Remove == RemoveErase \/ Clear \/ RemoveByID \/ EraseIDInfo

Next ==
    \/ Push \/ Network
    \/ \E c \in Callers : Spin(c)
    \/ \E th \in Callers \cup {AppOf(c) : c \in Callers} \cup {User} : RemoveStart(th)
    \/ Remove
    \/ Expire

Spec == Init /\ [][Next]_vars

\* Every thread runs; a mutex is granted to a thread that keeps waiting for it.
Fairness ==
    /\ WF_vars(Network)
    /\ \A c \in Callers : WF_vars(Spin(c))
    /\ SF_vars(Remove)

FairSpec == Spec /\ Fairness

-----------------------------------------------------------------------------
(* Properties.                                                             *)

\* Every variable has its type.
TypeOK ==
    /\ queue \in Seq(1..MaxMsg) /\ queue_size \in Nat
    /\ mutex \in Callers \cup {None}
    /\ concurrent \in BOOLEAN /\ tracked \in BOOLEAN /\ subscribed \in BOOLEAN /\ registered \in BOOLEAN
    /\ entries \in Nat
    /\ readers \subseteq Callers
    /\ next \in 1..MaxMsg + 1 /\ npc \in NetPC
    /\ cpc \in [Callers -> CallPC]
    /\ item \in [Callers -> 0..MaxMsg]
    /\ on_app \in [Callers -> BOOLEAN]
    /\ remover \in Callers \cup {AppOf(c) : c \in Callers} \cup {User, None}
    /\ rpc \in RemovePC
    /\ last \in 0..MaxMsg

\* The queue holds the newest messages without a gap, all of them newer than any
\* message a callback was given: an overflow costs only the oldest one, and no
\* message is delivered twice or out of order.  queue_size_ is the length of
\* queue_ whatever push, call and clear do to them.
NewestInOrder ==
    /\ TypeOK
    /\ queue_size = Len(queue)
    /\ QueueSize > 0 => Len(queue) <= QueueSize
    /\ \A i \in 1..Len(queue) : queue[i] = next - 1 - Len(queue) + i
    /\ queue # <<>> => last < queue[1]

\* Once a user thread's removeCallback has returned, no callback of the
\* subscription runs, with or without allow_concurrent_callbacks_.
QuietAfterRemoval ==
    rpc = "done" /\ remover = User => \A c \in Callers : cpc[c] # "run"

\* The entry of a spinner that has not reached the queue yet.
Serving == {c \in Callers : cpc[c] \in {"taken", "lock_shared", "try_lock", "pop"}}

\* At most one message waits without an entry that will make some spinner call
\* the queue (the one whose entry was taken before its removal id existed),
\* however overflows, TryAgain and concurrent calls interleave.
EntriesCover ==
    subscribed /\ tracked =>
        Len(queue) <= entries + Cardinality(Serving) + (IF npc = "add" THEN 1 ELSE 0) + 1

\* removeCallback completes when a user thread or an inline callback calls it,
\* although callbacks hold the mutex and the shared lock it needs: clear() uses
\* a recursive mutex and removeByID gives up the lock of its own thread.
RemovalCompletes ==
    (rpc = "erase" /\ \A c \in Callers : remover # AppOf(c)) ~> (rpc = "done")

\* removeCallback always completes.  A callback may remove its own subscription: call()
\* keeps a reference to itself for that case (subscription_queue.cpp, lines
\* 122-125) and the test clearInCallback clears the queue inside a callback.
RemovalInCallbackCompletes == (rpc = "erase") ~> (rpc = "done")
=============================================================================
