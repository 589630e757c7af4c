------------------------- MODULE SubscriptionProofs -------------------------
(***************************************************************************)
(* Proofs of the safety properties of Subscription, for any number of      *)
(* spinner threads, any queue size and any number of messages.             *)
(***************************************************************************)
EXTENDS Subscription, SequenceTheorems, FiniteSetTheorems, TLAPS

-----------------------------------------------------------------------------
(* The inductive invariant, by concern.                                    *)

\* No callback was given a message that has not arrived.
LastInv == last < next

\* A spinner has the shared lock from lock_shared to the end of call(), and got
\* there with a removal id, which only a removal takes away.
ReaderInv ==
    \A c \in Callers :
        /\ cpc[c] \in {"try_lock", "pop", "run", "done"} <=> c \in readers
        /\ cpc[c] \in {"lock_shared", "try_lock", "pop", "run", "done"} =>
              registered \/ rpc = "done"

\* A subscription that was erased gets no messages, and once its queue has been
\* cleared nothing is left to be called.
RemovalInv ==
    /\ rpc \in {"clear", "remove", "erase_id", "done"} => ~subscribed
    /\ ~subscribed => npc = "idle"
    /\ rpc \in {"remove", "erase_id", "done"} => queue = <<>>
    /\ rpc \in {"erase_id", "done"} /\ remover = User =>
          \A c \in Callers : cpc[c] # "run"

\* Until the removal id exists there is at most the first message.
FirstInv ==
    subscribed /\ ~registered =>
        Len(queue) <= 1 /\ (npc = "idle" => queue = <<>>)

IInv == NewestInOrder /\ LastInv /\ ReaderInv /\ RemovalInv /\ FirstInv /\ EntriesCover

-----------------------------------------------------------------------------
(* NewestInOrder.                                                          *)

\* Every step of every thread keeps the types.
LEMMA TypeStep ==
    ASSUME NewestInOrder, [Next]_vars
    PROVE  TypeOK'
  <1>a. /\ QueueSize \in Nat /\ MaxMsg \in Nat /\ Scheduled \subseteq BOOLEAN
    BY SubscriptionAssumption
  <1> USE <1>a DEF TypeOK, CallPC, NetPC, RemovePC, squeue, cqueue,
          network, callers, removal, vars, CallerTo
  <1>0. TypeOK  BY DEF NewestInOrder
  <1> USE <1>0
  <1>1. CASE Push
    <2>1. next \in 1..MaxMsg  BY <1>1 DEF Push
    <2>2. (IF FullNoLock THEN Tail(queue) ELSE queue) \in Seq(1..MaxMsg)
      <3>1. FullNoLock => queue # <<>>  BY DEF FullNoLock, NewestInOrder
      <3>2. QED  BY <3>1, HeadTailProperties
    <2>3. queue' \in Seq(1..MaxMsg)
      BY <1>1, <2>1, <2>2 DEF Push, PushedQueue
    <2>4. QED  BY <1>1, <2>1, <2>3 DEF Push
  <1>2. CASE AddCallback  BY <1>2 DEF AddCallback
  <1>2a. CASE AddIDInfo  BY <1>2a DEF AddIDInfo
  <1>3. ASSUME NEW c \in Callers, Spin(c)  PROVE TypeOK'
    <2>1. CASE CallOne(c)    BY <2>1 DEF CallOne, HasEntry
    <2>2. CASE GetIDInfo(c)  BY <2>2 DEF GetIDInfo
    <2>3. CASE LockShared(c) BY <2>3 DEF LockShared
    <2>4. CASE TryLock(c)    BY <2>4 DEF TryLock
    <2>5. CASE TryAgain(c)   BY <2>5 DEF TryAgain, EntryBack
    <2>6. CASE CallInvalid(c)  BY <2>6 DEF CallInvalid, Unlock
    <2>7. CASE Call(c)       
      <3>1. Head(queue) \in 1..MaxMsg /\ Tail(queue) \in Seq(1..MaxMsg) /\ queue_size > 0
        BY <2>7, HeadTailProperties, EmptySeq DEF Call, NewestInOrder
      <3>2. on_app' \in [Callers -> BOOLEAN] /\ cpc' \in [Callers -> CallPC]
        <4>1. CASE \E app \in Scheduled : CallerTo(c, "run") /\ on_app' = [on_app EXCEPT ![c] = app]
          <5>1. PICK app \in BOOLEAN : CallerTo(c, "run") /\ on_app' = [on_app EXCEPT ![c] = app]
            BY <4>1
          <5>2. QED  BY <5>1
        <4>2. CASE CallerTo(c, "done") /\ UNCHANGED on_app  BY <4>2
        <4>3. QED  BY <2>7, <4>1, <4>2 DEF Call
      <3>3. QED  BY <2>7, <3>1, <3>2 DEF Call
    <2>8. CASE CallbackReturn(c)  BY <2>8 DEF CallbackReturn
    <2>9. CASE CallReturn(c) BY <2>9 DEF CallReturn, Unlock
    <2>10. QED  BY <1>3, <2>1, <2>2, <2>3, <2>4, <2>5, <2>6, <2>7, <2>8, <2>9 DEF Spin
  <1>4. ASSUME NEW th \in Callers \cup {AppOf(c) : c \in Callers} \cup {User}, RemoveStart(th)
        PROVE TypeOK'
    BY <1>4 DEF RemoveStart
  <1>5. CASE Remove
    <2>1. CASE RemoveErase  BY <2>1 DEF RemoveErase
    <2>2. CASE Clear        BY <2>2 DEF Clear, SizeAfterClear
    <2>3. CASE RemoveByID   BY <2>3 DEF RemoveByID
    <2>4. CASE EraseIDInfo  BY <2>4 DEF EraseIDInfo
    <2>5. QED  BY <1>5, <2>1, <2>2, <2>3, <2>4 DEF Remove
  <1>6. CASE Expire  BY <1>6 DEF Expire
  <1>7. CASE UNCHANGED vars  BY <1>7
  <1>8. QED  BY <1>1, <1>2, <1>2a, <1>3, <1>4, <1>5, <1>6, <1>7 DEF Next, Network

\* push() appends the newest message and drops at most the front one.
LEMMA PushInOrder ==
    ASSUME NewestInOrder, LastInv, Push
    PROVE  /\ queue' \in Seq(1..MaxMsg)
           /\ Len(queue') = queue_size'
           /\ Len(queue') = IF FullNoLock THEN Len(queue) ELSE Len(queue) + 1
           /\ QueueSize > 0 => Len(queue') <= QueueSize
           /\ \A i \in 1..Len(queue') : queue'[i] = next' - 1 - Len(queue') + i
           /\ queue' # <<>> => last' < queue'[1]
  <1>a. QueueSize \in Nat /\ MaxMsg \in Nat  BY SubscriptionAssumption
  <1> USE <1>a
  <1>0. TypeOK /\ next \in 1..MaxMsg /\ last' = last /\ next' = next + 1
    BY DEF NewestInOrder, Push, TypeOK
  <1> DEFINE rest == IF FullNoLock THEN Tail(queue) ELSE queue
  <1>1. rest \in Seq(1..MaxMsg) /\ queue' = Append(rest, next)
    <2>1. FullNoLock => queue # <<>>  BY <1>0 DEF FullNoLock, NewestInOrder, TypeOK
    <2>2. QED  BY <1>0, <2>1, HeadTailProperties DEF Push, PushedQueue, TypeOK
  <1>2. /\ Len(rest) = IF FullNoLock THEN Len(queue) - 1 ELSE Len(queue)
        /\ Len(rest) \in Nat /\ Len(queue) \in Nat
        /\ \A i \in 1..Len(rest) : rest[i] = next - 1 - Len(rest) + i
    <2>1. CASE FullNoLock
      <3>1. queue # <<>>  BY <1>0, <2>1 DEF FullNoLock, NewestInOrder, TypeOK
      <3>2. /\ Len(Tail(queue)) = Len(queue) - 1
            /\ \A i \in 1..Len(Tail(queue)) : Tail(queue)[i] = queue[i + 1]
            /\ Tail(queue) \in Seq(1..MaxMsg)
        BY <1>0, <3>1, HeadTailProperties DEF TypeOK
      <3>3. \A i \in 1..Len(Tail(queue)) : Tail(queue)[i] = next - 1 - Len(Tail(queue)) + i
        BY <1>0, <3>2, LenProperties DEF NewestInOrder, TypeOK
      <3>4. QED  BY <1>0, <2>1, <3>2, <3>3, LenProperties DEF TypeOK
    <2>2. CASE ~FullNoLock  BY <1>0, <2>2, LenProperties DEF NewestInOrder, TypeOK
    <2>3. QED  BY <2>1, <2>2
  <1> HIDE DEF rest
  <1>3. /\ Len(queue') = Len(rest) + 1
        /\ queue'[Len(rest) + 1] = next
        /\ \A i \in 1..Len(rest) : queue'[i] = rest[i]
        /\ queue' \in Seq(1..MaxMsg)
    BY <1>0, <1>1, AppendProperties
  <1>4. \A i \in 1..Len(queue') : queue'[i] = next' - 1 - Len(queue') + i
    <2>1. SUFFICES ASSUME NEW i \in 1..Len(queue')
                   PROVE  queue'[i] = next - Len(queue') + i
      BY <1>0
    <2>2. CASE i = Len(rest) + 1  BY <1>0, <1>2, <1>3, <2>2
    <2>3. CASE i \in 1..Len(rest)
      <3>1. queue'[i] = next - 1 - Len(rest) + i  BY <1>2, <1>3, <2>3
      <3>2. QED  BY <1>0, <1>2, <1>3, <3>1
    <2>4. QED  BY <1>2, <1>3, <2>2, <2>3
  <1>5. last' < queue'[1]
    <2>1. CASE rest = <<>>
      <3>1. queue'[1] = next  BY <1>3, <2>1
      <3>2. QED  BY <1>0, <3>1 DEF LastInv
    <2>2. CASE rest # <<>>
      <3>1. Len(rest) > 0  BY <1>1, <1>2, <2>2, EmptySeq
      <3>2. queue # <<>> /\ Len(queue) >= Len(rest)  BY <1>2, <3>1
      <3>3. Len(queue) > 0  BY <1>2, <3>1
      <3>4. last < queue[1] /\ queue[1] = next - Len(queue)
        BY <1>0, <1>2, <3>2, <3>3 DEF NewestInOrder, TypeOK
      <3>5. queue'[1] = next - Len(rest)
        <4>1. 1 \in 1..Len(rest)  BY <1>2, <3>1
        <4>2. queue'[1] = next - 1 - Len(rest) + 1  BY <1>2, <1>3, <4>1
        <4>3. QED  BY <1>0, <1>2, <4>2
      <3>6. QED  BY <1>0, <1>2, <3>2, <3>4, <3>5 DEF TypeOK
    <2>3. QED  BY <2>1, <2>2
  <1>6. Len(queue') = queue_size' /\ (QueueSize > 0 => Len(queue') <= QueueSize)
    BY <1>0, <1>2, <1>3 DEF Push, FullNoLock, NewestInOrder, TypeOK
  <1>7. QED  BY <1>2, <1>3, <1>4, <1>5, <1>6

\* call() takes the front message, and the rest stays in order and newer than it.
LEMMA CallInOrder ==
    ASSUME NewestInOrder, LastInv, NEW c \in Callers, Call(c)
    PROVE  /\ queue' \in Seq(1..MaxMsg)
           /\ Len(queue') = queue_size'
           /\ Len(queue') = Len(queue) - 1
           /\ \A i \in 1..Len(queue') : queue'[i] = next' - 1 - Len(queue') + i
           /\ queue' # <<>> => last' < queue'[1]
           /\ last' < next'
  <1>a. MaxMsg \in Nat  BY SubscriptionAssumption
  <1>0. /\ TypeOK /\ queue # <<>> /\ queue' = Tail(queue) /\ last' = Head(queue)
        /\ next' = next /\ queue_size' = queue_size - 1
    BY DEF NewestInOrder, Call, network
  <1>1. /\ Len(queue') = Len(queue) - 1 /\ Len(queue) \in Nat /\ Len(queue) > 0
        /\ \A i \in 1..Len(queue') : queue'[i] = queue[i + 1]
        /\ queue' \in Seq(1..MaxMsg)
        /\ Head(queue) = queue[1]
    BY <1>0, HeadTailProperties, LenProperties, EmptySeq DEF TypeOK
  <1>2. last' = next - Len(queue) /\ next \in Nat
    BY <1>a, <1>0, <1>1 DEF NewestInOrder, TypeOK
  <1>3. \A i \in 1..Len(queue') : queue'[i] = next' - 1 - Len(queue') + i
    BY <1>0, <1>1, <1>2 DEF NewestInOrder
  <1>4. queue' # <<>> => last' < queue'[1]
    <2>1. queue' # <<>> => Len(queue') > 0  BY <1>1, EmptySeq, LenProperties
    <2>2. queue' # <<>> => queue'[1] = next' - 1 - Len(queue') + 1
      <3>1. queue' # <<>> => 1 \in 1..Len(queue')  BY <1>1, <2>1
      <3>2. QED  BY <1>3, <3>1
    <2>3. QED  BY <1>0, <1>1, <1>2, <2>2
  <1>5. Len(queue') = queue_size'  BY <1>0, <1>1 DEF NewestInOrder
  <1>6. QED  BY <1>0, <1>1, <1>2, <1>3, <1>4, <1>5

\* Every other step leaves the queue and the messages alone, or empties it.
LEMMA OtherStepsInOrder ==
    ASSUME NewestInOrder, [Next]_vars, ~Push, \A c \in Callers : ~Call(c)
    PROVE  /\ next' = next /\ last' = last
           /\ \/ queue' = queue /\ queue_size' = queue_size
              \/ queue' = <<>> /\ queue_size' = 0
  <1> USE DEF squeue, cqueue, network, callers, removal, vars
  <1>1. CASE Network  BY <1>1 DEF Network, AddCallback, AddIDInfo
  <1>2. ASSUME NEW c \in Callers, Spin(c)
        PROVE  next' = next /\ last' = last /\ queue' = queue /\ queue_size' = queue_size
    BY <1>2 DEF Spin, CallOne, GetIDInfo, LockShared, TryLock, TryAgain, CallInvalid,
                CallbackReturn, CallReturn
  <1>3. CASE \E th \in Callers \cup {AppOf(c) : c \in Callers} \cup {User} : RemoveStart(th)
    BY <1>3 DEF RemoveStart
  <1>4. CASE Remove
    BY <1>4 DEF Remove, RemoveErase, Clear, SizeAfterClear, RemoveByID, EraseIDInfo
  <1>5. CASE Expire  BY <1>5 DEF Expire
  <1>6. CASE UNCHANGED vars  BY <1>6
  <1>7. QED  BY <1>1, <1>2, <1>3, <1>4, <1>5, <1>6 DEF Next

\* No step of any thread loses a message but the oldest, or the order.
LEMMA OrderStep ==
    ASSUME NewestInOrder, LastInv, [Next]_vars
    PROVE  NewestInOrder' /\ LastInv'
  <1>a. QueueSize \in Nat /\ MaxMsg \in Nat  BY SubscriptionAssumption
  <1>0. TypeOK /\ TypeOK'  BY TypeStep DEF NewestInOrder
  <1>1. CASE Push
    <2>1. NewestInOrder'  BY <1>0, <1>1, PushInOrder DEF NewestInOrder
    <2>2. LastInv'  BY <1>a, <1>0, <1>1 DEF Push, LastInv, TypeOK
    <2>3. QED  BY <2>1, <2>2
  <1>2. ASSUME NEW c \in Callers, Call(c)  PROVE NewestInOrder' /\ LastInv'
    <2>1. QueueSize > 0 => Len(queue') <= QueueSize
      <3>1. Len(queue') = Len(queue) - 1  BY <1>2, CallInOrder
      <3>2. Len(queue) \in Nat  BY <1>0, LenProperties DEF TypeOK
      <3>3. QED  BY <1>a, <3>1, <3>2 DEF NewestInOrder
    <2>2. QED  BY <1>0, <1>2, <2>1, CallInOrder DEF NewestInOrder, LastInv
  <1>3. CASE ~Push /\ \A c \in Callers : ~Call(c)
    <2>1. CASE queue' = queue /\ queue_size' = queue_size
      BY <1>0, <1>3, <2>1, OtherStepsInOrder DEF NewestInOrder, LastInv
    <2>2. CASE queue' = <<>> /\ queue_size' = 0
      <3>1. Len(queue') = 0  BY <2>2, EmptySeq
      <3>2. next' = next /\ last' = last  BY <1>3, OtherStepsInOrder
      <3>3. QED  BY <1>a, <1>0, <2>2, <3>1, <3>2 DEF NewestInOrder, LastInv
    <2>3. QED  BY <1>3, <2>1, <2>2, OtherStepsInOrder
  <1>4. QED  BY <1>1, <1>2, <1>3

-----------------------------------------------------------------------------
(* The locks, the removal and the first message.                           *)

\* Every step keeps the shared lock where its holder is, and the removal id as
\* long as a spinner relies on it.
LEMMA ReaderStep ==
    ASSUME TypeOK, ReaderInv, RemovalInv, [Next]_vars
    PROVE  ReaderInv'
  <1> USE DEF TypeOK, ReaderInv, CallPC, squeue, cqueue, network, callers, removal, vars, CallerTo
  <1>1. CASE Push         BY <1>1 DEF Push
  <1>2. CASE AddCallback  BY <1>2 DEF AddCallback
  <1>3. CASE AddIDInfo    BY <1>3 DEF AddIDInfo
  <1>4. ASSUME NEW c \in Callers, Spin(c)  PROVE ReaderInv'
    <2>1. CASE CallOne(c)    BY <2>1 DEF CallOne
    <2>2. CASE GetIDInfo(c)  BY <2>2 DEF GetIDInfo
    <2>3. CASE LockShared(c) BY <2>3 DEF LockShared
    <2>4. CASE TryLock(c)    BY <2>4 DEF TryLock
    <2>5. CASE TryAgain(c)   BY <2>5 DEF TryAgain
    <2>6. CASE CallInvalid(c)  BY <2>6 DEF CallInvalid, Unlock
    <2>7. CASE Call(c)       BY <2>7 DEF Call
    <2>8. CASE CallbackReturn(c)  BY <2>8 DEF CallbackReturn
    <2>9. CASE CallReturn(c) BY <2>9 DEF CallReturn, Unlock
    <2>10. QED  BY <1>4, <2>1, <2>2, <2>3, <2>4, <2>5, <2>6, <2>7, <2>8, <2>9 DEF Spin
  <1>5. CASE \E th \in Callers \cup {AppOf(c) : c \in Callers} \cup {User} : RemoveStart(th)
    BY <1>5 DEF RemoveStart
  <1>6. CASE RemoveErase  BY <1>6 DEF RemoveErase
  <1>7. CASE Clear        BY <1>7 DEF Clear
  <1>8. CASE RemoveByID   BY <1>8 DEF RemoveByID
  <1>9. CASE EraseIDInfo  BY <1>9 DEF EraseIDInfo
  <1>10. CASE Expire  BY <1>10 DEF Expire
  <1>11. CASE UNCHANGED vars  BY <1>11
  <1>12. QED
    BY <1>1, <1>2, <1>3, <1>4, <1>5, <1>6, <1>7, <1>8, <1>9, <1>10, <1>11
    DEF Next, Network, Remove

\* removeByID leaves only when no callback runs, and what follows finds no
\* message to call.
LEMMA RemovalStep ==
    ASSUME TypeOK, ReaderInv, RemovalInv, [Next]_vars
    PROVE  RemovalInv'
  <1>a. User \notin Callers  BY SubscriptionAssumption
  <1> USE DEF TypeOK, RemovalInv, CallPC, NetPC, RemovePC, squeue, cqueue, network, callers,
          removal, vars, CallerTo
  <1>1. CASE Push         BY <1>1 DEF Push
  <1>2. CASE AddCallback  BY <1>2 DEF AddCallback
  <1>3. CASE AddIDInfo    BY <1>3 DEF AddIDInfo
  <1>4. ASSUME NEW c \in Callers, Spin(c)  PROVE RemovalInv'
    <2>1. CASE CallOne(c)    BY <2>1 DEF CallOne
    <2>2. CASE GetIDInfo(c)  BY <2>2 DEF GetIDInfo
    <2>3. CASE LockShared(c) BY <2>3 DEF LockShared
    <2>4. CASE TryLock(c)    BY <2>4 DEF TryLock
    <2>5. CASE TryAgain(c)   BY <2>5 DEF TryAgain
    <2>6. CASE CallInvalid(c)  BY <2>6 DEF CallInvalid, Unlock
    <2>7. CASE Call(c)       BY <2>7 DEF Call
    <2>8. CASE CallbackReturn(c)  BY <2>8 DEF CallbackReturn
    <2>9. CASE CallReturn(c) BY <2>9 DEF CallReturn, Unlock
    <2>10. QED  BY <1>4, <2>1, <2>2, <2>3, <2>4, <2>5, <2>6, <2>7, <2>8, <2>9 DEF Spin
  <1>5. CASE \E th \in Callers \cup {AppOf(c) : c \in Callers} \cup {User} : RemoveStart(th)
    BY <1>5 DEF RemoveStart
  <1>6. CASE RemoveErase  BY <1>6 DEF RemoveErase
  <1>7. CASE Clear        BY <1>7 DEF Clear
  <1>8. CASE RemoveByID
    <2>1. remover = User => \A c \in Callers : cpc[c] # "run"
      BY <1>a, <1>8 DEF RemoveByID, ExclusiveLock, ReaderInv
    <2>2. QED  BY <1>8, <2>1 DEF RemoveByID
  <1>9. CASE EraseIDInfo  BY <1>9 DEF EraseIDInfo
  <1>10. CASE Expire  BY <1>10 DEF Expire
  <1>11. CASE UNCHANGED vars  BY <1>11
  <1>12. QED
    BY <1>1, <1>2, <1>3, <1>4, <1>5, <1>6, <1>7, <1>8, <1>9, <1>10, <1>11
    DEF Next, Network, Remove

\* A second message arrives only after the first one's removal id.
LEMMA FirstStep ==
    ASSUME NewestInOrder, LastInv, ReaderInv, RemovalInv, FirstInv, [Next]_vars
    PROVE  FirstInv'
  <1>a. TypeOK /\ QueueSize \in Nat  BY SubscriptionAssumption DEF NewestInOrder
  <1> USE <1>a DEF FirstInv, TypeOK, squeue, cqueue, network, callers, removal, vars, CallerTo
  <1>1. CASE Push
    <2>1. CASE subscribed /\ ~registered
      <3>1. queue = <<>> /\ Len(queue) = 0 /\ queue_size = 0
        BY <1>1, <2>1, EmptySeq DEF Push, NewestInOrder
      <3>2. ~FullNoLock  BY <3>1 DEF FullNoLock
      <3>3. Len(queue') = 1
        <4>1. Len(queue') = Len(queue) + 1  BY <1>1, <3>2, PushInOrder
        <4>2. QED  BY <3>1, <4>1
      <3>4. QED  BY <1>1, <3>2, <3>3 DEF Push
    <2>2. QED  BY <1>1, <2>1 DEF Push
  <1>2. CASE AddCallback  BY <1>2 DEF AddCallback
  <1>3. CASE AddIDInfo    BY <1>3 DEF AddIDInfo
  <1>4. ASSUME NEW c \in Callers, Spin(c)  PROVE FirstInv'
    <2>1. CASE CallOne(c)    BY <2>1 DEF CallOne
    <2>2. CASE GetIDInfo(c)  BY <2>2 DEF GetIDInfo
    <2>3. CASE LockShared(c) BY <2>3 DEF LockShared
    <2>4. CASE TryLock(c)    BY <2>4 DEF TryLock
    <2>5. CASE TryAgain(c)   BY <2>5 DEF TryAgain
    <2>6. CASE CallInvalid(c)  BY <2>6 DEF CallInvalid, Unlock
    <2>7. CASE Call(c)
      <3>1. registered \/ ~subscribed  BY <2>7 DEF Call, ReaderInv, RemovalInv
      <3>2. QED  BY <2>7, <3>1 DEF Call
    <2>8. CASE CallbackReturn(c)  BY <2>8 DEF CallbackReturn
    <2>9. CASE CallReturn(c) BY <2>9 DEF CallReturn, Unlock
    <2>10. QED  BY <1>4, <2>1, <2>2, <2>3, <2>4, <2>5, <2>6, <2>7, <2>8, <2>9 DEF Spin
  <1>5. CASE \E th \in Callers \cup {AppOf(c) : c \in Callers} \cup {User} : RemoveStart(th)
    BY <1>5 DEF RemoveStart
  <1>6. CASE RemoveErase  BY <1>6 DEF RemoveErase
  <1>7. CASE Clear        BY <1>7 DEF Clear, RemovalInv
  <1>8. CASE RemoveByID   BY <1>8 DEF RemoveByID
  <1>9. CASE EraseIDInfo  BY <1>9 DEF EraseIDInfo, RemovalInv
  <1>10. CASE Expire  BY <1>10 DEF Expire
  <1>11. CASE UNCHANGED vars  BY <1>11
  <1>12. QED
    BY <1>1, <1>2, <1>3, <1>4, <1>5, <1>6, <1>7, <1>8, <1>9, <1>10, <1>11
    DEF Next, Network, Remove

-----------------------------------------------------------------------------
(* EntriesCover.                                                           *)

\* A spinner that takes or gives back an entry changes Serving by itself alone.
LEMMA ServingCount ==
    ASSUME TypeOK, NEW c \in Callers, NEW pc \in CallPC, CallerTo(c, pc)
    PROVE  LET busy == {"taken", "lock_shared", "try_lock", "pop"} IN
           /\ Cardinality(Serving) \in Nat /\ Cardinality(Serving') \in Nat
           /\ cpc[c] \in busy /\ pc \in busy => Cardinality(Serving') = Cardinality(Serving)
           /\ cpc[c] \notin busy /\ pc \notin busy => Cardinality(Serving') = Cardinality(Serving)
           /\ cpc[c] \notin busy /\ pc \in busy => Cardinality(Serving') = Cardinality(Serving) + 1
           /\ cpc[c] \in busy /\ pc \notin busy => Cardinality(Serving') = Cardinality(Serving) - 1
  <1> DEFINE busy == {"taken", "lock_shared", "try_lock", "pop"}
  <1>1. IsFiniteSet(Serving) /\ Cardinality(Serving) \in Nat
    <2>1. IsFiniteSet(Callers) /\ Serving \in SUBSET Callers
      BY SubscriptionAssumption DEF Serving
    <2>2. IsFiniteSet(Serving)  BY <2>1, FS_Subset
    <2>3. QED  BY <2>2, FS_CardinalityType
  <1>2. /\ c \in Serving <=> cpc[c] \in busy
        /\ pc \in busy => Serving' = Serving \cup {c}
        /\ pc \notin busy => Serving' = Serving \ {c}
    BY DEF TypeOK, CallerTo, Serving
  <1>3. /\ Cardinality(Serving \cup {c}) = IF c \in Serving THEN Cardinality(Serving)
                                           ELSE Cardinality(Serving) + 1
        /\ Cardinality(Serving \ {c}) = IF c \in Serving THEN Cardinality(Serving) - 1
                                        ELSE Cardinality(Serving)
        /\ Cardinality(Serving \cup {c}) \in Nat /\ Cardinality(Serving \ {c}) \in Nat
    BY <1>1, FS_AddElement, FS_RemoveElement, FS_CardinalityType
  <1>4. QED  BY <1>1, <1>2, <1>3

\* Every message that is added brings an entry, and an entry is given up only
\* with a message, for an empty queue, or for the first message.
LEMMA CoverStep ==
    ASSUME IInv, [Next]_vars
    PROVE  EntriesCover'
  <1>a. TypeOK /\ TypeOK'  BY TypeStep, OrderStep DEF IInv, NewestInOrder
  <1>b. Len(queue) \in Nat /\ Len(queue') \in Nat  BY <1>a, LenProperties DEF TypeOK
  <1>c. IsFiniteSet(Serving) /\ Cardinality(Serving) \in Nat
    <2>1. IsFiniteSet(Callers) /\ Serving \in SUBSET Callers
      BY SubscriptionAssumption DEF Serving
    <2>2. IsFiniteSet(Serving)  BY <2>1, FS_Subset
    <2>3. QED  BY <2>2, FS_CardinalityType
  <1>d. entries \in Nat /\ entries' \in Nat  BY <1>a DEF TypeOK
  <1>e. EntriesCover  BY DEF IInv
  <1>f. UNCHANGED cpc => Serving' = Serving  BY DEF Serving
  <1> USE <1>b, <1>c, <1>d, <1>e
  <1>1. CASE Push
    <2>1. Len(queue') = IF FullNoLock THEN Len(queue) ELSE Len(queue) + 1
      BY <1>1, PushInOrder DEF IInv
    <2>2. /\ entries' = entries /\ Serving' = Serving
          /\ npc = "idle" /\ npc' = IF FullNoLock THEN "idle" ELSE "add"
          /\ subscribed' = subscribed /\ tracked' = tracked
      BY <1>1, <1>f DEF Push, cqueue, callers
    <2>3. QED  BY <2>1, <2>2 DEF EntriesCover
  <1>2. CASE AddCallback
    BY <1>2, <1>f DEF AddCallback, EntriesCover, squeue, callers
  <1>3. CASE AddIDInfo
    BY <1>3, <1>f DEF AddIDInfo, EntriesCover, squeue, callers
  <1>4. ASSUME NEW c \in Callers, Spin(c)  PROVE EntriesCover'
    <2>0. ASSUME NEW pc \in CallPC, CallerTo(c, pc)
          PROVE  LET busy == {"taken", "lock_shared", "try_lock", "pop"} IN
           /\ Cardinality(Serving') \in Nat
           /\ cpc[c] \in busy /\ pc \in busy => Cardinality(Serving') = Cardinality(Serving)
           /\ cpc[c] \notin busy /\ pc \notin busy => Cardinality(Serving') = Cardinality(Serving)
           /\ cpc[c] \notin busy /\ pc \in busy => Cardinality(Serving') = Cardinality(Serving) + 1
           /\ cpc[c] \in busy /\ pc \notin busy => Cardinality(Serving') = Cardinality(Serving) - 1
      BY <1>a, <2>0, ServingCount
    <2>1. CASE CallOne(c)
      <3>1. Cardinality(Serving') = Cardinality(Serving) + 1
        BY <2>0, <2>1 DEF CallOne, CallPC
      <3>2. QED  BY <2>1, <3>1 DEF CallOne, EntriesCover, squeue, network
    <2>2. CASE GetIDInfo(c)
      <3>1. CASE registered
        <4>1. Cardinality(Serving') = Cardinality(Serving)
          BY <2>0, <2>2, <3>1 DEF GetIDInfo, CallPC
        <4>2. QED  BY <2>2, <4>1 DEF GetIDInfo, EntriesCover, squeue, network, cqueue
      <3>2. CASE ~registered
        <4>1. Cardinality(Serving') \in Nat  BY <2>0, <2>2, <3>2 DEF GetIDInfo, CallPC
        <4>2. subscribed => Len(queue) <= 1  BY <3>2 DEF IInv, FirstInv
        <4>3. QED  BY <2>2, <4>1, <4>2 DEF GetIDInfo, EntriesCover, squeue, network, cqueue
      <3>3. QED  BY <3>1, <3>2
    <2>3. CASE LockShared(c)
      <3>1. Cardinality(Serving') = Cardinality(Serving)
        BY <2>0, <2>3 DEF LockShared, CallPC
      <3>2. QED  BY <2>3, <3>1 DEF LockShared, EntriesCover, squeue, network
    <2>4. CASE TryLock(c)
      <3>1. Cardinality(Serving') = Cardinality(Serving)
        BY <2>0, <2>4 DEF TryLock, CallPC
      <3>2. QED  BY <2>4, <3>1 DEF TryLock, EntriesCover, cqueue, network
    <2>5. CASE TryAgain(c)
      <3>1. Cardinality(Serving') = Cardinality(Serving) - 1
        BY <2>0, <2>5 DEF TryAgain, CallPC
      <3>2. QED  BY <2>5, <3>1 DEF TryAgain, EntryBack, EntriesCover, squeue, network
    <2>6. CASE CallInvalid(c)
      <3>1. Cardinality(Serving') \in Nat  BY <2>0, <2>6 DEF CallInvalid, Unlock, CallPC
      <3>2. Len(queue) = 0 \/ ~tracked  BY <2>6, EmptySeq DEF CallInvalid
      <3>3. QED  BY <2>6, <3>1, <3>2 DEF CallInvalid, EntriesCover, network
    <2>7. CASE Call(c)
      <3>1. Len(queue') = Len(queue) - 1  BY <2>7, CallInOrder DEF IInv
      <3>2. Cardinality(Serving') = Cardinality(Serving) - 1
        <4>1. CASE CallerTo(c, "run")   BY <2>0, <2>7, <4>1 DEF Call, CallPC
        <4>2. CASE CallerTo(c, "done")  BY <2>0, <2>7, <4>2 DEF Call, CallPC
        <4>3. QED  BY <2>7, <4>1, <4>2 DEF Call
      <3>3. QED  BY <2>7, <3>1, <3>2 DEF Call, EntriesCover, cqueue, network
    <2>8. CASE CallbackReturn(c)
      <3>1. Cardinality(Serving') = Cardinality(Serving)
        BY <2>0, <2>8 DEF CallbackReturn, CallPC
      <3>2. QED  BY <2>8, <3>1 DEF CallbackReturn, EntriesCover, squeue, cqueue, network
    <2>9. CASE CallReturn(c)
      <3>1. Cardinality(Serving') = Cardinality(Serving)
        BY <2>0, <2>9 DEF CallReturn, Unlock, CallPC
      <3>2. QED  BY <2>9, <3>1 DEF CallReturn, EntriesCover, network
    <2>10. QED  BY <1>4, <2>1, <2>2, <2>3, <2>4, <2>5, <2>6, <2>7, <2>8, <2>9 DEF Spin
  <1>5. CASE \E th \in Callers \cup {AppOf(c) : c \in Callers} \cup {User} : RemoveStart(th)
    BY <1>5, <1>f DEF RemoveStart, EntriesCover, squeue, cqueue, network, callers
  <1>6. CASE Remove
    <2>1. ~subscribed'
      BY <1>6 DEF Remove, RemoveErase, Clear, RemoveByID, EraseIDInfo, IInv, RemovalInv
    <2>2. QED  BY <2>1 DEF EntriesCover
  <1>7. CASE Expire  BY <1>7 DEF Expire, EntriesCover
  <1>8. CASE UNCHANGED vars
    BY <1>8, <1>f DEF vars, EntriesCover, squeue, cqueue, network, callers
  <1>9. QED
    BY <1>1, <1>2, <1>3, <1>4, <1>5, <1>6, <1>7, <1>8 DEF Next, Network

-----------------------------------------------------------------------------
(* The theorems.                                                           *)

\* The initial state of a subscription satisfies the invariant.
LEMMA InitInv == Init => IInv
  <1> SUFFICES ASSUME Init  PROVE IInv
    OBVIOUS
  <1>a. QueueSize \in Nat /\ MaxMsg \in Nat /\ AllowConcurrent \subseteq BOOLEAN
    BY SubscriptionAssumption
  <1>b. queue = <<>> /\ Len(queue) = 0 /\ queue \in Seq(1..MaxMsg)  BY EmptySeq DEF Init
  <1>1. TypeOK
    <2>1. /\ concurrent \in BOOLEAN /\ tracked \in BOOLEAN
          /\ subscribed \in BOOLEAN /\ registered \in BOOLEAN
      BY <1>a DEF Init
    <2>2. on_app \in [Callers -> BOOLEAN]  BY DEF Init
    <2>3. cpc \in [Callers -> CallPC] /\ item \in [Callers -> 0..MaxMsg]
      BY <1>a DEF Init, CallPC
    <2>4. next \in 1..MaxMsg + 1 /\ last \in 0..MaxMsg /\ queue_size \in Nat /\ entries \in Nat
      BY <1>a DEF Init
    <2>5. QED  BY <1>b, <2>1, <2>2, <2>3, <2>4 DEF Init, TypeOK, NetPC, RemovePC
  <1>2. NewestInOrder /\ LastInv  BY <1>a, <1>b, <1>1 DEF Init, NewestInOrder, LastInv
  <1>3. ReaderInv /\ RemovalInv /\ FirstInv
    BY <1>b DEF Init, ReaderInv, RemovalInv, FirstInv
  <1>4. EntriesCover
    <2>1. Serving = {}  BY DEF Init, Serving
    <2>2. Cardinality(Serving) = 0  BY <2>1, FS_EmptySet
    <2>3. QED  BY <1>b, <2>2 DEF Init, EntriesCover
  <1>5. QED  BY <1>2, <1>3, <1>4 DEF IInv

\* The invariant holds in every state of a subscription.
THEOREM InvariantHolds == Spec => []IInv
  <1>1. IInv /\ [Next]_vars => IInv'
    <2> SUFFICES ASSUME IInv, [Next]_vars  PROVE IInv'
      OBVIOUS
    <2>1. NewestInOrder /\ TypeOK /\ LastInv /\ ReaderInv /\ RemovalInv /\ FirstInv
      BY DEF IInv, NewestInOrder
    <2>2. QED
      BY <2>1, OrderStep, ReaderStep, RemovalStep, FirstStep, CoverStep DEF IInv
  <1>2. QED  BY InitInv, <1>1, PTL DEF Spec

\* A full queue loses only its oldest message, and no message is given to a
\* callback twice or out of order, for every queue size and number of spinners.
THEOREM MessagesInOrder == Spec => []NewestInOrder
  <1>1. IInv => NewestInOrder  BY DEF IInv
  <1>2. QED  BY InvariantHolds, <1>1, PTL

\* When a user thread's removeCallback has returned, no callback of the
\* subscription runs on any of the spinner threads.
THEOREM RemovalIsQuiet == Spec => []QuietAfterRemoval
  <1>1. IInv => QuietAfterRemoval  BY DEF IInv, RemovalInv, QuietAfterRemoval
  <1>2. QED  BY InvariantHolds, <1>1, PTL

\* At most one waiting message has no entry that will make a spinner call the
\* queue, however many spinners take, drop and give back entries.
THEOREM MessagesAreServed == Spec => []EntriesCover
  <1>1. IInv => EntriesCover  BY DEF IInv
  <1>2. QED  BY InvariantHolds, <1>1, PTL
=============================================================================
