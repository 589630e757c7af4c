-------------------------- MODULE SchedNodeProofs --------------------------
(***************************************************************************)
(* Proofs of the safety properties of SchedNode, for any sets of threads   *)
(* and topics and any budget.                                              *)
(***************************************************************************)
EXTENDS SchedNode, TLAPS

\* The spinner is inside waitAppThread, before update() reported the end.
Blocked == {"poll", "missed", "choose", "fail_safe", "demote", "wait"}
Waiting == Blocked \cup {"drain_first", "drain_wait"}

-----------------------------------------------------------------------------
(* The inductive invariant, by concern.                                    *)

\* An application thread has a topic as long as it exists; while waitAppThread
\* is active the call has a topic and a thread.
StructInv ==
    /\ \A a \in Apps : apc[a] # "none" => app_topic[a] \in Topics
    /\ spc \in Waiting \cup {"elapsed"} => mine \in Apps /\ topic \in Topics

\* Without poll errors only the thread of the current call is before its
\* signal, and a byte in a pipe was written by that thread.
SerialInv ==
    ~EINTR =>
      /\ \A a \in Apps : apc[a] \in {"run", "signal", "write"} =>
            a = mine /\ app_topic[a] = topic /\ spc \in Blocked
      /\ pipe # {} => pipe = {topic} /\ spc \in Waiting
      /\ pipe # {} \/ spc \in {"drain_first", "drain_wait", "elapsed"} =>
            apc[mine] \in {"unlock", "none"}

\* A publish call is made by user code that has not returned; its branch fits
\* the flag it read.
PublishInv ==
    /\ \A th \in Threads : pub[th].pc # "none" => InUserCode(th)
    /\ \A th \in Threads : pub[th].pc = "none" => pub[th] = NoCall
    /\ \A th \in Threads : pub[th].pc \in {"erase", "check_missed"} => ~pub[th].fs
    /\ \A th \in Threads : pub[th].pc = "check_remain" => pub[th].fs
    /\ running_fail_safe <=> spc = "fail_safe"
    /\ pub[Spinner].pc # "none" => (pub[Spinner].fs <=> spc = "fail_safe")
    /\ spc \in {"choose", "fail_safe", "demote", "wait", "drain_wait"} =>
          missed_deadline

\* A late call waits for the check that drops it.
LateInv ==
    ~EINTR /\ ~publish_even =>
        \A th \in Threads : pub[th].late =>
            missed_deadline /\ pub[th].pc \in {"erase", "check_missed"}

\* A call of the regular branch took its topic out of v_remain_pubtopic_.
TakenInv ==
    ~EINTR =>
      /\ \A th \in Threads :
            pub[th].pc = "check_missed" \/ (pub[th].pc = "send" /\ ~pub[th].fs)
                => pub[th].topic \notin remain_pubtopic
      /\ spc # "reset" =>
            \A p \in Outputs : "callback" \in sent[p] => p \notin remain_pubtopic

\* p is given to the fail-safe function: it sent p or is about to.
FailSafeHas(p) ==
    \/ "fail_safe" \in sent[p]
    \/ pub[Spinner].pc = "send" /\ pub[Spinner].fs /\ pub[Spinner].topic = p

\* Then no callback sent p and none will before the round ends.
SourceInv ==
    ~EINTR /\ ~publish_even =>
        \A p \in Outputs : FailSafeHas(p) =>
            /\ missed_deadline
            /\ "callback" \notin sent[p]
            /\ \A th \in Threads :
                  ~(pub[th].pc = "send" /\ ~pub[th].fs /\ pub[th].topic = p)

FailSafeInv == fs_runs = IF ran_fail_safe \/ spc = "fail_safe" THEN 1 ELSE 0

AffinityInv ==
    /\ affinity = "all" => spc \in {"wait", "drain_wait"}
    /\ \A a \in Apps : app_affinity[a] = "reserved"

\* A missed deadline has used up the budget, or the poll that missed it will.
BudgetInv ==
    ~EINTR =>
      /\ spc = "missed" => timed_out
      /\ timed_out => spc \in (Waiting \ {"poll"}) \cup {"elapsed"}
      /\ MaxWall <= IntMaxMs /\ missed_deadline => poll_time = 0 \/ timed_out

\* Before the first supervised callback of a round nothing has been used.
FreshInv ==
    SubTopics # {} /\ remain_subtopic = SubTopics /\ spc # "reset" =>
        /\ spc \in {"idle", "inline", "after"}
        /\ ~missed_deadline /\ ~ran_fail_safe
        /\ poll_time = RunTime

IInv ==
    /\ TypeOK /\ StructInv /\ SerialInv /\ PublishInv /\ LateInv /\ TakenInv
    /\ SourceInv /\ FailSafeInv /\ AffinityInv /\ BudgetInv /\ FreshInv

-----------------------------------------------------------------------------
USE DEF Threads, Topics, Outputs

\* The record of a thread that is not in publish() is a publish record.
LEMMA NoCallType == NoCall \in PubCall
  BY DEF NoCall, PubCall, PubPC

\* ros::init leaves every variable with its type.
LEMMA TypeInit == Init => TypeOK
  <1> SUFFICES ASSUME Init  PROVE TypeOK
    OBVIOUS
  <1>1. poll_time \in Nat /\ poll_time <= RunTime
    BY TimeAssumption DEF Init
  <1>2. sent \in [Outputs -> SUBSET Source] /\ pub \in [Threads -> PubCall]
    BY NoCallType DEF Init
  <1>3. QED
    BY <1>1, <1>2 DEF Init, TypeOK, SpinnerPC, AppPC, CpuMask

\* Each step of call() and waitAppThread keeps the types.
LEMMA SpinnerType ==
    ASSUME TypeOK, CallStart \/ SpinnerStep
    PROVE  TypeOK'
  <1> USE NameAssumption, TimeAssumption DEF TypeOK, SpinnerPC, GoTo, Return,
          manager, notify, apps, history
  <1>1. ASSUME NEW t \in Topics, NEW a \in Apps, CallSupervised(t, a)
        PROVE  TypeOK'
    BY <1>1 DEF CallSupervised, AppPC
  <1>2. ASSUME NEW t \in Topics, CallInline(t)  PROVE  TypeOK'
    BY <1>2 DEF CallInline
  <1>3. CASE InlineReturn  BY <1>3 DEF InlineReturn
  <1>4. CASE PollReady     BY <1>4 DEF PollReady
  <1>5. CASE PollTimeout   BY <1>5 DEF PollTimeout
  <1>6. CASE PollError     BY <1>6 DEF PollError, SetCoreAffinity, CpuMask
  <1>7. CASE Drain         BY <1>7 DEF Drain, DrainedPipe, SetCoreAffinity, CpuMask
  <1>8. CASE MissedDeadline  BY <1>8 DEF MissedDeadline
  <1>9. CASE StartFailSafe
    <2>1. CASE MayRunFailSafe   BY <1>9, <2>1 DEF StartFailSafe
    <2>2. CASE ~MayRunFailSafe  BY <1>9, <2>2 DEF StartFailSafe
    <2>3. QED  BY <2>1, <2>2
  <1>10. CASE EndFailSafe    BY <1>10 DEF EndFailSafe
  <1>11. CASE SetDefaultScheduling  BY <1>11 DEF SetDefaultScheduling, CpuMask
  <1>12. CASE FinishWait
    <2>1. PICK wall \in 0..MaxWall :
             \E ms \in ElapsedTimeMs(wall) : poll_time' = SubPollTime(ms)
      BY <1>12 DEF FinishWait
    <2>2. poll_time' \in Nat /\ (MaxWall <= IntMaxMs => poll_time' <= RunTime)
      BY <2>1 DEF ElapsedTimeMs, SubPollTime
    <2>3. QED  BY <1>12, <2>2 DEF FinishWait
  <1>13. CASE CallReturn   BY <1>13 DEF CallReturn
  <1>14. CASE ResetTopics  BY <1>14 DEF ResetTopics
  <1>15. CASE ResetFlags   
    <2>1. sent' \in [Outputs -> SUBSET Source]
      BY <1>15 DEF ResetFlags
    <2>2. poll_time' \in Nat /\ (MaxWall <= IntMaxMs => poll_time' <= RunTime)
      BY <1>15 DEF ResetFlags, ResetPollTime
    <2>3. QED  BY <1>15, <2>1, <2>2 DEF ResetFlags
  <1> QED  BY <1>1, <1>2, <1>3, <1>4, <1>5, <1>6, <1>7, <1>8, <1>9, <1>10, <1>11,
              <1>12, <1>13, <1>14, <1>15 DEF CallStart, SpinnerStep, SpinnerProgress

\* Each step of appThread and signal() keeps the types.
LEMMA AppType ==
    ASSUME TypeOK, StructInv, NEW a \in Apps, AppThread(a)
    PROVE  TypeOK'
  <1> USE DEF TypeOK, AppPC, manager, notify, spinner, apps, history
  <1>1. CASE AppReturn(a)     BY <1>1 DEF AppReturn
  <1>2. CASE SignalTryLock(a)
    <2>1. CASE signal_mutex[app_topic[a]] = None
      BY <1>2, <2>1 DEF SignalTryLock
    <2>2. CASE signal_mutex[app_topic[a]] # None
      BY <1>2, <2>2 DEF SignalTryLock, Exit, CpuMask
    <2>3. QED  BY <2>1, <2>2
  <1>3. CASE SignalWrite(a)   BY <1>3 DEF SignalWrite, WriteByte, StructInv
  <1>4. CASE SignalUnlock(a)  BY <1>4 DEF SignalUnlock, Exit, CpuMask
  <1> QED  BY <1>1, <1>2, <1>3, <1>4 DEF AppThread

\* Advancing a publish call keeps it a publish call.
LEMMA PubCallAdvance ==
    ASSUME NEW c \in PubCall, NEW pc \in PubPC
    PROVE  [c EXCEPT !.pc = pc] \in PubCall
  BY DEF PubCall

\* Each step of Publisher::publish keeps the types.
LEMMA PublishType ==
    ASSUME TypeOK, NEW th \in Threads, Publish(th)
    PROVE  TypeOK'
  <1> USE DEF TypeOK, manager, notify, spinner, apps, history
  <1>1. ASSUME NEW p \in Outputs, PublishEnter(th, p)  PROVE  TypeOK'
    <2>1. pub' \in [Threads -> PubCall]
      BY <1>1 DEF PublishEnter, PubCall, PubPC
    <2>2. QED  BY <1>1, <2>1 DEF PublishEnter
  <1>2. CASE PublishCheckRemain(th)
    <2>1. pub' \in [Threads -> PubCall]
      <3>1. CASE pub' = [pub EXCEPT ![th].pc = "send"]
        BY <3>1, PubCallAdvance DEF PubPC
      <3>2. CASE pub' = [pub EXCEPT ![th] = NoCall]
        BY <3>2, NoCallType
      <3>3. QED  BY <1>2, <3>1, <3>2 DEF PublishCheckRemain
    <2>2. QED  BY <1>2, <2>1 DEF PublishCheckRemain
  <1>3. CASE PublishErase(th)
    <2>1. pub' \in [Threads -> PubCall]
      BY <1>3, PubCallAdvance DEF PublishErase, PubPC
    <2>2. QED  BY <1>3, <2>1 DEF PublishErase, RemoveRemainPubTopic
  <1>4. CASE PublishCheckMissed(th)
    <2>1. pub' \in [Threads -> PubCall]
      BY <1>4, NoCallType, PubCallAdvance DEF PublishCheckMissed, PubPC
    <2>2. QED  BY <1>4, <2>1 DEF PublishCheckMissed
  <1>5. CASE PublishSend(th)
    <2>1. pub' \in [Threads -> PubCall]
      BY <1>5, NoCallType DEF PublishSend
    <2>2. SourceOf(th) \in Source
      BY DEF SourceOf, Source, PubCall
    <2>3. sent' \in [Outputs -> SUBSET Source]
      BY <1>5, <2>2 DEF PublishSend
    <2>4. QED  BY <1>5, <2>1, <2>3 DEF PublishSend
  <1> QED  BY <1>1, <1>2, <1>3, <1>4, <1>5 DEF Publish

-----------------------------------------------------------------------------
(* Steps of the spinner.                                                   *)

\* call() and waitAppThread run the fail-safe function once and give back the
\* cores before the call returns.
LEMMA SpinnerFlags ==
    ASSUME TypeOK, FailSafeInv, AffinityInv, CallStart \/ SpinnerStep
    PROVE  FailSafeInv' /\ AffinityInv'
  <1> USE DEF TypeOK, FailSafeInv, AffinityInv, manager, notify, apps, history,
              GoTo, Return, CpuMask
  <1>1. ASSUME NEW t \in Topics, NEW a \in Apps, CallSupervised(t, a)
        PROVE  FailSafeInv' /\ AffinityInv'
    BY <1>1 DEF CallSupervised
  <1>2. ASSUME NEW t \in Topics, CallInline(t)
        PROVE  FailSafeInv' /\ AffinityInv'
    BY <1>2 DEF CallInline
  <1>3. CASE InlineReturn \/ PollReady \/ PollTimeout \/ PollError \/ Drain
    BY <1>3 DEF InlineReturn, PollReady, PollTimeout, PollError, Drain, SetCoreAffinity
  <1>4. CASE MissedDeadline \/ StartFailSafe \/ EndFailSafe
    BY <1>4 DEF MissedDeadline, StartFailSafe, EndFailSafe, MayRunFailSafe
  <1>5. CASE SetDefaultScheduling \/ FinishWait \/ CallReturn
    BY <1>5 DEF SetDefaultScheduling, FinishWait, CallReturn
  <1>6. CASE ResetTopics \/ ResetFlags
    BY <1>6 DEF ResetTopics, ResetFlags
  <1> QED  BY <1>1, <1>2, <1>3, <1>4, <1>5, <1>6 DEF CallStart, SpinnerStep, SpinnerProgress
\* The budget of a round is used up by the poll that misses the deadline.
LEMMA SpinnerBudget ==
    ASSUME TypeOK, BudgetInv, FreshInv, CallStart \/ SpinnerStep
    PROVE  BudgetInv' /\ FreshInv'
  <1> USE TimeAssumption DEF TypeOK, BudgetInv, FreshInv, manager, notify, apps, history,
          GoTo, Return, Waiting, Blocked
  <1>1. ASSUME NEW t \in Topics, NEW a \in Apps, CallSupervised(t, a)
        PROVE  BudgetInv' /\ FreshInv'
    BY <1>1 DEF CallSupervised
  <1>2. ASSUME NEW t \in Topics, CallInline(t)
        PROVE  BudgetInv' /\ FreshInv'
    BY <1>2 DEF CallInline
  <1>3. CASE InlineReturn \/ PollReady \/ PollTimeout \/ PollError \/ Drain
    BY <1>3 DEF InlineReturn, PollReady, PollTimeout, PollError, Drain
  <1>4. CASE MissedDeadline \/ StartFailSafe \/ EndFailSafe
    BY <1>4 DEF MissedDeadline, StartFailSafe, EndFailSafe
  <1>5. CASE SetDefaultScheduling \/ CallReturn
    BY <1>5 DEF SetDefaultScheduling, CallReturn
  <1>6. CASE ResetTopics \/ ResetFlags
    BY <1>6 DEF ResetTopics, ResetFlags, ResetPollTime, RoundComplete
  <1>7. CASE FinishWait
    <2>1. PICK wall \in 0..MaxWall :
             \E ms \in ElapsedTimeMs(wall) :
                (timed_out => wall >= poll_time) /\ poll_time' = SubPollTime(ms)
      BY <1>7 DEF FinishWait
    <2>2. MaxWall <= IntMaxMs /\ (poll_time = 0 \/ timed_out) => poll_time' = 0
      BY <2>1 DEF ElapsedTimeMs, SubPollTime
    <2>3. QED  BY <1>7, <2>2 DEF FinishWait
  <1> QED  BY <1>1, <1>2, <1>3, <1>4, <1>5, <1>6, <1>7 DEF CallStart, SpinnerStep, SpinnerProgress

\* The call waits for its own callback.
LEMMA SpinnerSerial ==
    ASSUME TypeOK, StructInv, SerialInv, CallStart \/ SpinnerStep
    PROVE  StructInv' /\ SerialInv'
  <1> USE NameAssumption DEF TypeOK, StructInv, SerialInv, manager, notify, apps, history,
          GoTo, Return, Waiting, Blocked, AppPC
  <1>1. ASSUME NEW t \in Topics, NEW a \in Apps, CallSupervised(t, a)
        PROVE  StructInv' /\ SerialInv'
    BY <1>1 DEF CallSupervised
  <1>2. ASSUME NEW t \in Topics, CallInline(t)
        PROVE  StructInv' /\ SerialInv'
    BY <1>2 DEF CallInline
  <1>3. CASE InlineReturn \/ PollReady \/ PollTimeout \/ PollError \/ Drain
    BY <1>3 DEF InlineReturn, PollReady, PollTimeout, PollError, Drain, DrainedPipe
  <1>4. CASE MissedDeadline \/ StartFailSafe \/ EndFailSafe
    BY <1>4 DEF MissedDeadline, StartFailSafe, EndFailSafe
  <1>5. CASE SetDefaultScheduling \/ CallReturn
    BY <1>5 DEF SetDefaultScheduling, CallReturn
  <1>6. CASE ResetTopics \/ ResetFlags
    BY <1>6 DEF ResetTopics, ResetFlags
  <1>7. CASE FinishWait
    BY <1>7 DEF FinishWait
  <1> QED  BY <1>1, <1>2, <1>3, <1>4, <1>5, <1>6, <1>7 DEF CallStart, SpinnerStep, SpinnerProgress
\* A publish call lives inside user code, which the spinner does not leave with one.
LEMMA SpinnerPublish ==
    ASSUME TypeOK, PublishInv, CallStart \/ SpinnerStep
    PROVE  PublishInv'
  <1> USE NameAssumption DEF TypeOK, PublishInv, InUserCode, manager, notify, apps, history,
          GoTo, Return, Waiting, Blocked
  <1>1. ASSUME NEW t \in Topics, NEW a \in Apps, CallSupervised(t, a)
        PROVE  PublishInv'
    BY <1>1 DEF CallSupervised
  <1>2. ASSUME NEW t \in Topics, CallInline(t)
        PROVE  PublishInv'
    BY <1>2 DEF CallInline
  <1>3. CASE InlineReturn \/ PollReady \/ PollTimeout \/ PollError \/ Drain
    BY <1>3 DEF InlineReturn, PollReady, PollTimeout, PollError, Drain
  <1>4. CASE MissedDeadline \/ StartFailSafe \/ EndFailSafe
    BY <1>4 DEF MissedDeadline, StartFailSafe, EndFailSafe
  <1>5. CASE SetDefaultScheduling \/ CallReturn \/ FinishWait
    BY <1>5 DEF SetDefaultScheduling, CallReturn, FinishWait
  <1>6. CASE ResetTopics \/ ResetFlags
    BY <1>6 DEF ResetTopics, ResetFlags
  <1> QED  BY <1>1, <1>2, <1>3, <1>4, <1>5, <1>6 DEF CallStart, SpinnerStep, SpinnerProgress

\* The flags and the topics are reset when no publish call is under way.
LEMMA QuietReset ==
    ASSUME TypeOK, SerialInv, PublishInv, ~EINTR, spc \in {"after", "reset"}
    PROVE  \A th \in Threads : pub[th] = NoCall
  BY NameAssumption DEF TypeOK, SerialInv, PublishInv, InUserCode, Blocked

\* A missed deadline is forgotten only between rounds.
LEMMA SpinnerLate ==
    ASSUME TypeOK, SerialInv, PublishInv, LateInv, TakenInv, CallStart \/ SpinnerStep
    PROVE  LateInv' /\ TakenInv'
  <1> USE QuietReset, NameAssumption DEF TypeOK, LateInv, TakenInv, NoCall, manager, notify, apps, history,
          GoTo, Return, Waiting, Blocked
  <1>1. ASSUME NEW t \in Topics, NEW a \in Apps, CallSupervised(t, a)
        PROVE  LateInv' /\ TakenInv'
    BY <1>1 DEF CallSupervised
  <1>2. ASSUME NEW t \in Topics, CallInline(t)
        PROVE  LateInv' /\ TakenInv'
    BY <1>2 DEF CallInline
  <1>3. CASE InlineReturn \/ PollReady \/ PollTimeout \/ PollError \/ Drain
    BY <1>3 DEF InlineReturn, PollReady, PollTimeout, PollError, Drain
  <1>4. CASE MissedDeadline \/ StartFailSafe \/ EndFailSafe
    BY <1>4 DEF MissedDeadline, StartFailSafe, EndFailSafe
  <1>5. CASE SetDefaultScheduling \/ CallReturn \/ FinishWait
    BY <1>5 DEF SetDefaultScheduling, CallReturn, FinishWait
  <1>6. CASE ResetTopics \/ ResetFlags
    BY <1>6 DEF ResetTopics, ResetFlags
  <1> QED  BY <1>1, <1>2, <1>3, <1>4, <1>5, <1>6 DEF CallStart, SpinnerStep, SpinnerProgress

\* What the fail-safe function sent stays its own until the round ends.
LEMMA SpinnerSource ==
    ASSUME TypeOK, SerialInv, PublishInv, SourceInv, CallStart \/ SpinnerStep
    PROVE  SourceInv'
  <1> USE QuietReset, NameAssumption DEF TypeOK, SourceInv, FailSafeHas, NoCall, manager, notify, apps, history,
          GoTo, Return, Waiting, Blocked
  <1>1. ASSUME NEW t \in Topics, NEW a \in Apps, CallSupervised(t, a)
        PROVE  SourceInv'
    BY <1>1 DEF CallSupervised
  <1>2. ASSUME NEW t \in Topics, CallInline(t)
        PROVE  SourceInv'
    BY <1>2 DEF CallInline
  <1>3. CASE InlineReturn \/ PollReady \/ PollTimeout \/ PollError \/ Drain
    BY <1>3 DEF InlineReturn, PollReady, PollTimeout, PollError, Drain
  <1>4. CASE MissedDeadline \/ StartFailSafe \/ EndFailSafe
    BY <1>4 DEF MissedDeadline, StartFailSafe, EndFailSafe
  <1>5. CASE SetDefaultScheduling \/ CallReturn \/ FinishWait
    BY <1>5 DEF SetDefaultScheduling, CallReturn, FinishWait
  <1>6. CASE ResetTopics \/ ResetFlags
    BY <1>6 DEF ResetTopics, ResetFlags
  <1> QED  BY <1>1, <1>2, <1>3, <1>4, <1>5, <1>6 DEF CallStart, SpinnerStep, SpinnerProgress

-----------------------------------------------------------------------------
(* Steps of an application thread.                                         *)

\* Only the thread of the current call writes a byte, after its callback.
LEMMA AppSerial ==
    ASSUME TypeOK, StructInv, SerialInv, NEW a \in Apps, AppThread(a)
    PROVE  StructInv' /\ SerialInv'
  <1> USE NameAssumption DEF TypeOK, StructInv, SerialInv, manager, notify, spinner,
          history, Waiting, Blocked, AppPC
  <1>1. CASE AppReturn(a)      BY <1>1 DEF AppReturn
  <1>2. CASE SignalTryLock(a)  BY <1>2 DEF SignalTryLock, Exit
  <1>3. CASE SignalWrite(a)    BY <1>3 DEF SignalWrite, WriteByte
  <1>4. CASE SignalUnlock(a)   BY <1>4 DEF SignalUnlock, Exit
  <1> QED  BY <1>1, <1>2, <1>3, <1>4 DEF AppThread

\* A thread signals after its publish calls; the manager is not touched.
LEMMA AppRest ==
    ASSUME TypeOK, PublishInv, LateInv, TakenInv, SourceInv, FailSafeInv,
           AffinityInv, BudgetInv, FreshInv, NEW a \in Apps, AppThread(a)
    PROVE  /\ PublishInv' /\ LateInv' /\ TakenInv' /\ SourceInv'
           /\ FailSafeInv' /\ AffinityInv' /\ BudgetInv' /\ FreshInv'
  <1>1. UNCHANGED <<manager, spinner, pub, history>>
    BY DEF AppThread, AppReturn, SignalTryLock, SignalWrite, SignalUnlock
  <1>2. \A o \in Apps : apc[o] = "run" => apc'[o] = "run" \/ pub[o].pc = "none"
    BY DEF TypeOK, AppThread, AppReturn, SignalTryLock, SignalWrite, SignalUnlock, Exit
  <1>3. \A o \in Apps : app_affinity[o] = "reserved" => app_affinity'[o] = "reserved"
    BY DEF TypeOK, AppThread, AppReturn, SignalTryLock, SignalWrite, SignalUnlock,
           Exit, apps
  <1>4. PublishInv'
    BY <1>1, <1>2, NameAssumption DEF PublishInv, InUserCode, manager, spinner
  <1>5. LateInv' /\ TakenInv' /\ SourceInv'
    BY <1>1 DEF LateInv, TakenInv, SourceInv, FailSafeHas, manager, spinner, history
  <1>6. FailSafeInv' /\ BudgetInv' /\ FreshInv'
    BY <1>1 DEF FailSafeInv, BudgetInv, FreshInv, manager, spinner, history
  <1>7. AffinityInv'
    BY <1>1, <1>3 DEF AffinityInv, spinner
  <1> QED  BY <1>4, <1>5, <1>6, <1>7

-----------------------------------------------------------------------------
(* Steps of Publisher::publish.                                            *)

\* Publishing leaves the spinner, the pipes and the round's budget alone.
LEMMA PublishRest ==
    ASSUME TypeOK, StructInv, SerialInv, FailSafeInv, AffinityInv, BudgetInv,
           FreshInv, NEW th \in Threads, Publish(th)
    PROVE  /\ StructInv' /\ SerialInv' /\ FailSafeInv' /\ AffinityInv'
           /\ BudgetInv' /\ FreshInv'
  <1>1. UNCHANGED <<remain_subtopic, poll_time, missed_deadline, running_fail_safe,
                    ran_fail_safe, notify, spinner, apps, fs_runs>>
    BY DEF Publish, PublishEnter, PublishCheckRemain, PublishErase,
           PublishCheckMissed, PublishSend, manager, history
  <1> QED
    BY <1>1 DEF StructInv, SerialInv, FailSafeInv, AffinityInv, BudgetInv, FreshInv,
                notify, spinner, apps, Waiting, Blocked

\* A call follows the branch it entered and ends before its user code does.
LEMMA PublishBranch ==
    ASSUME TypeOK, PublishInv, NEW th \in Threads, Publish(th)
    PROVE  PublishInv'
  <1> USE DEF TypeOK, manager, notify, spinner, apps, history
  <1>1. UNCHANGED <<missed_deadline, running_fail_safe, spinner, apps>>
    BY DEF Publish, PublishEnter, PublishCheckRemain, PublishErase,
           PublishCheckMissed, PublishSend
  <1>2. InUserCode(th)
    BY DEF Publish, PublishEnter, PublishCheckRemain, PublishErase,
           PublishCheckMissed, PublishSend, PublishInv
  <1>3. \A o \in Threads \ {th} : pub'[o] = pub[o]
    BY DEF Publish, PublishEnter, PublishCheckRemain, PublishErase,
           PublishCheckMissed, PublishSend
  <1>4. /\ pub'[th].pc = "none" => pub'[th] = NoCall
        /\ pub'[th].pc \in {"erase", "check_missed"} => ~pub'[th].fs
        /\ pub'[th].pc = "check_remain" => pub'[th].fs
        /\ pub'[th].pc # "none" =>
              (pub'[th].fs <=> IF pub[th].pc = "none" THEN running_fail_safe
                                                     ELSE pub[th].fs)
    <2> USE DEF PublishInv, PubCall, PubPC, NoCall
    <2>1. ASSUME NEW p \in Outputs, PublishEnter(th, p)  PROVE  <1>4!:
      BY <2>1 DEF PublishEnter
    <2>2. CASE PublishCheckRemain(th)
      <3>1. CASE pub' = [pub EXCEPT ![th].pc = "send"]
        BY <2>2, <3>1 DEF PublishCheckRemain
      <3>2. CASE pub' = [pub EXCEPT ![th] = NoCall]
        BY <3>2
      <3>3. QED  BY <2>2, <3>1, <3>2 DEF PublishCheckRemain
    <2>3. CASE PublishErase(th)        BY <2>3 DEF PublishErase
    <2>4. CASE PublishCheckMissed(th)  BY <2>4 DEF PublishCheckMissed
    <2>5. CASE PublishSend(th)         BY <2>5 DEF PublishSend
    <2> QED  BY <2>1, <2>2, <2>3, <2>4, <2>5 DEF Publish
  <1> QED
    BY <1>1, <1>2, <1>3, <1>4, NameAssumption DEF PublishInv, InUserCode

\* A late call is dropped by the check of the deadline miss.
LEMMA PublishLate ==
    ASSUME TypeOK, PublishInv, LateInv, NEW th \in Threads, Publish(th)
    PROVE  LateInv'
  <1> USE NameAssumption DEF TypeOK, PublishInv, LateInv,
          manager, notify, spinner, apps, history, PubCall, PubPC, NoCall
  <1>1. ASSUME NEW p \in Outputs, PublishEnter(th, p)  PROVE  LateInv'
    BY <1>1 DEF PublishEnter
  <1>2. CASE PublishCheckRemain(th)
    BY <1>2 DEF PublishCheckRemain
  <1>3. CASE PublishErase(th)
    BY <1>3 DEF PublishErase
  <1>4. CASE PublishCheckMissed(th)
    BY <1>4 DEF PublishCheckMissed, MayNotPublish
  <1>5. CASE PublishSend(th)
    BY <1>5 DEF PublishSend
  <1> QED  BY <1>1, <1>2, <1>3, <1>4, <1>5 DEF Publish

\* A regular call takes its topic out of v_remain_pubtopic_ before it sends.
LEMMA PublishTaken ==
    ASSUME TypeOK, PublishInv, TakenInv, NEW th \in Threads, Publish(th)
    PROVE  TakenInv'
  <1> USE NameAssumption DEF TypeOK, PublishInv, TakenInv,
          manager, notify, spinner, apps, history, PubCall, PubPC, NoCall
  <1>1. ASSUME NEW p \in Outputs, PublishEnter(th, p)  PROVE  TakenInv'
    BY <1>1 DEF PublishEnter
  <1>2. CASE PublishCheckRemain(th)
    BY <1>2 DEF PublishCheckRemain
  <1>3. CASE PublishErase(th)
    BY <1>3 DEF PublishErase, RemoveRemainPubTopic
  <1>4. CASE PublishCheckMissed(th)
    BY <1>4 DEF PublishCheckMissed
  <1>5. CASE PublishSend(th)
    BY <1>5 DEF PublishSend, SourceOf
  <1> QED  BY <1>1, <1>2, <1>3, <1>4, <1>5 DEF Publish

\* A topic the fail-safe function took is not sent by a callback.
LEMMA PublishSource ==
    ASSUME TypeOK, PublishInv, TakenInv, SourceInv, NEW th \in Threads, Publish(th)
    PROVE  SourceInv'
  <1> USE NameAssumption DEF TypeOK, PublishInv, TakenInv, SourceInv, FailSafeHas,
          manager, notify, spinner, apps, history, PubCall, PubPC, NoCall
  <1>1. ASSUME NEW p \in Outputs, PublishEnter(th, p)  PROVE  SourceInv'
    BY <1>1 DEF PublishEnter
  <1>2. CASE PublishCheckRemain(th)
    BY <1>2 DEF PublishCheckRemain, IsRemainPubTopic
  <1>3. CASE PublishErase(th)
    BY <1>3 DEF PublishErase
  <1>4. CASE PublishCheckMissed(th)
    BY <1>4 DEF PublishCheckMissed, MayNotPublish
  <1>5. CASE PublishSend(th)
    BY <1>5 DEF PublishSend, SourceOf
  <1> QED  BY <1>1, <1>2, <1>3, <1>4, <1>5 DEF Publish

-----------------------------------------------------------------------------
(* The theorems.                                                           *)

\* ros::init establishes the inductive invariant.
LEMMA InitInv == Init => IInv
  <1> SUFFICES ASSUME Init  PROVE IInv
    OBVIOUS
  <1>1. TypeOK
    BY TypeInit
  <1>2. StructInv /\ SerialInv /\ FailSafeInv /\ AffinityInv /\ BudgetInv /\ FreshInv
    BY DEF Init, StructInv, SerialInv, FailSafeInv, AffinityInv, BudgetInv, FreshInv,
           Waiting, Blocked
  <1>3. PublishInv /\ LateInv /\ TakenInv /\ SourceInv
    BY DEF Init, PublishInv, LateInv, TakenInv, SourceInv, FailSafeHas, NoCall
  <1> QED  BY <1>1, <1>2, <1>3 DEF IInv

\* Every step of the spinner, of an application thread and of publish() keeps
\* the inductive invariant.
LEMMA StepInv == IInv /\ [Next]_vars => IInv'
  <1> SUFFICES ASSUME IInv, [Next]_vars  PROVE IInv'
    OBVIOUS
  <1> USE DEF IInv
  <1>1. CASE CallStart \/ SpinnerStep
    BY <1>1, SpinnerType, SpinnerFlags, SpinnerBudget, SpinnerSerial, SpinnerPublish,
       SpinnerLate, SpinnerSource
  <1>2. ASSUME NEW a \in Apps, AppThread(a)  PROVE IInv'
    BY <1>2, AppType, AppSerial, AppRest
  <1>3. ASSUME NEW th \in Threads, Publish(th)  PROVE IInv'
    BY <1>3, PublishType, PublishRest, PublishBranch, PublishLate, PublishTaken,
       PublishSource
  <1>4. CASE UNCHANGED vars
    <2> USE <1>4 DEF vars, manager, notify, spinner, apps, history
    <2>1. TypeOK' /\ StructInv' /\ SerialInv' /\ PublishInv'
      BY DEF TypeOK, StructInv, SerialInv, PublishInv, InUserCode
    <2>2. LateInv' /\ TakenInv' /\ SourceInv'
      BY DEF LateInv, TakenInv, SourceInv, FailSafeHas
    <2>3. FailSafeInv' /\ AffinityInv' /\ BudgetInv' /\ FreshInv'
      BY DEF FailSafeInv, AffinityInv, BudgetInv, FreshInv
    <2> QED  BY <2>1, <2>2, <2>3
  <1> QED  BY <1>1, <1>2, <1>3, <1>4 DEF Next

\* The inductive invariant holds in every reachable state of the supervision.
THEOREM InvariantHolds == Spec => []IInv
  <1>1. QED  BY InitInv, StepInv, PTL DEF Spec

\* Types; the poll budget stays within run_time when no elapsed time overflows.
THEOREM TypeCorrect == Spec => []TypeOK
  <1>1. IInv => TypeOK
    BY DEF IInv
  <1>2. QED  BY <1>1, InvariantHolds, PTL

\* While poll() does not fail, callbacks run one at a time although each has a
\* thread of its own (SubscriptionQueue::call).
THEOREM CallbacksAreSerial == Spec => []CallbacksSerial
  <1>1. IInv => CallbacksSerial
    BY DEF IInv, SerialInv, CallbacksSerial, Blocked
  <1>2. QED  BY <1>1, InvariantHolds, PTL

\* While poll() does not fail, update() reports the end of the callback the call
\* started, never a stale byte (waitAppThread).
THEOREM CompletionsAreReal == Spec => []CompletionIsReal
  <1>1. IInv => CompletionIsReal
    BY DEF IInv, SerialInv, CompletionIsReal
  <1>2. QED  BY <1>1, InvariantHolds, PTL

\* A publish call that starts after a deadline miss and outside the fail-safe
\* function is dropped (Publisher::publish).
THEOREM LateCallsAreDropped == Spec => []LateCallsDropped
  <1>1. IInv => LateCallsDropped
    BY DEF IInv, LateInv, LateCallsDropped
  <1>2. QED  BY <1>1, InvariantHolds, PTL

\* In a round no topic is sent both by a regular callback publish and by the
\* fail-safe function.
THEOREM TopicsHaveOneSource == Spec => []OneSource
  <1>1. IInv => OneSource
    BY DEF IInv, SourceInv, FailSafeHas, OneSource
  <1>2. QED  BY <1>1, InvariantHolds, PTL

\* The fail-safe function runs at most once a round, poll errors included.
THEOREM FailSafeRunsOnce == Spec => []FailSafeOnce
  <1>1. IInv => FailSafeOnce
    BY DEF IInv, FailSafeInv, FailSafeOnce
  <1>2. QED  BY <1>1, InvariantHolds, PTL

\* No callback is started on the widened CPU mask, poll errors included.
THEOREM AffinityIsRestored == Spec => []AffinityRestored
  <1>1. IInv => AffinityRestored
    BY DEF IInv, TypeOK, AffinityInv, AffinityRestored, CpuMask
  <1>2. QED  BY <1>1, InvariantHolds, PTL

\* After a miss the round has no budget left (subPollTime).
THEOREM MissesExhaustBudget == Spec => []MissExhaustsBudget
  <1>1. IInv => MissExhaustsBudget
    BY DEF IInv, BudgetInv, MissExhaustsBudget, Waiting, Blocked
  <1>2. QED  BY <1>1, InvariantHolds, PTL

\* Every round starts without a miss and with the whole budget.
THEOREM RoundsStartClean == Spec => []RoundStartsClean
  <1>1. IInv => RoundStartsClean
    BY DEF IInv, FreshInv, RoundStartsClean
  <1>2. QED  BY <1>1, InvariantHolds, PTL

=============================================================================
