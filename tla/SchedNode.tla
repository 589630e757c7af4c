----------------------------- MODULE SchedNode -----------------------------
(***************************************************************************)
(* The deadline supervision of one ROS node (ROSCH Scheduler).             *)
(*                                                                         *)
(* A single spinner thread executes SubscriptionQueue::call.  The callback *)
(* of a topic the current round still waits for runs on a fresh, detached  *)
(* application thread while the spinner polls the queue's pipe with the    *)
(* rest of the node's time budget; every other callback runs inline.  When *)
(* the poll does not report the callback's end, the spinner declares a     *)
(* deadline miss, runs the node's fail-safe function (at most once a       *)
(* round) and waits for the callback.  Publisher::publish consults the     *)
(* same, unlocked, process-wide SingletonSchedNodeManager.                 *)
(*                                                                         *)
(* A round ends when every topic of v_subtopic has been received once.     *)
(* Which message arrives when is left open (module Subscription has        *)
(* the queue itself); what a callback publishes is left open too.          *)
(***************************************************************************)
EXTENDS Integers

CONSTANTS
    None,         \* no thread, no topic
    Spinner,      \* the thread in ros::spin()
    Apps,         \* application threads that may exist at one time (bound)
    SubTopics,    \* node_info_.v_subtopic
    OtherTopics,  \* subscribed topics the node graph does not list
    PubTopics,    \* node_info_.v_pubtopic
    OtherOutputs, \* advertised topics the node graph does not list
    RunTime,      \* v_sched_info.at(0).run_time, in ms
    MaxWall,      \* bound: the longest time a supervised callback takes, in ms
    IntMaxMs,     \* INT_MAX nanoseconds in whole ms (2147 in the code)
    EINTR         \* may poll() fail, e.g. interrupted by a signal handler?

Threads == Apps \cup {Spinner}
Topics  == SubTopics \cup OtherTopics
Outputs == PubTopics \cup OtherOutputs

ASSUME NameAssumption ==
    /\ Spinner \notin Apps
    /\ None \notin Threads \cup Topics \cup Outputs
    /\ SubTopics \cap OtherTopics = {}
    /\ PubTopics \cap OtherOutputs = {}

ASSUME TimeAssumption ==
    /\ RunTime \in Nat /\ MaxWall \in Nat /\ IntMaxMs \in Nat
    /\ RunTime <= MaxWall
    /\ EINTR \in BOOLEAN

VARIABLES
    \* SingletonSchedNodeManager, one per process, without a lock
    remain_subtopic, remain_pubtopic,
    poll_time, missed_deadline, running_fail_safe, ran_fail_safe,
    publish_even,     \* publish_even_if_missed_deadline_
    \* EventNotification, one per SubscriptionQueue
    pipe,             \* the topics whose signal pipe holds a byte
    signal_mutex,     \* topic |-> the thread that holds the mutex, or None
    \* the spinner in call and waitAppThread
    spc, topic, mine, timed_out, affinity,
    \* the application threads, and the publish call each thread is in
    apc, app_topic, app_affinity, pub,
    \* history of the current round: who sent a topic, fail-safe runs
    sent, fs_runs

manager == <<remain_subtopic, remain_pubtopic, poll_time, missed_deadline,
             running_fail_safe, ran_fail_safe, publish_even>>
notify  == <<pipe, signal_mutex>>
spinner == <<spc, topic, mine, timed_out, affinity>>
apps    == <<apc, app_topic, app_affinity>>
history == <<sent, fs_runs>>
vars    == <<manager, notify, spinner, apps, pub, history>>

SpinnerPC == {"idle", "inline", "poll", "drain_first", "missed", "choose",
              "fail_safe", "demote", "wait", "drain_wait", "elapsed",
              "after", "reset"}
AppPC     == {"none", "run", "signal", "write", "unlock"}
PubPC     == {"none", "check_remain", "erase", "check_missed", "send"}
Source    == {"callback", "fail_safe", "window"}
CpuMask   == {"reserved", "all"}   \* getUseCores(), or every core

\* fs: isRunningFailSafeFunction() was true when the call entered;
\* late: it entered after a deadline miss and outside the function (history).
PubCall == [pc : PubPC, topic : Outputs \cup {None}, fs : BOOLEAN, late : BOOLEAN]
NoCall  == [pc |-> "none", topic |-> None, fs |-> FALSE, late |-> FALSE]

-----------------------------------------------------------------------------
(* Publisher::publish, executed by thread th, one shared access a step.    *)

\* The thread executes user code that may publish: an application thread in
\* its callback, the spinner in an inline callback or in the function func.
InUserCode(th) ==
    \/ th = Spinner /\ spc \in {"inline", "fail_safe"}
    \/ th \in Apps /\ apc[th] = "run"

PublishEnter(th, p) ==
    /\ InUserCode(th)
    /\ pub[th].pc = "none"
    /\ pub' = [pub EXCEPT ![th] =
                 [pc    |-> IF running_fail_safe THEN "check_remain" ELSE "erase",
                  topic |-> p,
                  fs    |-> running_fail_safe,
                  late  |-> missed_deadline /\ ~running_fail_safe]]
    /\ UNCHANGED <<manager, notify, spinner, apps, history>>

\* isRemainPubTopic() answers yes, or no.  The vector has no lock: a walk that
\* overlaps another thread's erase may step over an element.
IsRemainPubTopic(p) == p \in remain_pubtopic
MayNotFind(th, p) ==
    \/ ~IsRemainPubTopic(p)
    \/ \E o \in Threads \ {th} : pub[o].pc = "erase"

PublishCheckRemain(th) ==
    /\ pub[th].pc = "check_remain"
    /\ \/ /\ IsRemainPubTopic(pub[th].topic)
          /\ pub' = [pub EXCEPT ![th].pc = "send"]
       \/ /\ MayNotFind(th, pub[th].topic)
          /\ pub' = [pub EXCEPT ![th] = NoCall]
    /\ UNCHANGED <<manager, notify, spinner, apps, history>>

\* removeRemainPubTopic(); publish() does not use its result.
RemovesNothing(p) == remain_pubtopic   \* faulty variant
RemoveRemainPubTopic(p) == remain_pubtopic \ {p}

PublishErase(th) ==
    /\ pub[th].pc = "erase"
    /\ remain_pubtopic' = RemoveRemainPubTopic(pub[th].topic)
    /\ pub' = [pub EXCEPT ![th].pc = "check_missed"]
    /\ UNCHANGED <<remain_subtopic, poll_time, missed_deadline,
                   running_fail_safe, ran_fail_safe, publish_even,
                   notify, spinner, apps, history>>

IgnoresMiss == FALSE   \* faulty variant
MayNotPublish == missed_deadline /\ ~publish_even

PublishCheckMissed(th) ==
    /\ pub[th].pc = "check_missed"
    /\ pub' = [pub EXCEPT ![th] =
                 IF MayNotPublish THEN NoCall ELSE [@ EXCEPT !.pc = "send"]]
    /\ UNCHANGED <<manager, notify, spinner, apps, history>>

\* A callback that took the fail-safe branch went through the "window" in
\* which the function happened to run on the spinner.
SourceOf(th) ==
    CASE ~pub[th].fs                 -> "callback"
      [] pub[th].fs /\ th = Spinner  -> "fail_safe"
      [] pub[th].fs /\ th # Spinner  -> "window"

\* TopicManager::publish hands the message over; the publisher is valid.
PublishSend(th) ==
    /\ pub[th].pc = "send"
    /\ sent' = [sent EXCEPT ![pub[th].topic] = @ \cup {SourceOf(th)}]
    /\ pub' = [pub EXCEPT ![th] = NoCall]
    /\ UNCHANGED <<manager, notify, spinner, apps, fs_runs>>

Publish(th) ==
    \/ \E p \in Outputs : PublishEnter(th, p)
    \/ PublishCheckRemain(th)
    \/ PublishErase(th)
    \/ PublishCheckMissed(th)
    \/ PublishSend(th)

-----------------------------------------------------------------------------
(* SubscriptionQueue::call: the supervised and the inline callback.        *)

GoTo(pc) == spc' = pc

\* removeRemainSubTopic() succeeds: the callback gets a thread of its own,
\* which inherits the CPU mask of its creator.
CallSupervised(t, a) ==
    /\ spc = "idle" /\ apc[a] = "none"
    /\ t \in remain_subtopic
    /\ remain_subtopic' = remain_subtopic \ {t}
    /\ GoTo("poll")
    /\ topic' = t
    /\ mine' = a
    /\ apc' = [apc EXCEPT ![a] = "run"]
    /\ app_topic' = [app_topic EXCEPT ![a] = t]
    /\ app_affinity' = [app_affinity EXCEPT ![a] = affinity]
    /\ UNCHANGED <<remain_pubtopic, poll_time, missed_deadline, running_fail_safe,
                   ran_fail_safe, publish_even, notify, timed_out, affinity,
                   pub, history>>

\* The topic is not in the node graph, or was already received this round.
CallInline(t) ==
    /\ spc = "idle"
    /\ t \notin remain_subtopic
    /\ GoTo("inline")
    /\ topic' = t
    /\ UNCHANGED <<manager, notify, mine, timed_out, affinity, apps, pub, history>>

InlineReturn ==
    /\ spc = "inline" /\ pub[Spinner].pc = "none"
    /\ GoTo("after")
    /\ UNCHANGED <<manager, notify, topic, mine, timed_out, affinity, apps, pub,
                   history>>

-----------------------------------------------------------------------------
(* SubscriptionQueue::waitAppThread and EventNotification::update.         *)

\* poll() sees the pipe readable; update then drains it (onLocalPipeEvents).
PollReady ==
    /\ spc \in {"poll", "wait"}
    /\ topic \in pipe
    /\ GoTo(IF spc = "poll" THEN "drain_first" ELSE "drain_wait")
    /\ UNCHANGED <<manager, notify, topic, mine, timed_out, affinity, apps, pub,
                   history>>

\* poll(getPollTime()) runs out; poll(-1) never does.
PollTimeout ==
    /\ spc = "poll"
    /\ topic \notin pipe
    /\ GoTo("missed")
    /\ timed_out' = TRUE
    /\ UNCHANGED <<manager, notify, topic, mine, affinity, apps, pub, history>>

\* setCoreAffinity(getUseCores()) after the second update pins the spinner.
StaysWide == affinity   \* faulty variant
SetCoreAffinity == "reserved"

\* poll() returns -1: the first one is taken for a miss, the second one for
\* the end of the callback.  waitAppThread then gives the cores back.
PollError ==
    /\ EINTR
    /\ \/ spc = "poll" /\ GoTo("missed") /\ UNCHANGED affinity
       \/ spc = "wait" /\ GoTo("elapsed") /\ affinity' = SetCoreAffinity
    /\ UNCHANGED <<manager, notify, topic, mine, timed_out, apps, pub, history>>

DrainsNothing == pipe   \* faulty variant
DrainedPipe == pipe \ {topic}

Drain ==
    /\ spc \in {"drain_first", "drain_wait"}
    /\ pipe' = DrainedPipe
    /\ GoTo("elapsed")
    /\ affinity' = IF spc = "drain_wait" THEN SetCoreAffinity ELSE affinity
    /\ UNCHANGED <<manager, signal_mutex, topic, mine, timed_out, apps, pub,
                   history>>

MissedDeadline ==
    /\ spc = "missed"
    /\ missed_deadline' = TRUE
    /\ GoTo("choose")
    /\ UNCHANGED <<remain_subtopic, remain_pubtopic, poll_time, running_fail_safe,
                   ran_fail_safe, publish_even, notify, topic, mine, timed_out,
                   affinity, apps, pub, history>>

ForgetsItRan == TRUE   \* faulty variant
MayRunFailSafe == ~ran_fail_safe

\* runFailSafeFunction() starts, or has already run in this round.
StartFailSafe ==
    /\ spc = "choose"
    /\ IF MayRunFailSafe
       THEN /\ running_fail_safe' = TRUE
            /\ fs_runs' = fs_runs + 1
            /\ GoTo("fail_safe")
       ELSE /\ GoTo("demote")
            /\ UNCHANGED <<running_fail_safe, fs_runs>>
    /\ UNCHANGED <<remain_subtopic, remain_pubtopic, poll_time, missed_deadline,
                   ran_fail_safe, publish_even, notify, topic, mine, timed_out,
                   affinity, apps, pub, sent>>

\* func returns (a NULL func publishes nothing and returns at once).
EndFailSafe ==
    /\ spc = "fail_safe" /\ pub[Spinner].pc = "none"
    /\ running_fail_safe' = FALSE
    /\ ran_fail_safe' = TRUE
    /\ GoTo("demote")
    /\ UNCHANGED <<remain_subtopic, remain_pubtopic, poll_time, missed_deadline,
                   publish_even, notify, topic, mine, timed_out, affinity, apps,
                   pub, history>>

\* faulty variant: the call does not wait for a late callback
SetDefaultSchedulingNoWait ==
    /\ spc = "demote"
    /\ affinity' = "reserved"
    /\ GoTo("elapsed")
    /\ UNCHANGED <<manager, notify, topic, mine, timed_out, apps, pub, history>>

\* setDefaultScheduling(v_pid): every core for the spinner; v_pid is empty,
\* so no thread changes its scheduling class.
SetDefaultScheduling ==
    /\ spc = "demote"
    /\ affinity' = "all"
    /\ GoTo("wait")
    /\ UNCHANGED <<manager, notify, topic, mine, timed_out, apps, pub, history>>

\* elapsed_time_ms: the cast to int applies to the nanoseconds.  Beyond
\* INT_MAX the conversion is undefined; x86 yields INT_MIN, ARM saturates.
ElapsedTimeMs(wall) ==
    IF wall <= IntMaxMs THEN {wall} ELSE {-IntMaxMs, IntMaxMs}

SubPollTimeUnclamped(ms) == poll_time - ms   \* faulty variant
SubPollTime(ms) == IF poll_time - ms < 0 THEN 0 ELSE poll_time - ms

\* A poll that timed out took at least the budget it was given.
FinishWait ==
    /\ spc = "elapsed"
    /\ \E wall \in 0..MaxWall : \E ms \in ElapsedTimeMs(wall) :
         /\ timed_out => wall >= poll_time
         /\ poll_time' = SubPollTime(ms)
    /\ timed_out' = FALSE
    /\ GoTo("after")
    /\ UNCHANGED <<remain_subtopic, remain_pubtopic, missed_deadline,
                   running_fail_safe, ran_fail_safe, publish_even, notify, topic,
                   mine, affinity, apps, pub, history>>

\* call() returns; with every topic received it first starts a new round.
Return ==
    /\ GoTo("idle")
    /\ topic' = None
    /\ mine' = None

RoundComplete == remain_subtopic = {}

CallReturn ==
    /\ spc = "after" /\ ~RoundComplete
    /\ Return
    /\ UNCHANGED <<manager, notify, timed_out, affinity, apps, pub, history>>

\* resetRemainSubTopic(), resetRemainPubTopic()
ResetTopics ==
    /\ spc = "after" /\ RoundComplete
    /\ remain_subtopic' = SubTopics
    /\ remain_pubtopic' = PubTopics
    /\ GoTo("reset")
    /\ UNCHANGED <<poll_time, missed_deadline, running_fail_safe, ran_fail_safe,
                   publish_even, notify, topic, mine, timed_out, affinity, apps,
                   pub, history>>

\* resetPollTime(): a node without subscriptions has no budget.
KeepsPollTime == poll_time   \* faulty variant
ResetPollTime == IF SubTopics # {} THEN RunTime ELSE poll_time

\* resetDeadlineMiss(), resetPollTime(), resetFailSafeFunction()
ResetFlags ==
    /\ spc = "reset"
    /\ missed_deadline' = FALSE
    /\ poll_time' = ResetPollTime
    /\ ran_fail_safe' = FALSE
    /\ Return
    /\ sent' = [p \in Outputs |-> {}]
    /\ fs_runs' = 0
    /\ UNCHANGED <<remain_subtopic, remain_pubtopic, running_fail_safe,
                   publish_even, notify, timed_out, affinity, apps, pub>>

-----------------------------------------------------------------------------
(* SubscriptionQueue::appThread and EventNotification::signal.             *)

AppReturn(a) ==
    /\ apc[a] = "run" /\ pub[a].pc = "none"
    /\ apc' = [apc EXCEPT ![a] = "signal"]
    /\ UNCHANGED <<manager, notify, spinner, app_topic, app_affinity, pub, history>>

Exit(a) ==
    /\ apc' = [apc EXCEPT ![a] = "none"]
    /\ app_topic' = [app_topic EXCEPT ![a] = None]
    /\ app_affinity' = [app_affinity EXCEPT ![a] = "reserved"]

\* scoped_try_lock: the byte is written only by the thread that gets the
\* mutex; a thread that finds it taken ends without a signal.
SignalTryLock(a) ==
    /\ apc[a] = "signal"
    /\ IF signal_mutex[app_topic[a]] = None
       THEN /\ signal_mutex' = [signal_mutex EXCEPT ![app_topic[a]] = a]
            /\ apc' = [apc EXCEPT ![a] = "write"]
            /\ UNCHANGED <<app_topic, app_affinity>>
       ELSE /\ Exit(a)
            /\ UNCHANGED signal_mutex
    /\ UNCHANGED <<manager, pipe, spinner, pub, history>>

LosesByte(t) == pipe   \* faulty variant
WriteByte(t) == pipe \cup {t}

SignalWrite(a) ==
    /\ apc[a] = "write"
    /\ pipe' = WriteByte(app_topic[a])
    /\ apc' = [apc EXCEPT ![a] = "unlock"]
    /\ UNCHANGED <<manager, signal_mutex, spinner, app_topic, app_affinity, pub,
                   history>>

SignalUnlock(a) ==
    /\ apc[a] = "unlock"
    /\ signal_mutex' = [signal_mutex EXCEPT ![app_topic[a]] = None]
    /\ Exit(a)
    /\ UNCHANGED <<manager, pipe, spinner, pub, history>>

-----------------------------------------------------------------------------
\* SingletonSchedNodeManager::init as called from ros::init.
Init ==
    /\ remain_subtopic = SubTopics
    /\ remain_pubtopic = PubTopics
    /\ poll_time = IF SubTopics # {} THEN RunTime ELSE 0
    /\ missed_deadline = FALSE
    /\ running_fail_safe = FALSE
    /\ ran_fail_safe = FALSE
    /\ publish_even \in BOOLEAN
    /\ pipe = {}
    /\ signal_mutex = [t \in Topics |-> None]
    /\ spc = "idle" /\ topic = None /\ mine = None
    /\ timed_out = FALSE
    /\ affinity = "reserved"
    /\ apc = [a \in Apps |-> "none"]
    /\ app_topic = [a \in Apps |-> None]
    /\ app_affinity = [a \in Apps |-> "reserved"]
    /\ pub = [th \in Threads |-> NoCall]
    /\ sent = [p \in Outputs |-> {}]
    /\ fs_runs = 0

\* call() is entered again when a message is there; the other steps are the
\* rest of a call that has begun.
CallStart ==
    \/ \E t \in Topics, a \in Apps : CallSupervised(t, a)
    \/ \E t \in Topics : CallInline(t)

SpinnerProgress ==
    \/ InlineReturn \/ PollReady \/ PollTimeout \/ Drain
    \/ MissedDeadline \/ StartFailSafe \/ EndFailSafe \/ SetDefaultScheduling
    \/ FinishWait \/ CallReturn \/ ResetTopics \/ ResetFlags

SpinnerStep == SpinnerProgress \/ PollError

AppThread(a) ==
    AppReturn(a) \/ SignalTryLock(a) \/ SignalWrite(a) \/ SignalUnlock(a)

Next ==
    \/ CallStart
    \/ SpinnerStep
    \/ \E a \in Apps : AppThread(a)
    \/ \E th \in Threads : Publish(th)

Spec == Init /\ [][Next]_vars

\* Threads that can run do run, and user code publishes finitely often before
\* it returns.  Nothing is assumed about the arrival of messages or signals.
Fairness ==
    /\ WF_vars(SpinnerProgress)
    /\ SF_vars(InlineReturn) /\ SF_vars(EndFailSafe)
    /\ \A a \in Apps : SF_vars(AppReturn(a)) /\ WF_vars(AppThread(a))
    /\ \A th \in Threads : WF_vars(Publish(th))

FairSpec == Spec /\ Fairness

-----------------------------------------------------------------------------
(* Properties.                                                             *)

\* Every variable has its type; the budget never becomes negative and grows
\* past run_time only through the undefined conversion in ElapsedTimeMs.
TypeOK ==
    /\ remain_subtopic \subseteq SubTopics
    /\ remain_pubtopic \subseteq PubTopics
    /\ poll_time \in Nat
    /\ MaxWall <= IntMaxMs => poll_time <= RunTime
    /\ missed_deadline \in BOOLEAN
    /\ running_fail_safe \in BOOLEAN
    /\ ran_fail_safe \in BOOLEAN
    /\ publish_even \in BOOLEAN
    /\ pipe \subseteq Topics
    /\ signal_mutex \in [Topics -> Apps \cup {None}]
    /\ spc \in SpinnerPC
    /\ topic \in Topics \cup {None}
    /\ mine \in Apps \cup {None}
    /\ timed_out \in BOOLEAN
    /\ affinity \in CpuMask
    /\ apc \in [Apps -> AppPC]
    /\ app_topic \in [Apps -> Topics \cup {None}]
    /\ app_affinity \in [Apps -> CpuMask]
    /\ pub \in [Threads -> PubCall]
    /\ sent \in [Outputs -> SUBSET Source]
    /\ fs_runs \in Nat

\* Callbacks do not overlap.  ros::spin() promises user code that one callback
\* runs at a time; moving callbacks to detached threads (call, line 182) keeps
\* that promise only because waitAppThread returns after the callback's signal.
CallbacksSerial ==
    ~EINTR =>
      /\ \A a, b \in Apps : apc[a] = "run" /\ apc[b] = "run" => a = b
      /\ spc \in {"idle", "inline", "after", "reset"} =>
            \A a \in Apps : apc[a] # "run"

\* "Finished before the deadline" is true: when update() reports the event, the
\* callback this very call() started has returned.  No byte of an earlier
\* callback is left in the pipe to be taken for it.
CompletionIsReal ==
    ~EINTR /\ spc \in {"drain_first", "drain_wait", "elapsed"} =>
        apc[mine] \in {"unlock", "none"}

\* A publish call made after the deadline miss, outside the fail-safe function,
\* never sends its message, however it interleaves with the spinner, unless the
\* node asked to publish late (Publisher::publish, lines 79-85).
LateCallsDropped ==
    ~EINTR /\ ~publish_even =>
        \A th \in Threads : pub[th].late => pub[th].pc # "send"

\* In one round a topic is not sent both by a callback's regular publish and by
\* the fail-safe function: v_remain_pubtopic_ hands each topic to one of them.
OneSource ==
    ~EINTR /\ ~publish_even =>
        \A p \in Outputs : ~({"callback", "fail_safe"} \subseteq sent[p])

\* However many callbacks of a round miss the deadline, and however the polls
\* fail, the fail-safe function runs at most once in it.
FailSafeOnce == fs_runs <= 1

\* Between calls the spinner is back on its reserved cores, and every callback
\* thread was created on them: the widened mask of a missed deadline never
\* leaks into the next callback.
AffinityRestored ==
    /\ spc \in {"idle", "inline"} => affinity = "reserved"
    /\ \A a \in Apps : app_affinity[a] = "reserved"

\* A round that has missed its deadline has no budget left: later callbacks of
\* the round are polled with timeout 0.
MissExhaustsBudget ==
    ~EINTR /\ MaxWall <= IntMaxMs /\ spc = "idle" /\ missed_deadline =>
        poll_time = 0

\* A round starts clean: no miss, no fail-safe run and the whole budget, even
\* when a callback of the last round overran by any amount.
RoundStartsClean ==
    spc = "idle" /\ SubTopics # {} /\ remain_subtopic = SubTopics =>
        /\ ~missed_deadline /\ ~ran_fail_safe
        /\ poll_time = RunTime

\* Once the callback's thread has the pipe's mutex, call() returns: through the
\* miss, the fail-safe function and the end of the round.
SignalledCallReturns ==
    \A a \in Apps : (apc[a] = "write" /\ mine = a) ~> spc = "idle"

\* signal() makes a blocked update() finish (event_notification.hpp, line 67):
\* a spinner in poll(-1) returns from call().
CallReturns == (spc = "wait") ~> (spc = "idle")

=============================================================================
