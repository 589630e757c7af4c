--------------------------- MODULE ProcessMonitor ---------------------------
(***************************************************************************)
(* A roslaunch parent: the main thread launches the processes, the monitor *)
(* thread polls them, restarts them and kills them all at the end, XML-RPC *)
(* threads kill single processes, and a signal handler runs in the main    *)
(* thread wherever that happens to be.  The monitor and its killers are    *)
(* daemon threads: they end with the interpreter.                          *)
(***************************************************************************)
EXTENDS Lists, SequencesExt

CONSTANTS Order,     \* the processes in the order of their launch
          Core,      \* those registered by register_core_proc
          Required, Respawn,
          MayFail,   \* processes whose Popen may raise an OSError
          Killable,  \* processes that kill_process may be called for
          None

Procs == Held(Order)

ASSUME LaunchAssumption ==
  /\ Order \in Seq(Procs) /\ NoRepeats(Order)
  /\ Core \cup Required \cup Respawn \cup MayFail \cup Killable \subseteq Procs
  /\ None \notin Procs \cup {"main", "rpc"}

\* _setup launches the master and the core nodes before launch goes on to the
\* others.
ASSUME CoreFirst ==
  \A i, j \in DOMAIN Order : i < j /\ Order[j] \in Core => Order[i] \in Core

VARIABLES
  main,       \* where the main thread is, and the index in Order
  signal,     \* rl_signal: none, handling, handled, stuck
  monitor,    \* where the monitor thread is
  procs, core_procs, is_shutdown, registrations_complete, done,
  todo,       \* the copy of procs that is being polled, then killed
  dead, respawn, again,  \* lists of _run; again is what is left of respawn
  plock,      \* holder of plock
  victim,     \* the process kill_process is about to stop
  killed,     \* kill_process was called (bound: once)
  os,         \* the operating system's process: none, running, exited
  popen, started, stopped, lock,  \* fields of each LocalProcess
  late,       \* processes started after the shutdown had begun
  raised      \* processes whose is_alive raised an exception

runVars  == <<todo, dead, respawn, again>>
listVars == <<procs, core_procs>>
flagVars == <<registrations_complete, done>>
procVars == <<os, popen, started, stopped, lock>>
rpcVars  == <<victim, killed>>
vars == <<main, signal, monitor, listVars, is_shutdown, flagVars, runVars, plock,
          rpcVars, procVars, late, raised>>

\* On to the n-th process, or the launch is complete.
Launch(n) == [at |-> IF n > Len(Order) THEN "complete" ELSE "lock", n |-> n]

Init ==
  /\ main = Launch(1)
  /\ signal = "none" /\ monitor = "copy"
  /\ procs = <<>> /\ core_procs = <<>>
  /\ is_shutdown = FALSE /\ registrations_complete = FALSE /\ done = FALSE
  /\ todo = <<>> /\ dead = <<>> /\ respawn = <<>> /\ again = <<>>
  /\ plock = None /\ victim = None /\ killed = FALSE
  /\ os = [p \in Procs |-> "none"]
  /\ popen = [p \in Procs |-> FALSE]
  /\ started = [p \in Procs |-> FALSE]
  /\ stopped = [p \in Procs |-> FALSE]
  /\ lock = [p \in Procs |-> None]
  /\ late = {} /\ raised = {}

Running(p) == os[p] = "running"

-----------------------------------------------------------------------------
(***************************************************************************)
(* LocalProcess.                                                           *)
(***************************************************************************)

\* stop: SIGINT, SIGTERM and SIGKILL until the process is gone; nothing to
\* kill if there is no popen
stop(p) ==
  /\ lock[p] = None
  /\ os' = IF popen[p] /\ Running(p) THEN [os EXCEPT ![p] = "exited"] ELSE os
  /\ popen' = [popen EXCEPT ![p] = FALSE]
  /\ stopped' = [stopped EXCEPT ![p] = TRUE]
  /\ UNCHANGED <<started, lock>>

\* The monitor's stop and start of a process that has to run again; started
\* is set even if Popen fails
restart(p) ==
  /\ lock[p] = None
  /\ stopped' = [stopped EXCEPT ![p] = FALSE]
  /\ started' = [started EXCEPT ![p] = TRUE]
  /\ \/ os' = [os EXCEPT ![p] = "running"] /\ popen' = [popen EXCEPT ![p] = TRUE]
     \/ /\ p \in MayFail
        /\ os' = [os EXCEPT ![p] = "exited"] /\ popen' = [popen EXCEPT ![p] = FALSE]
  /\ UNCHANGED lock

\* A process ends by itself.
exit(p) ==
  /\ Running(p)
  /\ os' = [os EXCEPT ![p] = "exited"]
  /\ UNCHANGED <<main, signal, monitor, listVars, is_shutdown, flagVars, runVars,
                 plock, rpcVars, popen, started, stopped, lock, late, raised>>

-----------------------------------------------------------------------------
(***************************************************************************)
(* The main thread: ROSLaunchParent.start and spin.                        *)
(***************************************************************************)

p_n == Order[main.n]
MainRuns == signal \in {"none", "handled"}
Goto(l) == main' = [main EXCEPT !.at = l]
MainLeaves == UNCHANGED <<signal, monitor, done, runVars, rpcVars, raised>>

\* register: into the lock ...
register_lock ==
  /\ MainRuns /\ main.at = "lock"
  /\ plock = None /\ plock' = "main"
  /\ Goto("registering")
  /\ MainLeaves /\ UNCHANGED <<listVars, is_shutdown, registrations_complete, procVars, late>>

\* ... and out of it; after the shutdown it raises, and the launch is over
register ==
  /\ MainRuns /\ main.at = "registering"
  /\ plock' = None
  /\ IF is_shutdown
     THEN Goto("abort") /\ UNCHANGED procs
     ELSE /\ procs' = Append(procs, p_n)
          /\ Goto(IF p_n \in Core THEN "core" ELSE "start")
  /\ MainLeaves /\ UNCHANGED <<core_procs, is_shutdown, registrations_complete, procVars, late>>

\* register_core_proc, the rest
register_core_proc ==
  /\ MainRuns /\ main.at = "core"
  /\ core_procs' = Append(core_procs, p_n)
  /\ Goto("start")
  /\ MainLeaves
  /\ UNCHANGED <<procs, is_shutdown, registrations_complete, plock, procVars, late>>

\* LocalProcess.start: into the process' lock ...
start ==
  /\ MainRuns /\ main.at = "start"
  /\ lock[p_n] = None /\ lock' = [lock EXCEPT ![p_n] = "main"]
  /\ started' = [started EXCEPT ![p_n] = FALSE]
  /\ stopped' = [stopped EXCEPT ![p_n] = FALSE]
  /\ Goto("popen")
  /\ MainLeaves
  /\ UNCHANGED <<listVars, is_shutdown, registrations_complete, plock, os, popen, late>>

\* ... and Popen; an OSError becomes FatalProcessLaunch and ends the launch
start_popen ==
  /\ MainRuns /\ main.at = "popen"
  /\ lock' = [lock EXCEPT ![p_n] = None]
  /\ started' = [started EXCEPT ![p_n] = TRUE]
  /\ \/ /\ os' = [os EXCEPT ![p_n] = "running"]
        /\ popen' = [popen EXCEPT ![p_n] = TRUE]
        /\ late' = IF is_shutdown THEN late \cup {p_n} ELSE late
        /\ main' = Launch(main.n + 1)
     \/ /\ p_n \in MayFail /\ Goto("abort")
        /\ UNCHANGED <<os, popen, late>>
  /\ MainLeaves
  /\ UNCHANGED <<listVars, is_shutdown, registrations_complete, plock, stopped>>

complete ==
  /\ MainRuns /\ main.at = "complete"
  /\ registrations_complete' = TRUE
  /\ Goto("spin")
  /\ MainLeaves /\ UNCHANGED <<listVars, is_shutdown, plock, procVars, late>>

\* spin: nothing to do without processes; else wait until the monitor is
\* done; then stop, and join it
spin ==
  /\ MainRuns
  /\ \/ /\ main.at = "spin" /\ plock = None
        /\ Goto(IF procs = <<>> THEN "stop" ELSE "wait") /\ UNCHANGED is_shutdown
     \/ main.at = "wait" /\ done /\ Goto("stop") /\ UNCHANGED is_shutdown
     \/ main.at = "stop" /\ is_shutdown' = TRUE /\ Goto("join")
     \/ main.at = "join" /\ monitor = "end" /\ Goto("exit") /\ UNCHANGED is_shutdown
  /\ MainLeaves /\ UNCHANGED <<listVars, registrations_complete, plock, procVars, late>>

\* The launch failed: pmon_shutdown at exit.  It waits for the monitor (20
\* seconds at most) unless the shutdown has begun already, or the handler
\* has emptied _pmons.
abort ==
  /\ MainRuns
  /\ \/ /\ main.at = "abort"
        /\ is_shutdown' = (is_shutdown \/ signal = "none")
        /\ Goto(IF is_shutdown \/ signal = "handled" THEN "exit" ELSE "aborting")
     \/ main.at = "aborting" /\ Goto("exit") /\ UNCHANGED is_shutdown
  /\ MainLeaves /\ UNCHANGED <<listVars, registrations_complete, plock, procVars, late>>

\* rl_signal interrupts the main thread.  _shutdown_lock is not reentrant:
\* a signal during pmon_shutdown waits for itself.
rl_signal ==
  /\ signal = "none" /\ main.at # "exit"
  /\ signal' = IF main.at = "aborting" THEN "stuck"
               ELSE IF is_shutdown THEN "handled" ELSE "handling"
  /\ is_shutdown' = TRUE
  /\ UNCHANGED <<main, monitor, listVars, flagVars, runVars, plock, rpcVars,
                 procVars, late, raised>>

\* Mutant of joined: join() without a timeout.
joined_only == monitor = "end"

\* join(20.0): the monitor has ended, or the time is over
joined == TRUE

rl_signal_returns ==
  /\ signal = "handling" /\ joined
  /\ signal' = "handled"
  /\ UNCHANGED <<main, monitor, listVars, is_shutdown, flagVars, runVars, plock,
                 rpcVars, procVars, late, raised>>

Main == \/ register_lock \/ register \/ register_core_proc \/ start \/ start_popen
        \/ complete \/ spin \/ abort \/ rl_signal_returns

-----------------------------------------------------------------------------
(***************************************************************************)
(* kill_process, in a thread of the XML-RPC server, holds plock until the  *)
(* process is stopped.                                                     *)
(***************************************************************************)

kill_process(p) ==
  /\ main.at # "exit" /\ ~killed /\ plock = None
  /\ p \in Held(procs)
  /\ plock' = "rpc" /\ victim' = p /\ killed' = TRUE
  /\ UNCHANGED <<main, signal, monitor, listVars, is_shutdown, flagVars, runVars,
                 procVars, late, raised>>

kill_process_stop ==
  /\ main.at # "exit" /\ victim # None
  /\ stop(victim)
  /\ victim' = None /\ plock' = None
  /\ UNCHANGED <<main, signal, monitor, listVars, is_shutdown, flagVars, runVars,
                 killed, late, raised>>

-----------------------------------------------------------------------------
(***************************************************************************)
(* The monitor thread: _run.                                               *)
(***************************************************************************)

On(l) == main.at # "exit" /\ monitor = l
MonitorLeaves == UNCHANGED <<main, signal, core_procs, registrations_complete,
                             plock, rpcVars, late>>

copy_procs ==
  /\ On("copy")
  /\ IF is_shutdown THEN monitor' = "post" /\ UNCHANGED todo
     ELSE plock = None /\ todo' = procs /\ monitor' = "poll"
  /\ MonitorLeaves
  /\ UNCHANGED <<procs, is_shutdown, done, dead, respawn, again, procVars, raised>>

\* Mutant of ends_launch: a process that was killed does not count.
ends_launch_itself(p) == p \in Required /\ ~stopped[p]

\* A death that initiates the shutdown
ends_launch(p) == p \in Required

\* What a death adds to the dead list
note_death(p) ==
  IF ends_launch(p) \/ p \in Held(respawn) THEN dead ELSE Append(dead, p)

\* One turn of the loop is over: on to the next process, or stop polling.
PollNext(shutdown) ==
  /\ todo' = IF shutdown THEN <<>> ELSE Tail(todo)
  /\ is_shutdown' = shutdown
  /\ monitor' = "poll"

\* is_alive, up to the test of popen; a process that is not started is alive
poll ==
  LET p == Head(todo)
      died == started[p] /\ (stopped[p] \/ ~popen[p])
  IN /\ On("poll") /\ todo # <<>>
     /\ IF started[p] /\ ~died
        THEN monitor' = "call" /\ UNCHANGED <<todo, is_shutdown, dead>>
        ELSE /\ PollNext(is_shutdown \/ (died /\ ends_launch(p)))
             /\ dead' = IF died THEN note_death(p) ELSE dead
     /\ MonitorLeaves /\ UNCHANGED <<procs, done, respawn, again, procVars, raised>>

\* popen.poll(): an exception if a stop came in between, which counts as a
\* death of any process
poll_call ==
  LET p == Head(todo) IN
  /\ On("call")
  /\ IF ~popen[p]
     THEN dead' = Append(dead, p) /\ raised' = raised \cup {p} /\ PollNext(is_shutdown)
     ELSE /\ dead' = IF Running(p) THEN dead ELSE note_death(p)
          /\ PollNext(is_shutdown \/ (~Running(p) /\ ends_launch(p)))
          /\ UNCHANGED raised
  /\ MonitorLeaves /\ UNCHANGED <<procs, done, respawn, again, procVars>>

polled ==
  /\ On("poll") /\ todo = <<>>
  /\ monitor' = "bury" /\ again' = dead
  /\ MonitorLeaves
  /\ UNCHANGED <<procs, is_shutdown, done, todo, dead, respawn, procVars, raised>>

\* should_respawn() of a dead process is true: the time left, not zero
should_respawn(p) == p \in Respawn

\* The dead: to the respawn list, or unregistered and stopped
bury ==
  LET p == Head(again) IN
  /\ On("bury") /\ again # <<>>
  /\ again' = Tail(again)
  /\ IF should_respawn(p)
     THEN respawn' = Append(respawn, p) /\ UNCHANGED <<procs, procVars>>
     ELSE /\ plock = None
          /\ IF p \in Held(procs)
             THEN procs' = Filter(procs, Procs \ {p}) /\ stop(p)
             ELSE UNCHANGED <<procs, procVars>>
          /\ UNCHANGED respawn
  /\ MonitorLeaves /\ UNCHANGED <<monitor, is_shutdown, done, todo, dead, raised>>

\* The check for the end of the launch is made once something has died.
all_died == dead # <<>> /\ procs = <<>> /\ respawn = <<>>

buried ==
  /\ On("bury") /\ again = <<>>
  /\ is_shutdown' = (is_shutdown \/ (registrations_complete /\ all_died))
  /\ dead' = <<>> /\ again' = respawn /\ respawn' = <<>>
  /\ monitor' = "respawn"
  /\ MonitorLeaves /\ UNCHANGED <<procs, done, todo, procVars, raised>>

\* should_respawn() <= 0.0, which a process that is alive satisfies too
respawn_now ==
  /\ On("respawn") /\ again # <<>> /\ ~is_shutdown
  /\ restart(Head(again))
  /\ again' = Tail(again)
  /\ MonitorLeaves
  /\ UNCHANGED <<monitor, procs, is_shutdown, done, todo, dead, respawn, raised>>

\* The respawn delay is not over.
respawn_later ==
  /\ On("respawn") /\ again # <<>> /\ ~is_shutdown
  /\ ~Running(Head(again))
  /\ respawn' = Append(respawn, Head(again)) /\ again' = Tail(again)
  /\ MonitorLeaves
  /\ UNCHANGED <<monitor, procs, is_shutdown, done, todo, dead, procVars, raised>>

respawned ==
  /\ On("respawn")
  /\ again = <<>> \/ is_shutdown
  /\ monitor' = "copy" /\ again' = <<>>
  /\ MonitorLeaves
  /\ UNCHANGED <<procs, is_shutdown, done, todo, dead, respawn, procVars, raised>>

(***************************************************************************)
(* _post_run.                                                              *)
(***************************************************************************)

\* Mutant of core_to_kill: range(len - 1, 0, -1) spares the master.
core_but_first == Reverse(SubSeq(core_procs, 2, Len(core_procs)))

core_to_kill == Reverse(core_procs)

\* The processes to kill: in todo the ordinary ones, in again the core ones
post_run ==
  /\ On("post") /\ plock = None
  /\ todo' = Reverse(Filter(procs, Procs \ Held(core_procs)))
  /\ again' = core_to_kill
  /\ is_shutdown' = TRUE /\ monitor' = "kill"
  /\ MonitorLeaves /\ UNCHANGED <<procs, done, dead, respawn, procVars, raised>>

\* _ProcessKiller: ten threads, so the order is open
kill(p) ==
  /\ On("kill") /\ p \in Held(todo)
  /\ stop(p)
  /\ todo' = Filter(todo, Procs \ {p})
  /\ MonitorLeaves
  /\ UNCHANGED <<monitor, procs, is_shutdown, done, dead, respawn, again, raised>>

\* Mutant of killers_done: the core is killed at once.
not_waiting == TRUE

\* q.join()
killers_done == todo = <<>>

\* The core processes, the last one first
kill_core ==
  /\ On("kill") /\ killers_done /\ again # <<>>
  /\ stop(Head(again))
  /\ again' = Tail(again)
  /\ MonitorLeaves
  /\ UNCHANGED <<monitor, procs, is_shutdown, done, todo, dead, respawn, raised>>

post_run_done ==
  /\ On("kill") /\ killers_done /\ again = <<>> /\ plock = None
  /\ procs' = <<>> /\ core_procs' = <<>>
  /\ done' = TRUE /\ monitor' = "end"
  /\ UNCHANGED <<main, signal, registrations_complete, plock, rpcVars, is_shutdown,
                 runVars, procVars, late, raised>>

Monitor == \/ copy_procs \/ poll \/ poll_call \/ polled \/ bury \/ buried
           \/ respawn_now \/ respawn_later \/ respawned
           \/ post_run \/ (\E p \in Procs : kill(p)) \/ kill_core \/ post_run_done

Next == \/ Main \/ Monitor \/ rl_signal \/ kill_process_stop
        \/ \E p \in Killable : kill_process(p)
        \/ \E p \in Procs : exit(p)

\* The threads run and respawn delays end; nobody has to send a signal, to
\* call kill_process or to exit.
Fairness ==
  /\ WF_vars(Main) /\ WF_vars(Monitor) /\ WF_vars(kill_process_stop)
  /\ SF_vars(respawn_now)

Spec == Init /\ [][Next]_vars /\ Fairness

-----------------------------------------------------------------------------
(***************************************************************************)
(* Properties.                                                             *)
(***************************************************************************)

\* The lists hold every process once, and a process is stopped by kill_process
\* only under plock.
TypeOK ==
  /\ main.n \in 1..(Len(Order) + 1)
  /\ procs \in Seq(Procs) /\ NoRepeats(procs)
  /\ core_procs \in Seq(Core) /\ NoRepeats(core_procs)
  /\ {dead, respawn, again, todo} \subseteq Seq(Procs)
  /\ plock \in {None, "main", "rpc"}
  /\ \A p \in Procs : lock[p] \in {None, "main"}
  /\ (done => monitor = "end") /\ (victim # None => plock = "rpc")

(***************************************************************************)
(* The monitor leaves nothing behind: when it has ended no process runs.   *)
(* A process that was being launched when the shutdown began is excepted:  *)
(* its start() may come after its stop().                                  *)
(***************************************************************************)
NothingLeft ==
  monitor = "end" => \A p \in Procs : Running(p) => p \in late

(***************************************************************************)
(* Core processes are killed after all others, in reverse order in which   *)
(* they were added: once a core process was stopped by the shutdown, what  *)
(* still runs are core processes registered before it.                     *)
(***************************************************************************)
CoreLast ==
  TypeOK /\ (monitor = "kill" =>
    \A i \in DOMAIN core_procs : i > Len(again) =>
      \A p \in Procs : Running(p) /\ p \notin late =>
        \E j \in DOMAIN core_procs : j < i /\ core_procs[j] = p)

(***************************************************************************)
(* The death of a required process shuts the launch down, unless is_alive  *)
(* raised and the process was taken for an ordinary one.                   *)
(***************************************************************************)
RequiredStops ==
  \A p \in Required :
    (started[p] /\ os[p] = "exited") ~> (is_shutdown \/ p \in raised)

(***************************************************************************)
(* After a shutdown, and when no process is left to monitor, roslaunch     *)
(* exits: no thread waits for ever for a lock that another one holds while *)
(* waiting for it.  A signal during the shutdown of a failed launch is the *)
(* exception.                                                              *)
(***************************************************************************)
Exits ==
  (is_shutdown \/ (registrations_complete /\ procs = <<>>))
    ~> (main.at = "exit" \/ signal = "stuck")
=============================================================================
