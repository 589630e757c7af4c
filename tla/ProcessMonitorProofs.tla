------------------------ MODULE ProcessMonitorProofs ------------------------
(***************************************************************************)
(* Proofs about roslaunch: when the monitor has ended nothing is left      *)
(* running, and core processes are stopped after all others, for any       *)
(* processes, any of which may be required, respawned, killed by a call,   *)
(* exit or fail to start.                                                  *)
(***************************************************************************)
EXTENDS ProcessMonitor, ListProofs

-----------------------------------------------------------------------------
(* The inductive invariant.                                                *)

Launching == {"lock", "registering", "core", "start", "popen"}

MainType ==
  /\ main \in [at : Launching \cup {"complete", "spin", "wait", "stop", "join", "abort",
                                    "aborting", "exit"},
               n : 1..(Len(Order) + 1)]
  /\ main.at \in Launching => main.n \in DOMAIN Order

ListType ==
  /\ procs \in Seq(Procs) /\ NoRepeats(procs)
  /\ core_procs \in Seq(Core) /\ NoRepeats(core_procs)
  /\ todo \in Seq(Procs) /\ dead \in Seq(Procs)
  /\ respawn \in Seq(Procs) /\ again \in Seq(Procs)

ProcType ==
  /\ os \in [Procs -> {"none", "running", "exited"}]
  /\ popen \in [Procs -> BOOLEAN] /\ started \in [Procs -> BOOLEAN]
  /\ stopped \in [Procs -> BOOLEAN] /\ lock \in [Procs -> {None, "main"}]

\* plock is held by a registration, or by the call that stops a victim.
LockInv ==
  /\ plock \in {None, "main", "rpc"} /\ victim \in Procs \cup {None}
  /\ main.at = "registering" => plock = "main"
  /\ victim # None => plock = "rpc"

\* The shutdown precedes _post_run, and done comes at its end.
ShutdownInv ==
  /\ is_shutdown \in BOOLEAN
  /\ monitor \in {"post", "kill", "end"} => is_shutdown
  /\ monitor = "end" => procs = <<>>
  /\ done => monitor = "end"

\* The j-th process is yet to be launched, or to be registered.
Fresh(j) == j > main.n \/ (j = main.n /\ main.at \in Launching)
Unregistered(j) == j > main.n \/ (j = main.n /\ main.at \in {"lock", "registering"})

\* The monitor does not touch a process before it was launched.
FreshInv ==
  \A j \in DOMAIN Order : Fresh(j) =>
    /\ ~Running(Order[j]) /\ ~started[Order[j]]
    /\ Order[j] \notin Held(dead) /\ Order[j] \notin Held(respawn)
    /\ monitor # "kill" => Order[j] \notin Held(again)

\* Registration comes before the launch.
RegisterInv ==
  /\ \A j \in DOMAIN Order :
       Unregistered(j) => Order[j] \notin Held(procs) /\ Order[j] \notin Held(core_procs)
  /\ main.at \in {"core", "start", "popen"} /\ monitor # "end" => p_n \in Held(procs)
  /\ main.at = "core" => p_n \in Core /\ p_n \notin Held(core_procs)

\* What popen.poll() is called for was started.
CallInv == monitor = "call" => todo # <<>> /\ started[Head(todo)]

\* What runs has a popen, and a place in procs unless it was started late.
RunInv == \A p \in Procs : Running(p) => popen[p] /\ (p \in late \/ p \in Held(procs))

\* A process to be restarted stays in procs.
RespawnInv ==
  /\ Held(respawn) \subseteq Respawn
  /\ monitor = "respawn" => Held(again) \subseteq Respawn
  /\ monitor \notin {"kill", "end"} =>
       Respawn \cap (Held(todo) \cup Held(dead) \cup Held(respawn) \cup Held(again))
         \subseteq Held(procs)

\* A registered core process is in core_procs, or just about to be.
CoreInv ==
  \A p \in Held(procs) : p \in Core =>
    p \in Held(core_procs) \/ (main.at = "core" /\ p = p_n)

\* What still has to be killed is in todo or in again, the latter the core
\* processes that are left, in reverse order; once one of them was stopped, or
\* was not yet in core_procs when _post_run copied it, only core ones are left.
KillInv ==
  monitor = "kill" =>
    /\ \A p \in Procs : Running(p) /\ p \notin late => p \in Held(todo) \/ p \in Held(again)
    /\ Len(again) <= Len(core_procs)
    /\ \A m \in 1..Len(again) : again[m] = core_procs[Len(again) + 1 - m]
    /\ Len(again) < Len(core_procs) =>
         \A p \in Procs : Running(p) /\ p \notin late => p \in Core
    /\ \A p \in Held(todo) : p \in Core /\ Running(p) => p \in late

IInv == /\ MainType /\ ListType /\ ProcType /\ LockInv /\ ShutdownInv /\ FreshInv
        /\ RegisterInv /\ CallInv /\ RunInv /\ RespawnInv /\ CoreInv /\ KillInv

\* The properties follow.
LEMMA InvImplies == ASSUME IInv  PROVE NothingLeft /\ CoreLast
  <1> USE DEF IInv
  <1>1. TypeOK
    <2>1. main.n \in 1..(Len(Order) + 1)  BY DEF MainType
    <2>2. \A p \in Procs : lock[p] \in {None, "main"}  BY DEF ProcType
    <2>3. QED  BY <2>1, <2>2 DEF TypeOK, ListType, LockInv, ShutdownInv
  <1>2. CoreLast
    <2>1. SUFFICES ASSUME monitor = "kill", NEW i \in DOMAIN core_procs, i > Len(again),
                          NEW p \in Procs, Running(p), p \notin late
                   PROVE  \E j \in DOMAIN core_procs : j < i /\ core_procs[j] = p
      BY <1>1 DEF CoreLast
    <2>2. /\ DOMAIN core_procs = 1..Len(core_procs) /\ Len(core_procs) \in Nat
          /\ DOMAIN again = 1..Len(again) /\ Len(again) \in Nat
      BY LenProperties DEF ListType
    <2>3. p \in Core  BY <2>1, <2>2 DEF KillInv
    <2>4. p \in Held(again)  BY <2>1, <2>3 DEF KillInv
    <2>5. PICK m \in 1..Len(again) : again[m] = p  BY <2>2, <2>4 DEF Held
    <2>6. core_procs[Len(again) + 1 - m] = p  BY <2>1, <2>5 DEF KillInv
    <2>7. Len(again) + 1 - m \in 1..Len(core_procs) /\ Len(again) + 1 - m < i
      BY <2>1, <2>2, <2>5
    <2>8. QED  BY <2>2, <2>6, <2>7
  <1>3. NothingLeft
    <2>1. monitor = "end" => Held(procs) = {}  BY EmptySeq DEF ShutdownInv, Held
    <2>2. QED  BY <2>1 DEF NothingLeft, RunInv
  <1>4. QED  BY <1>2, <1>3

-----------------------------------------------------------------------------
(* Lists.                                                                  *)

\* The head of a list and its rest.
LEMMA HeldTail ==
    ASSUME NEW S, NEW s \in Seq(S), s # <<>>
    PROVE  /\ Head(s) \in S /\ Tail(s) \in Seq(S) /\ Head(s) \in Held(s)
           /\ Held(s) = Held(Tail(s)) \cup {Head(s)}
           /\ Len(Tail(s)) = Len(s) - 1
           /\ \A i \in 1..Len(Tail(s)) : Tail(s)[i] = s[i + 1]
  <1>1. /\ Head(s) \in S /\ Tail(s) \in Seq(S) /\ Len(Tail(s)) = Len(s) - 1
        /\ \A i \in 1..Len(Tail(s)) : Tail(s)[i] = s[i + 1]
    BY HeadTailProperties
  <1>2. /\ DOMAIN s = 1..Len(s) /\ Len(s) \in Nat /\ Len(s) # 0
        /\ DOMAIN Tail(s) = 1..Len(Tail(s)) /\ Head(s) = s[1]
    BY <1>1, LenProperties, EmptySeq
  <1>3. \A i \in 1..Len(s) : i = 1 \/ (i - 1 \in 1..Len(Tail(s)) /\ s[i] = Tail(s)[i - 1])
    BY <1>1, <1>2
  <1>4. \A i \in 1..Len(Tail(s)) : i + 1 \in 1..Len(s)  BY <1>1, <1>2
  <1>5. Head(s) \in Held(s)  BY <1>2 DEF Held
  <1>6. Held(Tail(s)) \subseteq Held(s)  BY <1>1, <1>2, <1>4 DEF Held
  <1>7. Held(s) \subseteq Held(Tail(s)) \cup {Head(s)}  BY <1>2, <1>3, ZenonT(40) DEF Held
  <1>8. QED  BY <1>1, <1>5, <1>6, <1>7

\* A list backwards.
LEMMA HeldReverse ==
    ASSUME NEW S, NEW s \in Seq(S)
    PROVE  /\ Reverse(s) \in Seq(S) /\ Held(Reverse(s)) = Held(s)
           /\ Len(Reverse(s)) = Len(s)
           /\ \A i \in 1..Len(s) : Reverse(s)[i] = s[Len(s) + 1 - i]
  <1>1. PICK n \in Nat : n = Len(s) /\ DOMAIN s = 1..n /\ s \in [1..n -> S]
    BY LenProperties
  <1>2. \A i \in 1..n : n - i + 1 \in 1..n /\ n - i + 1 = n + 1 - i /\ n + 1 - (n + 1 - i) = i
    OBVIOUS
  <1>3. Reverse(s) = [i \in 1..n |-> s[(n - i) + 1]]  BY <1>1 DEF Reverse
  <1>4. Reverse(s) \in [1..n -> S]  BY <1>1, <1>2, <1>3
  <1>5. Reverse(s) \in Seq(S) /\ Len(Reverse(s)) = n /\ DOMAIN Reverse(s) = 1..n
    BY <1>4, SeqDef, LenProperties
  <1>6. \A i \in 1..n : Reverse(s)[i] = s[n + 1 - i]  BY <1>2, <1>3
  <1>7. \A i \in 1..n : s[i] = Reverse(s)[n + 1 - i]  BY <1>2, <1>6
  <1>8. Held(Reverse(s)) = Held(s)  BY <1>1, <1>2, <1>5, <1>6, <1>7, SMTT(40) DEF Held
  <1>9. QED  BY <1>1, <1>5, <1>6, <1>8

-----------------------------------------------------------------------------
(* Steps of the main thread that launch nothing, and of its signal handler. *)

\* What the constants have to do with each other.
LEMMA Launched ==
    /\ Len(Order) \in Nat /\ DOMAIN Order = 1..Len(Order)
    /\ \A j \in DOMAIN Order : Order[j] \in Procs
    /\ \A p \in Procs : \E j \in DOMAIN Order : Order[j] = p
    /\ \A i, j \in DOMAIN Order : Order[i] = Order[j] => i = j
    /\ Core \subseteq Procs /\ Respawn \subseteq Procs
  BY LaunchAssumption, LenProperties DEF Procs, Held, NoRepeats

\* The process that is being launched.
LEMMA BeingLaunched ==
    ASSUME MainType, main.at \in Launching
    PROVE  /\ main.n \in DOMAIN Order /\ p_n \in Procs /\ Fresh(main.n)
           /\ \A j \in DOMAIN Order : Order[j] = p_n <=> j = main.n
  BY Launched DEF MainType, p_n, Fresh

\* The main thread moves on after the launch, or the shutdown begins.
LEMMA AsideStep ==
    ASSUME IInv, UNCHANGED <<monitor, listVars, done, runVars, plock, victim, procVars, late>>,
           is_shutdown' \in BOOLEAN, is_shutdown => is_shutdown',
           MainType', main'.n = main.n,
           main' = main \/ (main.at \notin Launching /\ main'.at \notin Launching)
    PROVE  IInv'
  <1> USE DEF IInv, listVars, runVars, procVars
  <1>1. ListType' /\ ProcType'  BY DEF ListType, ProcType
  <1>2. LockInv' /\ ShutdownInv'  BY DEF LockInv, ShutdownInv, Launching
  <1>3. \A j : (Fresh(j)' <=> Fresh(j)) /\ (Unregistered(j)' <=> Unregistered(j))
    BY DEF Fresh, Unregistered, Launching
  <1>4. p_n' = p_n  BY DEF p_n
  <1>5. FreshInv'  BY <1>3 DEF FreshInv, Running
  <1>6. RegisterInv'  BY <1>3, <1>4 DEF RegisterInv, Launching
  <1>7. CallInv' /\ RunInv' /\ RespawnInv'  BY DEF CallInv, RunInv, RespawnInv, Running
  <1>8. CoreInv'  BY <1>4 DEF CoreInv, Launching
  <1>9. KillInv'  BY DEF KillInv, Running
  <1>10. QED  BY <1>1, <1>2, <1>5, <1>6, <1>7, <1>8, <1>9

\* Goto changes the place only.
LEMMA GotoPlace ==
    ASSUME MainType, NEW l, Goto(l),
           l \in Launching \cup {"complete", "spin", "wait", "stop", "join", "abort",
                                 "aborting", "exit"},
           l \in Launching => main.n \in DOMAIN Order
    PROVE  MainType' /\ main'.at = l /\ main'.n = main.n
  BY DEF MainType, Goto

\* The launch is complete.
LEMMA CompleteStep == ASSUME IInv, complete  PROVE IInv'
  <1>1. MainType' /\ main'.at = "spin" /\ main'.n = main.n
    BY GotoPlace DEF complete, IInv, Launching
  <1>2. QED
    BY <1>1, AsideStep DEF complete, MainLeaves, rpcVars, Launching, IInv, ShutdownInv

\* The main thread waits for the monitor, stops and joins it.
LEMMA SpinStep == ASSUME IInv, spin  PROVE IInv'
  <1>1. PICK l \in {"stop", "wait", "join", "exit"} : Goto(l)  BY DEF spin
  <1>2. MainType' /\ main'.at = l /\ main'.n = main.n
    BY <1>1, GotoPlace DEF IInv, Launching
  <1>3. is_shutdown' \in BOOLEAN /\ (is_shutdown => is_shutdown')
    <2>1. is_shutdown = TRUE \/ is_shutdown = FALSE  BY DEF IInv, ShutdownInv
    <2>2. is_shutdown' = TRUE \/ is_shutdown' = is_shutdown  BY <2>1, Zenon DEF spin
    <2>3. QED  BY <2>1, <2>2
  <1>4. QED  BY <1>2, <1>3, AsideStep DEF spin, MainLeaves, rpcVars, Launching

\* pmon_shutdown after a failed launch.
LEMMA AbortStep == ASSUME IInv, abort  PROVE IInv'
  <1>1. PICK l \in {"exit", "aborting"} : Goto(l)  BY DEF abort
  <1>2. MainType' /\ main'.at = l /\ main'.n = main.n
    BY <1>1, GotoPlace DEF IInv, Launching
  <1>3. is_shutdown' \in BOOLEAN /\ (is_shutdown => is_shutdown')
    <2>1. is_shutdown = TRUE \/ is_shutdown = FALSE  BY DEF IInv, ShutdownInv
    <2>2. is_shutdown' = TRUE \/ is_shutdown' = is_shutdown  BY <2>1, Zenon DEF abort
    <2>3. QED  BY <2>1, <2>2
  <1>4. QED  BY <1>2, <1>3, AsideStep DEF abort, MainLeaves, rpcVars, Launching

\* The signal handler.
LEMMA SignalStep == ASSUME IInv, rl_signal \/ rl_signal_returns  PROVE IInv'
  <1>1. /\ UNCHANGED <<main, monitor, listVars, done, runVars, plock, victim, procVars, late>>
        /\ is_shutdown' \in BOOLEAN /\ (is_shutdown => is_shutdown')
    BY DEF rl_signal, rl_signal_returns, flagVars, rpcVars, IInv, ShutdownInv
  <1>2. MainType'  BY <1>1 DEF IInv, MainType
  <1>3. QED  BY <1>1, <1>2, AsideStep

-----------------------------------------------------------------------------
(* A process ends, or is stopped by a call.                                *)

\* After stop the process does not run; the others go on.
LEMMA StopProc ==
    ASSUME ProcType, RunInv, NEW p \in Procs, stop(p)
    PROVE  /\ ProcType' /\ started' = started
           /\ \A q \in Procs : Running(q)' => Running(q) /\ q # p /\ popen'[q]
  BY DEF ProcType, RunInv, stop, Running

\* Fewer processes run.
LEMMA FewerRun ==
    ASSUME IInv, UNCHANGED <<main, monitor, listVars, is_shutdown, done, runVars, late, started>>,
           ProcType', LockInv',
           \A q \in Procs : Running(q)' => Running(q) /\ popen'[q]
    PROVE  IInv'
  <1> USE DEF IInv, listVars, runVars
  <1>1. MainType' /\ ListType' /\ ShutdownInv'  BY DEF MainType, ListType, ShutdownInv
  <1>2. p_n' = p_n  BY DEF p_n
  <1>3. FreshInv'  BY Launched DEF FreshInv, Fresh
  <1>4. RegisterInv' /\ CoreInv'  BY <1>2 DEF RegisterInv, Unregistered, CoreInv
  <1>5. CallInv' /\ RunInv' /\ RespawnInv'  BY DEF CallInv, RunInv, RespawnInv
  <1>6. KillInv'
    <2>1. Held(todo) \subseteq Procs  BY DEF ListType, Held
    <2>2. QED  BY <2>1 DEF KillInv
  <1>7. QED  BY <1>1, <1>3, <1>4, <1>5, <1>6

\* A process ends by itself.
LEMMA ExitStep == ASSUME IInv, NEW p \in Procs, exit(p)  PROVE IInv'
  <1>1. ProcType'  BY DEF IInv, ProcType, exit
  <1>2. \A q \in Procs : Running(q)' => Running(q) /\ popen'[q]
    BY DEF IInv, ProcType, RunInv, Running, exit
  <1>3. LockInv'  BY DEF IInv, LockInv, exit, rpcVars
  <1>4. QED  BY <1>1, <1>2, <1>3, FewerRun DEF exit, flagVars

\* kill_process takes plock, and stops its victim.
LEMMA KillProcessStep ==
    ASSUME IInv, kill_process_stop \/ \E p \in Killable : kill_process(p)
    PROVE  IInv'
  <1>1. CASE kill_process_stop
    <2>1. victim \in Procs  BY <1>1 DEF kill_process_stop, IInv, LockInv
    <2>2. /\ ProcType' /\ started' = started
          /\ \A q \in Procs : Running(q)' => Running(q) /\ popen'[q]
      BY <1>1, <2>1, StopProc DEF kill_process_stop, IInv
    <2>3. LockInv'
      BY <1>1, LaunchAssumption DEF kill_process_stop, IInv, LockInv
    <2>4. QED  BY <1>1, <2>2, <2>3, FewerRun DEF kill_process_stop, flagVars
  <1>2. ASSUME NEW p \in Killable, kill_process(p)  PROVE IInv'
    <2>1. LockInv'
      BY <1>2, LaunchAssumption DEF kill_process, IInv, LockInv
    <2>2. ProcType'  BY <1>2 DEF kill_process, IInv, ProcType, procVars
    <2>3. \A q \in Procs : Running(q)' => Running(q) /\ popen'[q]
      BY <1>2 DEF kill_process, IInv, RunInv, Running, procVars
    <2>4. QED  BY <1>2, <2>1, <2>2, <2>3, FewerRun DEF kill_process, flagVars, procVars
  <1>3. QED  BY <1>1, <1>2

-----------------------------------------------------------------------------
(* The main thread launches a process.                                     *)

\* register takes plock: no victim can be waiting to be stopped.
LEMMA RegisterLockStep == ASSUME IInv, register_lock  PROVE IInv'
  <1> USE DEF IInv, register_lock, MainLeaves, listVars, runVars, procVars, rpcVars
  <1>1. MainType' /\ main'.at = "registering" /\ main'.n = main.n
    BY BeingLaunched, GotoPlace DEF Launching
  <1>2. ListType' /\ ProcType' /\ ShutdownInv'  BY DEF ListType, ProcType, ShutdownInv
  <1>3. LockInv'  BY <1>1, LaunchAssumption DEF LockInv
  <1>4. \A j : (Fresh(j)' <=> Fresh(j)) /\ (Unregistered(j)' <=> Unregistered(j))
    BY <1>1 DEF Fresh, Unregistered, Launching
  <1>5. p_n' = p_n  BY <1>1 DEF p_n
  <1>6. FreshInv'  BY <1>4 DEF FreshInv, Running
  <1>7. RegisterInv' /\ CoreInv'  BY <1>1, <1>4, <1>5 DEF RegisterInv, CoreInv
  <1>8. CallInv' /\ RunInv' /\ RespawnInv'  BY DEF CallInv, RunInv, RespawnInv, Running
  <1>9. KillInv'  BY DEF KillInv, Running
  <1>10. QED  BY <1>1, <1>2, <1>3, <1>6, <1>7, <1>8, <1>9

\* register adds a process that is in no list yet, or refuses it.
LEMMA RegisterStep == ASSUME IInv, register  PROVE IInv'
  <1> USE DEF IInv, register, MainLeaves, runVars, procVars, rpcVars
  <1>a. /\ main.n \in DOMAIN Order /\ p_n \in Procs /\ Fresh(main.n)
        /\ \A j \in DOMAIN Order : Order[j] = p_n <=> j = main.n
    BY BeingLaunched DEF Launching
  <1>b. victim = None /\ victim' = victim  BY DEF LockInv
  <1>c. ProcType'  BY DEF ProcType
  <1>1. CASE is_shutdown
    <2>1. MainType' /\ main'.at = "abort" /\ main'.n = main.n
      BY <1>1, GotoPlace DEF Launching
    <2>2. ListType' /\ ShutdownInv'  BY <1>1 DEF ListType, ShutdownInv
    <2>3. LockInv'  BY <1>b, <2>1 DEF LockInv
    <2>4. \A j : (Fresh(j)' => Fresh(j)) /\ (Unregistered(j)' => Unregistered(j))
      BY <2>1 DEF Fresh, Unregistered, Launching
    <2>5. FreshInv'  BY <2>4 DEF FreshInv, Running
    <2>6. RegisterInv' /\ CoreInv'  BY <1>1, <2>1, <2>4 DEF RegisterInv, CoreInv
    <2>7. CallInv' /\ RunInv' /\ RespawnInv'
      BY <1>1 DEF CallInv, RunInv, RespawnInv, Running
    <2>8. KillInv'  BY DEF KillInv, Running
    <2>9. QED  BY <1>c, <2>1, <2>2, <2>3, <2>5, <2>6, <2>7, <2>8
  <1>2. CASE ~is_shutdown
    <2>a. p_n \notin Held(procs) /\ p_n \notin Held(core_procs)
      BY <1>a DEF RegisterInv, Unregistered, p_n
    <2>b. procs' = Append(procs, p_n)  BY <1>2
    <2>c. procs' \in Seq(Procs) /\ NoRepeats(procs') /\ Held(procs') = Held(procs) \cup {p_n}
      BY <1>a, <2>a, <2>b, HeldAppend, AppendNoRepeats DEF ListType
    <2>d. monitor \notin {"post", "kill", "end"}  BY <1>2 DEF ShutdownInv
    <2>e. PICK l \in {"core", "start"} : Goto(l) /\ (l = "core" <=> p_n \in Core)
      BY <1>2
    <2>1. MainType' /\ main'.at = l /\ main'.n = main.n
      BY <1>a, <2>e, GotoPlace DEF Launching
    <2>p. p_n' = p_n  BY <2>1 DEF p_n
    <2>2. ListType' /\ ShutdownInv'  BY <2>c, <2>d DEF ListType, ShutdownInv
    <2>3. LockInv'  BY <1>b, <2>1 DEF LockInv
    <2>4. /\ \A j : Fresh(j)' <=> Fresh(j)
          /\ \A j : Unregistered(j)' => Unregistered(j) /\ j # main.n
      BY <1>a, <2>1, Launched DEF Fresh, Unregistered, Launching
    <2>5. FreshInv'  BY <2>4 DEF FreshInv, Running
    <2>6. RegisterInv'
      BY <1>a, <2>a, <2>c, <2>e, <2>1, <2>p, <2>4 DEF RegisterInv
    <2>7. CoreInv'  BY <2>c, <2>e, <2>1, <2>p DEF CoreInv
    <2>8. CallInv' /\ RunInv'  BY <2>c DEF CallInv, RunInv, Running
    <2>9. RespawnInv'  BY <2>c DEF RespawnInv
    <2>10. KillInv'  BY <2>d DEF KillInv
    <2>11. QED  BY <1>c, <2>1, <2>2, <2>3, <2>5, <2>6, <2>7, <2>8, <2>9, <2>10
  <1>3. QED  BY <1>1, <1>2

\* Before a core process was added to core_procs only core processes run.
LEMMA CoreRuns ==
    ASSUME IInv, main.at = "core", NEW p \in Procs, Running(p)
    PROVE  p \in Core
  <1>1. /\ main.n \in DOMAIN Order /\ p_n \in Core /\ p_n = Order[main.n]
    BY BeingLaunched DEF IInv, RegisterInv, Launching, p_n
  <1>2. PICK j \in DOMAIN Order : Order[j] = p  BY Launched
  <1>3. ~Fresh(j)  BY <1>2 DEF IInv, FreshInv
  <1>4. j < main.n  BY <1>1, <1>3, Launched DEF Fresh, Launching
  <1>5. QED  BY <1>1, <1>2, <1>4, CoreFirst

\* A core process is added to core_procs, even during _post_run: then all that
\* runs is core, since core processes are launched first.
LEMMA RegisterCoreStep == ASSUME IInv, register_core_proc  PROVE IInv'
  <1> USE DEF IInv, register_core_proc, MainLeaves, runVars, procVars, rpcVars
  <1>a. /\ main.n \in DOMAIN Order /\ p_n \in Procs
        /\ \A j \in DOMAIN Order : Order[j] = p_n <=> j = main.n
    BY BeingLaunched DEF Launching
  <1>b. p_n \in Core /\ p_n \notin Held(core_procs)  BY DEF RegisterInv
  <1>c. /\ core_procs' \in Seq(Core) /\ NoRepeats(core_procs')
        /\ Held(core_procs') = Held(core_procs) \cup {p_n}
    BY <1>b, HeldAppend, AppendNoRepeats DEF ListType
  <1>d. /\ Len(core_procs) \in Nat /\ Len(core_procs') = Len(core_procs) + 1
        /\ \A i \in 1..Len(core_procs) : core_procs'[i] = core_procs[i]
    BY <1>b, AppendProperties, LenProperties DEF ListType
  <1>1. MainType' /\ main'.at = "start" /\ main'.n = main.n
    BY <1>a, GotoPlace DEF Launching
  <1>p. p_n' = p_n  BY <1>1 DEF p_n
  <1>2. ListType' /\ ShutdownInv' /\ ProcType'
    BY <1>c DEF ListType, ShutdownInv, ProcType
  <1>3. LockInv'  BY <1>1 DEF LockInv
  <1>4. /\ \A j : Fresh(j)' <=> Fresh(j)
        /\ \A j : Unregistered(j)' => Unregistered(j) /\ j # main.n
    BY <1>a, <1>1, Launched DEF Fresh, Unregistered, Launching
  <1>5. FreshInv'  BY <1>4 DEF FreshInv, Running
  <1>6. RegisterInv'  BY <1>a, <1>c, <1>1, <1>p, <1>4 DEF RegisterInv
  <1>7. CoreInv'  BY <1>c, <1>1, <1>p DEF CoreInv
  <1>8. CallInv' /\ RunInv' /\ RespawnInv'  BY DEF CallInv, RunInv, RespawnInv, Running
  <1>9. KillInv'
    <2>1. SUFFICES ASSUME monitor = "kill"  PROVE KillInv'  BY DEF KillInv
    <2>2. again' = again /\ Len(again) \in Nat  BY LenProperties DEF ListType
    <2>3. \A m \in 1..Len(again) : Len(again) + 1 - m \in 1..Len(core_procs)
      BY <2>1, <2>2, <1>d DEF KillInv
    <2>4. /\ Len(again) <= Len(core_procs')
          /\ \A m \in 1..Len(again) : again[m] = core_procs'[Len(again) + 1 - m]
      BY <2>1, <2>2, <2>3, <1>d DEF KillInv
    <2>5. \A p \in Procs : Running(p)' => Running(p) /\ p \in Core
      BY CoreRuns DEF Running
    <2>6. late' = late /\ todo' = todo  OBVIOUS
    <2>7. \A p \in Held(todo) : Running(p)' <=> Running(p)  BY DEF Running
    <2>8. QED  BY <2>1, <2>2, <2>4, <2>5, <2>6, <2>7 DEF KillInv
  <1>10. QED  BY <1>1, <1>2, <1>3, <1>5, <1>6, <1>7, <1>8, <1>9

\* The main thread goes on from one place of the launch to the next and a
\* process is marked as not started.
LEMMA StartStep == ASSUME IInv, start  PROVE IInv'
  <1> USE DEF IInv, start, MainLeaves, runVars, listVars, rpcVars
  <1>a. /\ main.n \in DOMAIN Order /\ p_n \in Procs /\ Fresh(main.n) /\ p_n = Order[main.n]
    BY BeingLaunched DEF Launching, p_n
  <1>b. started' = started
    <2>1. started[p_n] = FALSE  BY <1>a DEF FreshInv, ProcType
    <2>2. QED  BY <1>a, <2>1 DEF ProcType
  <1>1. MainType' /\ main'.at = "popen" /\ main'.n = main.n
    BY <1>a, GotoPlace DEF Launching
  <1>p. p_n' = p_n  BY <1>1 DEF p_n
  <1>2. ListType' /\ ShutdownInv'  BY DEF ListType, ShutdownInv
  <1>3. ProcType'  BY <1>a DEF ProcType
  <1>4. LockInv'  BY <1>1 DEF LockInv
  <1>5. \A j : (Fresh(j)' <=> Fresh(j)) /\ (Unregistered(j)' => Unregistered(j))
    BY <1>1 DEF Fresh, Unregistered, Launching
  <1>6. FreshInv'  BY <1>b, <1>5 DEF FreshInv, Running
  <1>7. RegisterInv' /\ CoreInv'  BY <1>1, <1>p, <1>5 DEF RegisterInv, CoreInv
  <1>8. CallInv' /\ RunInv' /\ RespawnInv'
    BY <1>b DEF CallInv, RunInv, RespawnInv, Running
  <1>9. KillInv'  BY DEF KillInv, Running
  <1>10. QED  BY <1>1, <1>2, <1>3, <1>4, <1>6, <1>7, <1>8, <1>9

\* Popen: the process is in procs, or the shutdown has begun and it is late.
LEMMA StartPopenStep == ASSUME IInv, start_popen  PROVE IInv'
  <1> USE DEF IInv, start_popen, MainLeaves, runVars, listVars, rpcVars
  <1>a. /\ main.n \in DOMAIN Order /\ p_n \in Procs /\ p_n = Order[main.n]
        /\ \A j \in DOMAIN Order : Order[j] = p_n <=> j = main.n
    BY BeingLaunched DEF Launching, p_n
  <1>b. /\ started' \in [Procs -> BOOLEAN] /\ lock' \in [Procs -> {None, "main"}]
        /\ \A q \in Procs : started'[q] = (started[q] \/ q = p_n)
    BY <1>a DEF ProcType
  <1>c. monitor' = monitor /\ todo' = todo /\ dead' = dead /\ respawn' = respawn
        /\ again' = again /\ procs' = procs /\ core_procs' = core_procs
    OBVIOUS
  <1>d. ListType' /\ ShutdownInv'  BY DEF ListType, ShutdownInv
  <1>e. CallInv'
    <2>1. monitor = "call" => todo # <<>> /\ Head(todo) \in Procs
      BY HeldTail DEF ListType, CallInv
    <2>2. QED  BY <1>b, <1>c, <2>1 DEF CallInv
  <1>f. RespawnInv'  BY DEF RespawnInv
  <1>g. CoreInv'  BY DEF CoreInv
  <1>1. CASE /\ os' = [os EXCEPT ![p_n] = "running"] /\ popen' = [popen EXCEPT ![p_n] = TRUE]
             /\ late' = IF is_shutdown THEN late \cup {p_n} ELSE late
             /\ main' = Launch(main.n + 1)
    <2>1. main'.n = main.n + 1 /\ main'.at \in {"lock", "complete"} /\ MainType'
      BY <1>1, <1>a, Launched DEF Launch, MainType, Launching
    <2>2. ProcType'  BY <1>1, <1>a, <1>b DEF ProcType
    <2>3. LockInv'  BY <2>1 DEF LockInv
    <2>4. \A j \in DOMAIN Order :
             /\ Fresh(j)' => Fresh(j) /\ j # main.n
             /\ Unregistered(j)' => Unregistered(j)
      BY <1>a, <2>1, Launched DEF Fresh, Unregistered, MainType, Launching
    <2>5. \A q \in Procs : /\ Running(q)' => Running(q) \/ q = p_n
                           /\ popen'[q] = (popen[q] \/ q = p_n)
      BY <1>1, <1>a DEF Running, ProcType
    <2>6. FreshInv'
      <3>1. \A j \in DOMAIN Order : j # main.n =>
               ~(Running(Order[j])' /\ ~Running(Order[j])) /\ started'[Order[j]] = started[Order[j]]
        BY <1>a, <1>b, <2>5, Launched DEF ProcType
      <3>2. QED  BY <2>4, <3>1, <1>c DEF FreshInv
    <2>7. RegisterInv'  BY <2>1, <2>4, <1>c DEF RegisterInv
    <2>8. p_n \in late' \/ (~is_shutdown /\ p_n \in Held(procs) /\ monitor # "kill")
      BY <1>1 DEF RegisterInv, ShutdownInv
    <2>9. late \subseteq late'  BY <1>1
    <2>10. RunInv'  BY <2>5, <2>8, <2>9, <1>c DEF RunInv
    <2>11. KillInv'
      <3>1. SUFFICES ASSUME monitor = "kill"  PROVE KillInv'  BY <1>c DEF KillInv
      <3>2. \A q \in Procs : Running(q)' /\ q \notin late' => Running(q) /\ q \notin late
        BY <2>5, <2>8, <2>9, <3>1
      <3>3. Held(todo) \subseteq Procs  BY DEF ListType, Held
      <3>4. QED  BY <3>1, <3>2, <3>3, <1>c DEF KillInv
    <2>12. QED  BY <1>d, <1>e, <1>f, <1>g, <2>1, <2>2, <2>3, <2>6, <2>7, <2>10, <2>11
  <1>2. CASE Goto("abort") /\ UNCHANGED <<os, popen, late>>
    <2>1. main'.n = main.n /\ main'.at = "abort" /\ MainType'
      BY <1>2, GotoPlace DEF Launching
    <2>2. ProcType'  BY <1>2, <1>b DEF ProcType
    <2>3. LockInv'  BY <2>1 DEF LockInv
    <2>4. \A j : /\ Fresh(j)' => Fresh(j) /\ j # main.n
                 /\ Unregistered(j)' => Unregistered(j)
      BY <1>a, <2>1, Launched DEF Fresh, Unregistered, Launching
    <2>5. FreshInv'
      <3>1. \A j \in DOMAIN Order : j # main.n => started'[Order[j]] = started[Order[j]]
        BY <1>a, <1>b, Launched DEF ProcType
      <3>2. QED  BY <1>2, <2>4, <3>1, <1>c DEF FreshInv, Running
    <2>6. RegisterInv'  BY <2>1, <2>4, <1>c DEF RegisterInv
    <2>7. RunInv' /\ KillInv'  BY <1>2, <1>c DEF RunInv, KillInv, Running
    <2>8. QED  BY <1>d, <1>e, <1>f, <1>g, <2>1, <2>2, <2>3, <2>5, <2>6, <2>7
  <1>3. QED  BY <1>1, <1>2

-----------------------------------------------------------------------------
(* The monitor's loop.                                                     *)

\* The monitor leaves the launch alone.
LEMMA MonitorFrame ==
    ASSUME IInv, MonitorLeaves
    PROVE  /\ MainType' /\ LockInv' /\ p_n' = p_n
           /\ \A j : (Fresh(j)' <=> Fresh(j)) /\ (Unregistered(j)' <=> Unregistered(j))
           /\ main' = main /\ late' = late /\ core_procs' = core_procs
  BY DEF IInv, MonitorLeaves, MainType, LockInv, rpcVars, p_n, Fresh, Unregistered

\* The monitor moves processes between its lists.  Only what was started gets
\* into them.
LEMMA ListStep ==
    ASSUME IInv, MonitorLeaves, UNCHANGED <<procs, done, procVars>>,
           monitor \notin {"kill", "end"}, monitor' \notin {"kill", "end"},
           is_shutdown' \in BOOLEAN, is_shutdown => is_shutdown',
           monitor' = "post" => is_shutdown',
           todo' \in Seq(Procs), dead' \in Seq(Procs), respawn' \in Seq(Procs),
           again' \in Seq(Procs),
           Held(todo') \subseteq Held(todo) \cup Held(procs),
           \A p \in Held(dead') \cup Held(respawn') \cup Held(again') :
             \/ p \in Held(dead) \cup Held(respawn) \cup Held(again)
             \/ p \in Held(todo) /\ started[p],
           Held(respawn') \subseteq Respawn,
           monitor' = "respawn" => Held(again') \subseteq Respawn,
           CallInv'
    PROVE  IInv'
  <1> USE DEF IInv, procVars
  <1>1. /\ MainType' /\ LockInv' /\ p_n' = p_n
        /\ \A j : (Fresh(j)' <=> Fresh(j)) /\ (Unregistered(j)' <=> Unregistered(j))
        /\ main' = main /\ late' = late /\ core_procs' = core_procs
    BY MonitorFrame
  <1>2. ListType' /\ ProcType'  BY <1>1 DEF ListType, ProcType
  <1>3. ShutdownInv'  BY DEF ShutdownInv
  <1>4. FreshInv'
    <2>1. ASSUME NEW j \in DOMAIN Order, Fresh(j)
          PROVE  /\ ~Running(Order[j])' /\ ~started'[Order[j]]
                 /\ Order[j] \notin Held(dead') \cup Held(respawn') \cup Held(again')
      BY <2>1 DEF FreshInv, Running
    <2>2. QED  BY <1>1, <2>1 DEF FreshInv
  <1>5. RegisterInv' /\ CoreInv'  BY <1>1 DEF RegisterInv, CoreInv
  <1>6. RunInv'  BY <1>1 DEF RunInv, Running
  <1>7. RespawnInv'  BY DEF RespawnInv
  <1>8. KillInv'  BY DEF KillInv
  <1>9. QED  BY <1>1, <1>2, <1>3, <1>4, <1>5, <1>6, <1>7, <1>8

\* A new round of polling, or the end of the loop.
LEMMA CopyStep == ASSUME IInv, copy_procs  PROVE IInv'
  <1> USE DEF copy_procs, On
  <1>1. /\ monitor = "copy" /\ monitor' \in {"post", "poll"} /\ is_shutdown' = is_shutdown
        /\ monitor' = "post" => is_shutdown'
        /\ todo' \in {todo, procs} /\ MonitorLeaves /\ UNCHANGED <<procs, done, procVars>>
        /\ dead' = dead /\ respawn' = respawn /\ again' = again
    OBVIOUS
  <1>2. CallInv'  BY <1>1 DEF CallInv
  <1>3. Held(todo') \subseteq Held(todo) \cup Held(procs)  BY <1>1
  <1>4. /\ todo' \in Seq(Procs) /\ dead' \in Seq(Procs) /\ respawn' \in Seq(Procs)
        /\ again' \in Seq(Procs) /\ is_shutdown' \in BOOLEAN /\ Held(respawn') \subseteq Respawn
    BY <1>1 DEF IInv, ListType, ShutdownInv, RespawnInv
  <1>5. QED  BY <1>1, <1>2, <1>3, <1>4, ListStep

\* A death is noted in the dead list, or nowhere.
LEMMA NoteDeath ==
    ASSUME ListType, NEW p \in Procs
    PROVE  /\ note_death(p) \in Seq(Procs) /\ Append(dead, p) \in Seq(Procs)
           /\ Held(note_death(p)) \subseteq Held(dead) \cup {p}
           /\ Held(Append(dead, p)) = Held(dead) \cup {p}
  <1>1. Append(dead, p) \in Seq(Procs) /\ Held(Append(dead, p)) = Held(dead) \cup {p}
    BY HeldAppend DEF ListType
  <1>2. note_death(p) = dead \/ note_death(p) = Append(dead, p)  BY DEF note_death
  <1>3. QED  BY <1>1, <1>2 DEF ListType

\* A process was looked at.
LEMMA PolledOne ==
    ASSUME IInv, MonitorLeaves, UNCHANGED <<procs, done, respawn, again, procVars>>,
           monitor \in {"poll", "call"}, todo # <<>>, NEW p \in Procs, p = Head(todo),
           NEW shutdown \in BOOLEAN, is_shutdown => shutdown, PollNext(shutdown),
           dead' \in Seq(Procs), Held(dead') \subseteq Held(dead) \cup {p},
           started[p] \/ dead' = dead
    PROVE  IInv'
  <1>1. /\ Tail(todo) \in Seq(Procs) /\ Held(Tail(todo)) \subseteq Held(todo) /\ p \in Held(todo)
    BY HeldTail DEF IInv, ListType
  <1>2. <<>> \in Seq(Procs) /\ Held(<<>>) = {}  BY EmptySeq DEF Held
  <1>3. todo' \in Seq(Procs) /\ Held(todo') \subseteq Held(todo)
    BY <1>1, <1>2 DEF PollNext
  <1>4. /\ is_shutdown' \in BOOLEAN /\ (is_shutdown => is_shutdown') /\ monitor' = "poll"
    BY DEF PollNext
  <1>5. CallInv'  BY <1>4 DEF CallInv
  <1>6. respawn' \in Seq(Procs) /\ again' \in Seq(Procs) /\ Held(respawn') \subseteq Respawn
    BY DEF IInv, ListType, RespawnInv
  <1>7. \A q \in Held(dead') \cup Held(respawn') \cup Held(again') :
             \/ q \in Held(dead) \cup Held(respawn) \cup Held(again)
             \/ q \in Held(todo) /\ started[q]
    BY <1>1
  <1>8. QED  BY <1>3, <1>4, <1>5, <1>6, <1>7, ListStep

\* is_alive up to the test of popen.
LEMMA PollStep == ASSUME IInv, poll  PROVE IInv'
  <1> DEFINE p == Head(todo)
             died == started[p] /\ (stopped[p] \/ ~popen[p])
  <1>1. p \in Procs /\ todo # <<>> /\ monitor = "poll"
    BY HeldTail DEF IInv, ListType, poll, On
  <1>2. MonitorLeaves /\ UNCHANGED <<procs, done, respawn, again, procVars>>  BY DEF poll
  <1>3. is_shutdown \in BOOLEAN  BY DEF IInv, ShutdownInv
  <1>4. CASE started[p] /\ ~died
    <2>1. monitor' = "call" /\ UNCHANGED <<todo, is_shutdown, dead>>  BY <1>4 DEF poll
    <2>2. CallInv'  BY <1>1, <1>2, <1>4, <2>1 DEF CallInv, procVars
    <2>3. /\ todo' \in Seq(Procs) /\ dead' \in Seq(Procs) /\ respawn' \in Seq(Procs)
          /\ again' \in Seq(Procs) /\ Held(respawn') \subseteq Respawn
      BY <1>2, <2>1 DEF IInv, ListType, RespawnInv
    <2>4. QED  BY <1>1, <1>2, <1>3, <2>1, <2>2, <2>3, ListStep
  <1>5. CASE ~(started[p] /\ ~died)
    <2>1. PICK shutdown \in BOOLEAN : shutdown = (is_shutdown \/ (died /\ ends_launch(p)))
      OBVIOUS
    <2>2. PollNext(shutdown)  BY <1>5, <2>1 DEF poll
    <2>3. is_shutdown => shutdown  BY <2>1
    <2>4. dead' = IF died THEN note_death(p) ELSE dead  BY <1>5 DEF poll
    <2>5. dead' \in Seq(Procs) /\ Held(dead') \subseteq Held(dead) \cup {p}
      BY <1>1, <2>4, NoteDeath DEF IInv, ListType
    <2>6. started[p] \/ dead' = dead  BY <2>4
    <2> HIDE DEF p, died
    <2>7. p = Head(todo)  BY DEF p
    <2>8. QED  BY <1>1, <1>2, <2>2, <2>3, <2>5, <2>6, <2>7, PolledOne
  <1>6. QED  BY <1>4, <1>5

\* popen.poll().
LEMMA PollCallStep == ASSUME IInv, poll_call  PROVE IInv'
  <1> DEFINE p == Head(todo)
  <1>1. p \in Procs /\ todo # <<>> /\ monitor = "call" /\ started[p]
    BY HeldTail DEF IInv, ListType, CallInv, poll_call, On
  <1>2. MonitorLeaves /\ UNCHANGED <<procs, done, respawn, again, procVars>>
    BY DEF poll_call
  <1>3. is_shutdown \in BOOLEAN  BY DEF IInv, ShutdownInv
  <1>4. dead' \in Seq(Procs) /\ Held(dead') \subseteq Held(dead) \cup {p}
    <2>1. dead' \in {dead, note_death(p), Append(dead, p)}  BY DEF poll_call
    <2>2. QED  BY <1>1, <2>1, NoteDeath DEF IInv, ListType
  <1>5. PICK shutdown \in BOOLEAN : (is_shutdown => shutdown) /\ PollNext(shutdown)
    <2>1. CASE ~popen[p]  BY <1>3, <2>1 DEF poll_call
    <2>2. CASE popen[p]
      <3>1. PICK s \in BOOLEAN : s = (is_shutdown \/ (~Running(p) /\ ends_launch(p)))
        OBVIOUS
      <3>2. PollNext(s)  BY <2>2, <3>1 DEF poll_call
      <3>3. QED  BY <3>1, <3>2
    <2>3. QED  BY <2>1, <2>2
  <1> HIDE DEF p
  <1>6. p = Head(todo)  BY DEF p
  <1>7. QED  BY <1>1, <1>2, <1>4, <1>5, <1>6, PolledOne

\* All were polled.
LEMMA PolledStep == ASSUME IInv, polled  PROVE IInv'
  <1>1. /\ MonitorLeaves /\ UNCHANGED <<procs, done, procVars>> /\ monitor = "poll"
        /\ monitor' = "bury" /\ again' = dead
        /\ UNCHANGED <<is_shutdown, todo, dead, respawn>>
    BY DEF polled, On
  <1>2. CallInv'  BY <1>1 DEF CallInv
  <1>3. /\ todo' \in Seq(Procs) /\ dead' \in Seq(Procs) /\ respawn' \in Seq(Procs)
        /\ again' \in Seq(Procs) /\ is_shutdown' \in BOOLEAN /\ Held(respawn') \subseteq Respawn
    BY <1>1 DEF IInv, ListType, RespawnInv, ShutdownInv
  <1>4. QED  BY <1>1, <1>2, <1>3, ListStep

\* A dead process is kept for a restart, or unregistered and stopped; it is not
\* one that is being launched.
LEMMA BuryStep == ASSUME IInv, bury  PROVE IInv'
  <1> DEFINE p == Head(again)
  <1>1. /\ p \in Procs /\ again' = Tail(again) /\ again' \in Seq(Procs) /\ monitor = "bury"
        /\ Held(again') \subseteq Held(again) /\ p \in Held(again)
    BY HeldTail DEF IInv, ListType, bury, On
  <1>2. MonitorLeaves /\ UNCHANGED <<monitor, is_shutdown, done, todo, dead>>
    BY DEF bury
  <1>3. /\ MainType' /\ LockInv' /\ p_n' = p_n
        /\ \A j : (Fresh(j)' <=> Fresh(j)) /\ (Unregistered(j)' <=> Unregistered(j))
        /\ main' = main /\ late' = late /\ core_procs' = core_procs
    BY <1>2, MonitorFrame
  <1>4. CallInv'  BY <1>1, <1>2 DEF CallInv
  <1>5. /\ todo' \in Seq(Procs) /\ dead' \in Seq(Procs) /\ is_shutdown' \in BOOLEAN
    BY <1>2 DEF IInv, ListType, ShutdownInv
  <1>6. CASE UNCHANGED <<procs, procVars>>
    <2>1. respawn' = respawn \/ (p \in Respawn /\ respawn' = Append(respawn, p))
      BY DEF bury, should_respawn
    <2>2. /\ respawn' \in Seq(Procs) /\ Held(respawn') \subseteq Respawn
          /\ Held(respawn') \subseteq Held(respawn) \cup {p}
      <3>1. respawn \in Seq(Procs) /\ Held(respawn) \subseteq Respawn
        BY DEF IInv, ListType, RespawnInv
      <3> HIDE DEF p
      <3>2. /\ Append(respawn, p) \in Seq(Procs)
            /\ Held(Append(respawn, p)) = Held(respawn) \cup {p}
        BY <1>1, <3>1, HeldAppend
      <3>3. QED  BY <2>1, <3>1, <3>2
    <2>3. \A q \in Held(dead') \cup Held(respawn') \cup Held(again') :
             q \in Held(dead) \cup Held(respawn) \cup Held(again)
      BY <1>1, <1>2, <2>2
    <2>4. QED  BY <1>1, <1>2, <1>4, <1>5, <1>6, <2>2, <2>3, ListStep
  <1>7. CASE /\ p \notin Respawn /\ procs' = Filter(procs, Procs \ {p})
             /\ stop(p) /\ UNCHANGED respawn
    <2> USE DEF IInv
    <2>1. /\ procs' \in Seq(Procs) /\ NoRepeats(procs')
          /\ Held(procs') = Held(procs) \cap (Procs \ {p})
      BY <1>7, FilterMembers, FilterNoRepeats DEF ListType
    <2>2. Held(procs) \subseteq Procs  BY DEF ListType, Held
    <2>3. Held(procs') = Held(procs) \ {p}  BY <2>1, <2>2
    <2>4. /\ ProcType' /\ started' = started
          /\ \A q \in Procs : Running(q)' => Running(q) /\ q # p /\ popen'[q]
      BY <1>1, <1>7, StopProc
    <2>5. ListType'  BY <1>1, <1>2, <1>3, <1>7, <2>1 DEF ListType
    <2>6. ShutdownInv'  BY <1>1, <1>2 DEF ShutdownInv
    <2>7. FreshInv'  BY <1>1, <1>2, <1>3, <1>7, <2>4, Launched DEF FreshInv
    <2>8. RegisterInv'
      <3>1. main.at \in {"core", "start", "popen"} => p_n # p
        BY <1>1, BeingLaunched DEF FreshInv, Launching, p_n
      <3>2. QED  BY <1>1, <1>2, <1>3, <2>3, <3>1 DEF RegisterInv
    <2>9. RunInv'  BY <1>3, <2>3, <2>4 DEF RunInv
    <2>10. RespawnInv'  BY <1>1, <1>2, <1>7, <2>3 DEF RespawnInv
    <2>11. CoreInv'  BY <1>3, <2>3 DEF CoreInv
    <2>12. KillInv'  BY <1>1, <1>2 DEF KillInv
    <2>13. QED
      BY <1>3, <1>4, <2>4, <2>5, <2>6, <2>7, <2>8, <2>9, <2>10, <2>11, <2>12
  <1>8. QED  BY <1>6, <1>7 DEF bury, should_respawn

\* The end of the dead.
LEMMA BuriedStep == ASSUME IInv, buried  PROVE IInv'
  <1>1. /\ MonitorLeaves /\ UNCHANGED <<procs, done, procVars>> /\ monitor = "bury"
        /\ monitor' = "respawn" /\ again' = respawn /\ dead' = <<>> /\ respawn' = <<>>
        /\ todo' = todo
    BY DEF buried, On
  <1>2. is_shutdown' \in BOOLEAN /\ (is_shutdown => is_shutdown')
    <2>1. is_shutdown = TRUE \/ is_shutdown = FALSE  BY DEF IInv, ShutdownInv
    <2>2. is_shutdown' = (is_shutdown \/ (registrations_complete /\ all_died))
      BY DEF buried
    <2>3. is_shutdown' = TRUE \/ is_shutdown' = FALSE  BY <2>2, Zenon
    <2>4. is_shutdown = TRUE => is_shutdown' = TRUE  BY <2>2, Zenon
    <2>5. QED  BY <2>1, <2>3, <2>4
  <1>3. CallInv'  BY <1>1 DEF CallInv
  <1>4. <<>> \in Seq(Procs) /\ Held(<<>>) = {}  BY EmptySeq DEF Held
  <1>5. /\ todo' \in Seq(Procs) /\ dead' \in Seq(Procs) /\ respawn' \in Seq(Procs)
        /\ again' \in Seq(Procs) /\ Held(respawn') \subseteq Respawn
        /\ Held(again') \subseteq Respawn
    BY <1>1, <1>4 DEF IInv, ListType, RespawnInv
  <1>6. QED  BY <1>1, <1>2, <1>3, <1>4, <1>5, ListStep

\* A restarted process is still in procs.
LEMMA RespawnNowStep == ASSUME IInv, respawn_now  PROVE IInv'
  <1> USE DEF IInv
  <1>a. PICK p \in Procs : p = Head(again)
    BY HeldTail DEF ListType, respawn_now
  <1>1. /\ again' = Tail(again) /\ again' \in Seq(Procs) /\ monitor = "respawn"
        /\ Held(again') \subseteq Held(again) /\ p \in Held(again)
    BY <1>a, HeldTail DEF ListType, respawn_now, On
  <1>2. /\ MonitorLeaves
        /\ UNCHANGED <<monitor, procs, is_shutdown, done, todo, dead, respawn>>
    BY DEF respawn_now
  <1>3. /\ MainType' /\ LockInv' /\ p_n' = p_n
        /\ \A j : (Fresh(j)' <=> Fresh(j)) /\ (Unregistered(j)' <=> Unregistered(j))
        /\ main' = main /\ late' = late /\ core_procs' = core_procs
    BY <1>2, MonitorFrame
  <1>4. p \in Held(procs)  BY <1>1 DEF RespawnInv
  <1>5. restart(p)  BY <1>a DEF respawn_now
  <1>6. /\ ProcType'
        /\ \A q \in Procs : /\ q # p => started'[q] = started[q] /\ os'[q] = os[q]
                            /\ Running(q)' => popen'[q] /\ (Running(q) \/ q = p)
    BY <1>5 DEF ProcType, restart, Running, RunInv
  <1>7. ListType' /\ ShutdownInv'
    BY <1>1, <1>2, <1>3 DEF ListType, ShutdownInv
  <1>8. FreshInv'
    <2>1. \A j \in DOMAIN Order : Fresh(j) => Order[j] # p
      BY <1>1 DEF FreshInv
    <2>2. QED  BY <1>1, <1>2, <1>3, <1>6, <2>1, Launched DEF FreshInv, Running
  <1>9. RegisterInv' /\ CoreInv'  BY <1>2, <1>3 DEF RegisterInv, CoreInv
  <1>10. CallInv' /\ KillInv'  BY <1>1, <1>2 DEF CallInv, KillInv
  <1>11. RunInv'  BY <1>2, <1>3, <1>4, <1>6 DEF RunInv
  <1>12. RespawnInv'  BY <1>1, <1>2 DEF RespawnInv
  <1>13. QED  BY <1>3, <1>6, <1>7, <1>8, <1>9, <1>10, <1>11, <1>12

\* A restart is put off.
LEMMA RespawnLaterStep == ASSUME IInv, respawn_later  PROVE IInv'
  <1>a. PICK p \in Procs : p = Head(again)
    BY HeldTail DEF IInv, ListType, respawn_later
  <1>1. /\ again' = Tail(again) /\ again' \in Seq(Procs) /\ monitor = "respawn"
        /\ Held(again') \subseteq Held(again) /\ p \in Held(again)
    BY <1>a, HeldTail DEF IInv, ListType, respawn_later, On
  <1>2. /\ MonitorLeaves /\ UNCHANGED <<monitor, procs, is_shutdown, done, todo, dead, procVars>>
        /\ respawn' = Append(respawn, p)
    BY <1>a DEF respawn_later
  <1>3. p \in Respawn /\ Held(again) \subseteq Respawn /\ Held(respawn) \subseteq Respawn
    BY <1>1 DEF IInv, RespawnInv
  <1>4. respawn' \in Seq(Procs) /\ Held(respawn') = Held(respawn) \cup {p}
    BY <1>2, HeldAppend DEF IInv, ListType
  <1>5. CallInv'  BY <1>1, <1>2 DEF CallInv
  <1>6. todo' \in Seq(Procs) /\ dead' \in Seq(Procs) /\ is_shutdown' \in BOOLEAN
    BY <1>2 DEF IInv, ListType, ShutdownInv
  <1>7. \A q \in Held(dead') \cup Held(respawn') \cup Held(again') :
           q \in Held(dead) \cup Held(respawn) \cup Held(again)
    BY <1>1, <1>2, <1>4
  <1>8. QED  BY <1>1, <1>2, <1>3, <1>4, <1>5, <1>6, <1>7, ListStep

\* The end of the round.
LEMMA RespawnedStep == ASSUME IInv, respawned  PROVE IInv'
  <1>1. /\ MonitorLeaves /\ UNCHANGED <<procs, is_shutdown, done, todo, dead, respawn, procVars>>
        /\ monitor = "respawn" /\ monitor' = "copy" /\ again' = <<>>
    BY DEF respawned, On
  <1>2. <<>> \in Seq(Procs) /\ Held(<<>>) = {}  BY EmptySeq DEF Held
  <1>3. CallInv'  BY <1>1 DEF CallInv
  <1>4. /\ todo' \in Seq(Procs) /\ dead' \in Seq(Procs) /\ respawn' \in Seq(Procs)
        /\ again' \in Seq(Procs) /\ is_shutdown' \in BOOLEAN /\ Held(respawn') \subseteq Respawn
    BY <1>1, <1>2 DEF IInv, ListType, RespawnInv, ShutdownInv
  <1>5. QED  BY <1>1, <1>2, <1>3, <1>4, ListStep

-----------------------------------------------------------------------------
(* _post_run.                                                              *)

\* _post_run copies the lists: what runs is in one of them.
LEMMA PostRunStep == ASSUME IInv, post_run  PROVE IInv'
  <1> USE DEF IInv
  <1>1. /\ MonitorLeaves /\ UNCHANGED <<procs, done, dead, respawn, procVars>>
        /\ monitor = "post" /\ monitor' = "kill" /\ is_shutdown' = TRUE
        /\ again' = Reverse(core_procs)
        /\ todo' = Reverse(Filter(procs, Procs \ Held(core_procs)))
    BY DEF post_run, On, core_to_kill
  <1>2. /\ MainType' /\ LockInv' /\ p_n' = p_n
        /\ \A j : (Fresh(j)' <=> Fresh(j)) /\ (Unregistered(j)' <=> Unregistered(j))
        /\ main' = main /\ late' = late /\ core_procs' = core_procs
    BY <1>1, MonitorFrame
  <1>3. core_procs \in Seq(Procs)
    BY Launched, SeqMonotonic DEF ListType
  <1>4. /\ again' \in Seq(Procs) /\ Held(again') = Held(core_procs)
        /\ Len(again') = Len(core_procs)
        /\ \A m \in 1..Len(core_procs) : again'[m] = core_procs[Len(core_procs) + 1 - m]
    BY <1>1, <1>3, HeldReverse
  <1>5. todo' \in Seq(Procs) /\ Held(todo') = Held(procs) \ Held(core_procs)
    <2>1. PICK f \in Seq(Procs) : /\ f = Filter(procs, Procs \ Held(core_procs))
                                  /\ Held(f) = Held(procs) \cap (Procs \ Held(core_procs))
      BY FilterMembers DEF ListType
    <2>2. todo' \in Seq(Procs) /\ Held(todo') = Held(f)  BY <1>1, <2>1, HeldReverse
    <2>3. Held(procs) \subseteq Procs  BY DEF ListType, Held
    <2>4. QED  BY <2>1, <2>2, <2>3
  <1>6. ListType' /\ ProcType' /\ ShutdownInv'
    BY <1>1, <1>2, <1>4, <1>5 DEF ListType, ProcType, ShutdownInv, procVars
  <1>7. FreshInv'  BY <1>1, <1>2 DEF FreshInv, Running, procVars
  <1>8. RegisterInv' /\ CoreInv'  BY <1>1, <1>2 DEF RegisterInv, CoreInv
  <1>9. CallInv' /\ RespawnInv'  BY <1>1 DEF CallInv, RespawnInv
  <1>10. RunInv'  BY <1>1, <1>2 DEF RunInv, Running, procVars
  <1>11. KillInv'
    <2>1. \A p \in Procs : Running(p)' <=> Running(p)  BY <1>1 DEF Running, procVars
    <2>2. Len(core_procs) \in Nat  BY <1>3, LenProperties
    <2>3. ASSUME NEW p \in Held(todo'), p \in Core  PROVE ~Running(p)
      <3>1. p \in Held(procs) /\ p \notin Held(core_procs)  BY <1>5, <2>3
      <3>2. main.at = "core" /\ p = p_n  BY <2>3, <3>1 DEF CoreInv
      <3>3. QED  BY <3>2, BeingLaunched DEF FreshInv, Launching, p_n
    <2>4. \A p \in Procs : Running(p) /\ p \notin late => p \in Held(todo') \/ p \in Held(again')
      BY <1>4, <1>5 DEF RunInv
    <2>5. Held(todo') \subseteq Procs  BY <1>5 DEF ListType, Held
    <2>6. QED  BY <1>2, <1>4, <2>1, <2>2, <2>3, <2>4, <2>5 DEF KillInv
  <1>12. QED  BY <1>2, <1>6, <1>7, <1>8, <1>9, <1>10, <1>11

\* A process is stopped in _post_run and leaves one of the two lists.
LEMMA KilledOne ==
    ASSUME IInv, MonitorLeaves, monitor = "kill", NEW p \in Procs, stop(p),
           UNCHANGED <<monitor, procs, is_shutdown, done, dead, respawn>>,
           todo' \in Seq(Procs), again' \in Seq(Procs),
           Held(todo') \subseteq Held(todo),
           \A q \in Procs : q # p =>
             (q \in Held(todo) \/ q \in Held(again) => q \in Held(todo') \/ q \in Held(again')),
           Len(again') <= Len(again),
           \A m \in 1..Len(again') : again'[m] = core_procs[Len(again') + 1 - m],
           again' = again \/ todo = <<>>
    PROVE  IInv'
  <1> USE DEF IInv
  <1>1. /\ MainType' /\ LockInv' /\ p_n' = p_n
        /\ \A j : (Fresh(j)' <=> Fresh(j)) /\ (Unregistered(j)' <=> Unregistered(j))
        /\ main' = main /\ late' = late /\ core_procs' = core_procs
    BY MonitorFrame
  <1>2. /\ ProcType' /\ started' = started
        /\ \A q \in Procs : Running(q)' => Running(q) /\ q # p /\ popen'[q]
    BY StopProc
  <1>3. ListType' /\ ShutdownInv'  BY <1>1 DEF ListType, ShutdownInv
  <1>4. FreshInv'  BY <1>1, <1>2, Launched DEF FreshInv
  <1>5. RegisterInv' /\ CoreInv'  BY <1>1 DEF RegisterInv, CoreInv
  <1>6. CallInv' /\ RespawnInv'  BY DEF CallInv, RespawnInv
  <1>7. RunInv'  BY <1>1, <1>2 DEF RunInv
  <1>8. KillInv'
    <2>1. Held(todo) \subseteq Procs /\ Held(core_procs) \subseteq Core
      BY DEF ListType, Held
    <2>2. \A q \in Procs : Running(q)' /\ q \notin late => q \in Held(todo') \/ q \in Held(again')
      BY <1>2 DEF KillInv
    <2>3. Len(again) \in Nat /\ Len(again') \in Nat /\ Len(core_procs) \in Nat
      BY LenProperties DEF ListType
    <2>4. Len(again') <= Len(core_procs)  BY <2>3 DEF KillInv
    <2>5. ASSUME Len(again') < Len(core_procs), NEW q \in Procs, Running(q)', q \notin late
          PROVE  q \in Core
      <3>1. Running(q)  BY <1>2, <2>5
      <3>2. CASE again' = again  BY <2>5, <3>1, <3>2 DEF KillInv
      <3>3. CASE todo = <<>>
        <4>1. q \in Held(again)
          BY <2>5, <3>1, <3>3, EmptySeq DEF KillInv, Held
        <4>2. PICK m \in 1..Len(again) : again[m] = q
          BY <4>1, LenProperties DEF Held, ListType
        <4>3. q = core_procs[Len(again) + 1 - m]  BY <4>2 DEF KillInv
        <4>4. Len(again) + 1 - m \in 1..Len(core_procs)  BY <2>3, <4>2 DEF KillInv
        <4>5. QED  BY <4>3, <4>4, ElementOfSeq DEF ListType
      <3>4. QED  BY <3>2, <3>3
    <2>6. \A q \in Held(todo') : q \in Core /\ Running(q)' => q \in late
      BY <1>2, <2>1 DEF KillInv
    <2>7. QED  BY <1>1, <2>2, <2>4, <2>5, <2>6 DEF KillInv
  <1>9. QED  BY <1>1, <1>2, <1>3, <1>4, <1>5, <1>6, <1>7, <1>8

\* A killer thread stops an ordinary process.
LEMMA KillStep == ASSUME IInv, NEW p \in Procs, kill(p)  PROVE IInv'
  <1>1. /\ MonitorLeaves /\ monitor = "kill" /\ stop(p)
        /\ UNCHANGED <<monitor, procs, is_shutdown, done, dead, respawn>> /\ again' = again
        /\ todo' = Filter(todo, Procs \ {p})
    BY DEF kill, On
  <1>2. todo' \in Seq(Procs) /\ Held(todo') = Held(todo) \cap (Procs \ {p})
    BY <1>1, FilterMembers DEF IInv, ListType
  <1>3. again' \in Seq(Procs) /\ Len(again) \in Nat
    BY <1>1, LenProperties DEF IInv, ListType
  <1>4. \A m \in 1..Len(again') : again'[m] = core_procs[Len(again') + 1 - m]
    BY <1>1 DEF IInv, KillInv
  <1>5. \A q \in Procs : q # p =>
           (q \in Held(todo) \/ q \in Held(again) => q \in Held(todo') \/ q \in Held(again'))
    BY <1>1, <1>2
  <1>6. Held(todo') \subseteq Held(todo)  BY <1>2
  <1>7. Len(again') = Len(again)  BY <1>1
  <1>8. Len(again') <= Len(again)  BY <1>3, <1>7
  <1>9. QED  BY <1>1, <1>2, <1>3, <1>4, <1>5, <1>6, <1>8, KilledOne

\* A core process is stopped.
LEMMA KillCoreStep == ASSUME IInv, kill_core  PROVE IInv'
  <1>a. PICK p \in Procs : p = Head(again)
    BY HeldTail DEF IInv, ListType, kill_core
  <1>1. /\ MonitorLeaves /\ monitor = "kill" /\ stop(p)
        /\ UNCHANGED <<monitor, procs, is_shutdown, done, dead, respawn>> /\ todo' = todo
        /\ again' = Tail(again) /\ todo = <<>> /\ again # <<>>
    BY <1>a DEF kill_core, killers_done, On
  <1>2. again \in Seq(Procs) /\ todo' \in Seq(Procs)  BY <1>1 DEF IInv, ListType
  <1>3. /\ again' \in Seq(Procs) /\ Held(again) = Held(again') \cup {p}
        /\ Len(again') = Len(again) - 1
        /\ \A i \in 1..Len(again') : again'[i] = again[i + 1]
    BY <1>a, <1>1, <1>2, HeldTail
  <1>4. Len(again) \in Nat /\ Len(again') \in Nat  BY <1>2, <1>3, LenProperties
  <1>5. ASSUME NEW m \in 1..Len(again')  PROVE again'[m] = core_procs[Len(again') + 1 - m]
    <2>a. PICK k \in Nat, l \in Nat : k = Len(again) /\ l = Len(again')  BY <1>4
    <2>b. k = l + 1 /\ m \in 1..l  BY ONLY <1>3, <2>a, m \in 1..Len(again')
    <2>c. m + 1 \in 1..k /\ k + 1 - (m + 1) = l + 1 - m
      BY ONLY <2>b, k \in Nat, l \in Nat
    <2>1. m + 1 \in 1..Len(again) /\ Len(again) + 1 - (m + 1) = Len(again') + 1 - m
      BY ONLY <2>a, <2>c
    <2>2. again[m + 1] = core_procs[Len(again) + 1 - (m + 1)]
      BY <1>1, <2>1 DEF IInv, KillInv
    <2>3. QED  BY <1>3, <2>1, <2>2
  <1>6. Len(again') <= Len(again)  BY <1>3, <1>4
  <1>7. QED  BY <1>1, <1>2, <1>3, <1>5, <1>6, KilledOne

\* When both lists are empty only what was started late can run.
LEMMA PostRunDoneStep == ASSUME IInv, post_run_done  PROVE IInv'
  <1> USE DEF IInv
  <1>1. /\ UNCHANGED <<main, plock, rpcVars, is_shutdown, runVars, procVars, late>>
        /\ monitor = "kill" /\ monitor' = "end" /\ procs' = <<>> /\ core_procs' = <<>>
        /\ todo = <<>> /\ again = <<>>
    BY DEF post_run_done, On, killers_done
  <1>2. <<>> \in Seq(Procs) /\ <<>> \in Seq(Core) /\ Held(<<>>) = {} /\ NoRepeats(<<>>)
    BY EmptySeq DEF Held, NoRepeats
  <1>3. MainType' /\ LockInv' /\ ListType' /\ ProcType' /\ ShutdownInv'
    BY <1>1, <1>2
    DEF MainType, LockInv, ListType, ProcType, ShutdownInv, rpcVars, runVars, procVars
  <1>4. \A j : (Fresh(j)' <=> Fresh(j)) /\ (Unregistered(j)' <=> Unregistered(j)) /\ p_n' = p_n
    BY <1>1 DEF Fresh, Unregistered, p_n
  <1>5. FreshInv'  BY <1>1, <1>2, <1>4 DEF FreshInv, Running, runVars, procVars
  <1>6. RegisterInv' /\ CoreInv'  BY <1>1, <1>2, <1>4 DEF RegisterInv, CoreInv
  <1>7. CallInv' /\ RespawnInv' /\ KillInv'
    BY <1>1 DEF CallInv, RespawnInv, KillInv, runVars
  <1>8. RunInv'
    <2>1. \A p \in Procs : Running(p) => p \in late  BY <1>1, <1>2 DEF KillInv
    <2>2. QED  BY <1>1, <2>1 DEF RunInv, Running, procVars
  <1>9. QED  BY <1>3, <1>5, <1>6, <1>7, <1>8

-----------------------------------------------------------------------------
(* The theorems.                                                           *)

\* The first state.
LEMMA InitInv == ASSUME Init  PROVE IInv
  <1> USE DEF Init
  <1>1. main.n = 1 /\ main.at \in {"lock", "complete"} /\ MainType
    BY Launched DEF Launch, MainType, Launching
  <1>2. <<>> \in Seq(Procs) /\ <<>> \in Seq(Core) /\ Held(<<>>) = {} /\ NoRepeats(<<>>)
    BY EmptySeq DEF Held, NoRepeats
  <1>3. ListType /\ ProcType /\ ShutdownInv  BY <1>2 DEF ListType, ProcType, ShutdownInv
  <1>4. LockInv  BY <1>1 DEF LockInv
  <1>5. FreshInv /\ RunInv  BY <1>2, Launched DEF FreshInv, RunInv, Running
  <1>6. RegisterInv /\ CoreInv  BY <1>1, <1>2 DEF RegisterInv, CoreInv
  <1>7. CallInv /\ RespawnInv /\ KillInv  BY <1>2 DEF CallInv, RespawnInv, KillInv
  <1>8. QED  BY <1>1, <1>3, <1>4, <1>5, <1>6, <1>7 DEF IInv

\* The main thread.
LEMMA MainStep == ASSUME IInv, Main  PROVE IInv'
  BY RegisterLockStep, RegisterStep, RegisterCoreStep, StartStep, StartPopenStep,
     CompleteStep, SpinStep, AbortStep, SignalStep
  DEF Main

\* The monitor thread.
LEMMA MonitorStep == ASSUME IInv, Monitor  PROVE IInv'
  BY CopyStep, PollStep, PollCallStep, PolledStep, BuryStep, BuriedStep, RespawnNowStep,
     RespawnLaterStep, RespawnedStep, PostRunStep, KillStep, KillCoreStep, PostRunDoneStep
  DEF Monitor

\* Nothing happens.
LEMMA StutterStep == ASSUME IInv, UNCHANGED vars  PROVE IInv'
  <1>1. /\ UNCHANGED <<main, monitor, listVars, is_shutdown, done, runVars, late, started>>
        /\ UNCHANGED <<plock, victim, os, popen, stopped, lock>>
    BY DEF vars, flagVars, rpcVars, procVars
  <1>2. ProcType' /\ LockInv'  BY <1>1 DEF IInv, ProcType, LockInv
  <1>3. \A q \in Procs : Running(q)' => Running(q) /\ popen'[q]
    BY <1>1 DEF IInv, RunInv, Running
  <1>4. QED  BY <1>1, <1>2, <1>3, FewerRun

(***************************************************************************)
(* The invariant holds in every reachable state.                           *)
(***************************************************************************)
THEOREM InvariantHolds == Spec => []IInv
  <1>1. Init => IInv  BY InitInv
  <1>2. IInv /\ [Next]_vars => IInv'
    BY MainStep, MonitorStep, SignalStep, KillProcessStep, ExitStep, StutterStep DEF Next
  <1>3. QED  BY <1>1, <1>2, PTL DEF Spec

(***************************************************************************)
(* Whatever the launch, the kills, the exits and the signal do at the same *)
(* time: when the monitor thread has ended no process runs but one whose   *)
(* start() came after its stop().                                          *)
(***************************************************************************)
THEOREM MonitorLeavesNothing == Spec => []NothingLeft
  <1>1. IInv => NothingLeft  BY InvImplies
  <1>2. QED  BY <1>1, InvariantHolds, PTL

(***************************************************************************)
(* The master is stopped last: once _post_run has stopped a core process,  *)
(* what still runs are core processes registered before it.                *)
(***************************************************************************)
THEOREM CoreIsKilledLast == Spec => []CoreLast
  <1>1. IInv => CoreLast  BY InvImplies
  <1>2. QED  BY <1>1, InvariantHolds, PTL
=============================================================================
