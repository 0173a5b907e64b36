------------------------------ MODULE Keeplive ------------------------------
(***************************************************************************)
(* How the daemon starts its extend probes and keeps them alive.           *)
(*                                                                         *)
(* A timer raises SIGUSR1 for the process.  The handler runs in whatever   *)
(* thread takes the signal; it looks for an extend probe whose thread has  *)
(* ended, starts a new one and joins it, inside the handler.  That thread  *)
(* does nothing else until the new probe ends, and SIGUSR1 is blocked in   *)
(* it meanwhile.                                                           *)
(*                                                                         *)
(* A thread of an extend probe ends when the output of its child process   *)
(* ends.  The loop of the handler takes a moment and the timer 120 s, so   *)
(* the loop is one step.                                                   *)
(***************************************************************************)
EXTENDS Integers

CONSTANTS
  NumProbes,    \* extendProbeMgr->probesNum
  System,       \* the other threads: main, ingress, egress, web server, ...
  Main,         \* the main thread
  MainFirst,    \* the kernel gives the signal to the main thread if it can
  NULL,         \* the thread is not in the handler
  Woken         \* the thread is in the handler, its pthread_join is done

Probes  == 1..NumProbes
Threads == System \union Probes

ASSUME KeepliveAssumption ==
  /\ NumProbes \in Nat
  /\ System \intersect Probes = {}
  /\ Main \in System
  /\ MainFirst \in BOOLEAN
  /\ NULL \notin Threads /\ Woken \notin Threads /\ NULL # Woken

VARIABLES
  boot,        \* the next extend probe that DaemonRun looks at
  is_running,  \* probe->is_running
  alive,       \* the thread probe->tid has not ended
  pending,     \* SIGUSR1 is pending
  joins        \* per thread: the probe its handler waits for

vars == <<boot, is_running, alive, pending, joins>>

\* The timer runs once DaemonRun is through.
TimerOn == boot > NumProbes

Init ==
  /\ boot = 1
  /\ is_running = [p \in Probes |-> FALSE]
  /\ alive = [p \in Probes |-> FALSE]
  /\ pending = FALSE
  /\ joins = [th \in Threads |-> NULL]

-----------------------------------------------------------------------------
\* switch is on, or auto and the start check counts something.
StartProbe ==
  /\ boot \in Probes
  /\ alive' = [alive EXCEPT ![boot] = TRUE]
  /\ is_running' = [is_running EXCEPT ![boot] = TRUE]
  /\ boot' = boot + 1
  /\ UNCHANGED <<pending, joins>>

\* switch is off, or auto and the start check fails.
SkipProbe ==
  /\ boot \in Probes
  /\ boot' = boot + 1
  /\ UNCHANGED <<is_running, alive, pending, joins>>

\* The child process closes its output and RunExtendProbe returns.  A thread
\* inside the handler cannot get there.
ProbeEnds(p) ==
  /\ alive[p]
  /\ joins[p] = NULL
  /\ alive' = [alive EXCEPT ![p] = FALSE]
  /\ joins' = [th \in Threads |-> IF joins[th] = p THEN Woken ELSE joins[th]]
  /\ UNCHANGED <<boot, is_running, pending>>

TimerFires ==
  /\ TimerOn
  /\ pending' = TRUE
  /\ UNCHANGED <<boot, is_running, alive, joins>>

\* A thread that can take the signal: it exists and does not block it.
Takes(th) ==
  /\ pending
  /\ th \in Probes => alive[th]
  /\ joins[th] = NULL
  /\ MainFirst => th = Main \/ joins[Main] # NULL

\* Mutant of Missing: the return value of pthread_kill is not looked at.
Missing_Any == {p \in Probes : is_running[p]}

\* Mutant of Missing: the last probe of the table is not looked at.
Missing_SkipLast == {p \in 1..(NumProbes - 1) : is_running[p] /\ ~alive[p]}

\* pthread_kill(probe->tid, 0) == ESRCH.
Missing == {p \in Probes : is_running[p] /\ ~alive[p]}

\* DaemonKeeplive starts the first missing probe again and joins it.
Restart(th) ==
  /\ Takes(th)
  /\ \E p \in Missing :
       /\ \A q \in Missing : p <= q
       /\ alive' = [alive EXCEPT ![p] = TRUE]
       /\ joins' = [joins EXCEPT ![th] = p]
  /\ pending' = FALSE
  /\ UNCHANGED <<boot, is_running>>

\* Nothing is missing.
NothingToDo(th) ==
  /\ Takes(th)
  /\ Missing = {}
  /\ pending' = FALSE
  /\ UNCHANGED <<boot, is_running, alive, joins>>

\* pthread_join and the handler return.
HandlerReturns(th) ==
  /\ joins[th] = Woken
  /\ joins' = [joins EXCEPT ![th] = NULL]
  /\ UNCHANGED <<boot, is_running, alive, pending>>

-----------------------------------------------------------------------------
DaemonRun == StartProbe \/ SkipProbe

DaemonKeeplive == \E th \in Threads : Restart(th) \/ NothingToDo(th)

Next ==
  \/ DaemonRun
  \/ TimerFires
  \/ DaemonKeeplive
  \/ \E p \in Probes : ProbeEnds(p)
  \/ \E th \in Threads : HandlerReturns(th)

Spec == Init /\ [][Next]_vars

\* The timer is periodic, a pending signal is delivered, a thread whose join
\* is done goes on.  Probes need not end.
Fairness ==
  /\ WF_vars(DaemonRun)
  /\ WF_vars(TimerFires)
  /\ WF_vars(DaemonKeeplive)
  /\ \A th \in Threads : WF_vars(HandlerReturns(th))

FairSpec == Spec /\ Fairness
-----------------------------------------------------------------------------
(***************************************************************************)
(* Properties.                                                             *)
(***************************************************************************)
\* Types: DaemonRun looks at each extend probe once, and a handler joins an
\* extend probe or nothing.
TypeOK ==
  /\ boot \in 1..(NumProbes + 1)
  /\ is_running \in [Probes -> BOOLEAN]
  /\ alive \in [Probes -> BOOLEAN]
  /\ pending \in BOOLEAN
  /\ joins \in [Threads -> Probes \union {NULL, Woken}]

\* A handler waits for a thread that exists, and a thread that has ended was
\* not in the handler.  (Used by the proof of NoJoinCycle.)
JoinsAreSound ==
  /\ \A th \in Threads : joins[th] \in Probes => alive[joins[th]]
  /\ \A p \in Probes : ~alive[p] => joins[p] = NULL

(***************************************************************************)
(* The handlers never wait for each other in a circle, although the        *)
(* threads of the probes take the signal as well: in every set of threads  *)
(* there is one that does not wait for a member of the set.                *)
(***************************************************************************)
NoJoinCycle ==
  \A S \in (SUBSET Threads) \ {{}} : \E th \in S : joins[th] \notin S

(***************************************************************************)
(* So there is always a thread that is not waiting, and the next signal    *)
(* has somebody to take it.                                                *)
(***************************************************************************)
SomeoneListens ==
  \E th \in Threads : (th \in Probes => alive[th]) /\ joins[th] \notin Probes

Ended(p) == is_running[p] /\ ~alive[p]

\* A probe that ended is started again, provided that the probes before it in
\* the table stay up: the handler starts one probe per signal.
EndedIsRestarted ==
  \A p \in Probes :
    (<>[](\A q \in 1..(p - 1) : ~Ended(q))) => (Ended(p) ~> alive[p])

-----------------------------------------------------------------------------
(***************************************************************************)
(* What the documents of the repository say, and the code does not do.     *)
(***************************************************************************)

\* design_coe.md: a probe that ends abnormally is started again.
AllRestarted == \A p \in Probes : Ended(p) ~> alive[p]

=============================================================================
