-------------------------- MODULE Keeplive_proofs --------------------------
(***************************************************************************)
(* Proofs about module Keeplive, for any number of probes and threads.     *)
(***************************************************************************)
EXTENDS Keeplive, TLAPS

\* The inductive invariant.  A handler joins a thread that was created a
\* moment ago and is not in the handler itself, so it never closes a circle;
\* JoinsAreSound says why the new thread is not in the handler.
Inv == TypeOK /\ JoinsAreSound /\ NoJoinCycle

\* The invariant holds at the start, when nobody is in the handler.
LEMMA InitInv == Init => Inv
<1> SUFFICES ASSUME Init PROVE Inv
  OBVIOUS
<1> USE KeepliveAssumption DEF Probes, Threads
<1>1. boot \in 1..(NumProbes + 1)
  BY DEF Init
<1>2. is_running \in [Probes -> BOOLEAN] /\ alive \in [Probes -> BOOLEAN] /\ pending \in BOOLEAN
  BY Zenon DEF Init
<1>3. joins \in [Threads -> Probes \union {NULL, Woken}]
  BY DEF Init
<1>4. TypeOK
  BY <1>1, <1>2, <1>3 DEF TypeOK
<1>5. JoinsAreSound
  BY DEF Init, JoinsAreSound
<1>6. NoJoinCycle
  BY <1>3 DEF Init, NoJoinCycle
<1> QED BY <1>4, <1>5, <1>6 DEF Inv

\* A handler starts a probe again: no circle is closed.
LEMMA RestartInv ==
  ASSUME Inv, NEW th \in Threads, Restart(th)
  PROVE  Inv'
<1>1. PICK p \in Missing :
        /\ alive' = [alive EXCEPT ![p] = TRUE]
        /\ joins' = [joins EXCEPT ![th] = p]
  BY DEF Restart
<1>2. p \in Probes /\ p \in Threads /\ ~alive[p]
  BY <1>1 DEF Missing, Threads
<1>3. joins[p] = NULL /\ NULL \notin Threads /\ Woken \notin Threads
  BY <1>2, KeepliveAssumption DEF Inv, JoinsAreSound
<1>4. joins[th] = NULL /\ (th \in Probes => alive[th])
  BY DEF Restart, Takes
<1>5. th # p
  BY <1>2, <1>4
<1>6. TypeOK'
  <2>1. alive' \in [Probes -> BOOLEAN]
    BY <1>1, <1>2 DEF Inv, TypeOK
  <2>2. joins' \in [Threads -> Probes \union {NULL, Woken}]
    BY <1>1, <1>2 DEF Inv, TypeOK
  <2>3. pending' \in BOOLEAN /\ boot' = boot /\ is_running' = is_running
    BY DEF Restart
  <2> QED BY <2>1, <2>2, <2>3 DEF Inv, TypeOK
<1>7. JoinsAreSound'
  <2>1. \A q \in Probes : alive'[q] = IF q = p THEN TRUE ELSE alive[q]
    BY <1>1 DEF Inv, TypeOK
  <2>2. \A x \in Threads : joins'[x] = IF x = th THEN p ELSE joins[x]
    BY <1>1 DEF Inv, TypeOK
  <2>3. \A x \in Threads : joins'[x] \in Probes => alive'[joins'[x]]
    BY <1>2, <2>1, <2>2 DEF Inv, JoinsAreSound
  <2>4. \A q \in Probes : ~alive'[q] => joins'[q] = NULL
    BY <1>4, <2>1, <2>2 DEF Inv, JoinsAreSound, Threads
  <2> QED BY <2>3, <2>4 DEF JoinsAreSound
<1>8. NoJoinCycle'
  <2> SUFFICES ASSUME NEW S \in (SUBSET Threads) \ {{}}
               PROVE  \E x \in S : joins'[x] \notin S
    BY DEF NoJoinCycle
  <2>1. \A x \in Threads : joins'[x] = IF x = th THEN p ELSE joins[x]
    BY <1>1 DEF Inv, TypeOK
  <2>2. CASE th \in S /\ p \in S
    BY <2>1, <2>2, <1>3, <1>5
  <2>3. CASE th \in S /\ p \notin S
    BY <2>1, <2>3
  <2>4. CASE th \notin S
    BY <2>1, <2>4 DEF Inv, NoJoinCycle
  <2> QED BY <2>2, <2>3, <2>4
<1> QED BY <1>6, <1>7, <1>8 DEF Inv

\* A probe ends: whoever joined it is released.
LEMMA ProbeEndsInv ==
  ASSUME Inv, NEW p \in Probes, ProbeEnds(p)
  PROVE  Inv'
<1>1. /\ alive' = [alive EXCEPT ![p] = FALSE]
      /\ joins' = [th \in Threads |-> IF joins[th] = p THEN Woken ELSE joins[th]]
      /\ joins[p] = NULL
  BY DEF ProbeEnds
<1>2. Woken \notin Threads /\ NULL \notin Threads /\ p \in Threads /\ NULL # p /\ Woken # NULL
  BY KeepliveAssumption DEF Threads
<1>3. TypeOK'
  <2>1. alive' \in [Probes -> BOOLEAN]
    BY <1>1 DEF Inv, TypeOK
  <2>2. joins' \in [Threads -> Probes \union {NULL, Woken}]
    BY <1>1 DEF Inv, TypeOK
  <2> QED BY <2>1, <2>2 DEF ProbeEnds, Inv, TypeOK
<1>4. JoinsAreSound'
  BY <1>1, <1>2 DEF Inv, TypeOK, JoinsAreSound, Threads
<1>5. NoJoinCycle'
  <2> SUFFICES ASSUME NEW S \in (SUBSET Threads) \ {{}}
               PROVE  \E x \in S : joins'[x] \notin S
    BY DEF NoJoinCycle
  <2>1. PICK x \in S : joins[x] \notin S
    BY DEF Inv, NoJoinCycle
  <2> QED BY <1>1, <1>2, <2>1
<1> QED BY <1>3, <1>4, <1>5 DEF Inv

\* A handler returns.
LEMMA HandlerReturnsInv ==
  ASSUME Inv, NEW th \in Threads, HandlerReturns(th)
  PROVE  Inv'
<1>1. joins' = [joins EXCEPT ![th] = NULL] /\ NULL \notin Threads
  BY KeepliveAssumption DEF HandlerReturns
<1>2. \A x \in Threads : joins'[x] = IF x = th THEN NULL ELSE joins[x]
  BY <1>1 DEF Inv, TypeOK
<1>3. TypeOK'
  BY <1>1 DEF HandlerReturns, Inv, TypeOK
<1>4. JoinsAreSound'
  BY <1>1, <1>2 DEF HandlerReturns, Inv, JoinsAreSound, Threads
<1>5. NoJoinCycle'
  <2> SUFFICES ASSUME NEW S \in (SUBSET Threads) \ {{}}
               PROVE  \E x \in S : joins'[x] \notin S
    BY DEF NoJoinCycle
  <2>1. PICK x \in S : joins[x] \notin S
    BY DEF Inv, NoJoinCycle
  <2> QED BY <1>1, <1>2, <2>1
<1> QED BY <1>3, <1>4, <1>5 DEF Inv

\* Every step keeps the invariant.
LEMMA NextInv == Inv /\ [Next]_vars => Inv'
<1> SUFFICES ASSUME Inv, [Next]_vars PROVE Inv'
  OBVIOUS
<1>1. CASE StartProbe
  <2>1. boot \in Probes /\ boot' = boot + 1 /\ alive' = [alive EXCEPT ![boot] = TRUE]
    BY <1>1 DEF StartProbe
  <2>2. boot' \in 1..(NumProbes + 1)
    BY <2>1, KeepliveAssumption DEF Probes
  <2>3. TypeOK'
    BY <1>1, <2>1, <2>2 DEF StartProbe, Inv, TypeOK
  <2>4. JoinsAreSound'
    BY <1>1, <2>1 DEF StartProbe, Inv, TypeOK, JoinsAreSound
  <2> QED BY <1>1, <2>3, <2>4 DEF StartProbe, Inv, NoJoinCycle
<1>2. CASE SkipProbe
  <2>1. boot' \in 1..(NumProbes + 1)
    BY <1>2, KeepliveAssumption DEF SkipProbe, Probes
  <2> QED BY <1>2, <2>1 DEF SkipProbe, Inv, TypeOK, JoinsAreSound, NoJoinCycle
<1>3. CASE TimerFires
  <2>1. pending' \in BOOLEAN
    BY <1>3, Zenon DEF TimerFires
  <2> QED BY <1>3, <2>1 DEF TimerFires, Inv, TypeOK, JoinsAreSound, NoJoinCycle
<1>4. ASSUME NEW th \in Threads, Restart(th)
      PROVE  Inv'
  BY <1>4, RestartInv
<1>5. ASSUME NEW th \in Threads, NothingToDo(th)
      PROVE  Inv'
  <2>1. pending' \in BOOLEAN
    BY <1>5, Zenon DEF NothingToDo
  <2> QED BY <1>5, <2>1 DEF NothingToDo, Inv, TypeOK, JoinsAreSound, NoJoinCycle
<1>6. ASSUME NEW p \in Probes, ProbeEnds(p)
      PROVE  Inv'
  BY <1>6, ProbeEndsInv
<1>7. ASSUME NEW th \in Threads, HandlerReturns(th)
      PROVE  Inv'
  BY <1>7, HandlerReturnsInv
<1>8. CASE UNCHANGED vars
  BY <1>8 DEF vars, Inv, TypeOK, JoinsAreSound, NoJoinCycle
<1> QED
  BY <1>1, <1>2, <1>3, <1>4, <1>5, <1>6, <1>7, <1>8 DEF Next, DaemonRun, DaemonKeeplive

\* A handler of DaemonKeeplive only ever joins the thread of a probe.
THEOREM KeepliveTypes == Spec => []TypeOK
<1>1. Inv => TypeOK
  BY DEF Inv
<1> QED BY InitInv, NextInv, <1>1, PTL DEF Spec

\* The handlers of DaemonKeeplive never join each other in a circle.
THEOREM NoDeadlockOfHandlers == Spec => []NoJoinCycle
<1>1. Inv => NoJoinCycle
  BY DEF Inv
<1> QED BY InitInv, NextInv, <1>1, PTL DEF Spec

\* Whatever probes end and whichever threads took the earlier signals, some
\* thread is left to take the next one.
THEOREM SignalsAreTaken == Spec => []SomeoneListens
<1>1. Inv => SomeoneListens
  <2> SUFFICES ASSUME Inv PROVE SomeoneListens
    OBVIOUS
  <2> DEFINE S == {th \in Threads : th \in Probes => alive[th]}
  <2>1. Main \in S
    BY KeepliveAssumption DEF Threads
  <2>2. S \in (SUBSET Threads) \ {{}}
    BY <2>1
  <2> HIDE DEF S
  <2>3. PICK th \in S : joins[th] \notin S
    BY <2>2 DEF Inv, NoJoinCycle
  <2>4. th \in Threads /\ (th \in Probes => alive[th])
    BY <2>3 DEF S
  <2>5. joins[th] \notin Probes
    <3> SUFFICES ASSUME joins[th] \in Probes PROVE FALSE
      OBVIOUS
    <3>1. alive[joins[th]]
      BY <2>4 DEF Inv, JoinsAreSound
    <3>2. joins[th] \in S
      BY <3>1 DEF S, Threads
    <3> QED BY <2>3, <3>2
  <2> QED BY <2>4, <2>5 DEF SomeoneListens
<1> QED BY InitInv, NextInv, <1>1, PTL DEF Spec
=============================================================================
