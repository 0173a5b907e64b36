----------------------------- MODULE Ksli_proofs -----------------------------
(***************************************************************************)
(* Proofs about module Ksli: for any number of descriptors, socks and      *)
(* skbs, any period and any number of samples.                             *)
(***************************************************************************)
EXTENDS Ksli, SequenceTheorems, TLAPS

(***************************************************************************)
(* The type invariant in three parts, and what makes it inductive: a sock  *)
(* belongs to one descriptor, a system call is about an open one, read()   *)
(* has returned something, and a sample under way has a start.             *)
(***************************************************************************)
KernelTypes ==
  /\ sockOf \in [Fds -> Socks \union {NULL}]
  /\ call \in [Fds -> {"none", "read", "check", "write"}]
  /\ closing \subseteq Fds
  /\ queue \in [Socks -> Ages \union {NULL}] /\ got \in [Socks -> Ages \union {NULL}]
  /\ todo \in [Socks -> SUBSET {"own", "other"}]

OutTypes == unsent \in [Socks -> Seq(Out)] /\ inflight \in [Socks -> Seq(Out)]

ProbeTypes ==
  /\ conn \in [Fds -> ConnData \union {NULL}]
  /\ samp \in [Socks -> SampData \union {NULL}]

HistTypes ==
  /\ hist \in [Socks -> [arr : Ages, rd : Ages, late : BOOLEAN, done : BOOLEAN]]
  /\ seen \in [Fds -> SUBSET Rtts]

Calls ==
  /\ \A f, g \in Fds : sockOf[f] # NULL /\ sockOf[f] = sockOf[g] => f = g
  /\ \A f \in Fds : call[f] # "none" => sockOf[f] # NULL
  /\ \A f \in Fds : call[f] = "check" => got[sockOf[f]] # NULL

HasStart == \A s \in Socks : UnderWay(s) => samp[s].start # NULL

IInv == KernelTypes /\ OutTypes /\ ProbeTypes /\ HistTypes /\ Calls /\ HasStart

-----------------------------------------------------------------------------
\* Ages grow and stay ages, and what is not one stays as it is.
LEMMA OlderIsAge == \A a \in Ages \union {NULL} :
                      /\ Older(a) \in Ages \union {NULL}
                      /\ Older(a) = NULL <=> a = NULL
BY KsliAssumption DEF Older, Ages, FUTURE

LEMMA OlderIsStart == \A a \in Starts :
                        /\ Older(a) \in Starts
                        /\ Older(a) = NULL <=> a = NULL
                        /\ Older(a) = FUTURE <=> a = FUTURE
BY KsliAssumption DEF Older, Ages, Starts, FUTURE

LEMMA OlderOfAge == \A a \in Ages : Older(a) \in Ages
BY KsliAssumption DEF Older, Ages, FUTURE

LEMMA StartKinds == Ages \union {NULL} \subseteq Starts /\ FUTURE \in Starts /\ FUTURE # NULL
                    /\ FUTURE \notin Ages /\ NULL \notin Ages
BY KsliAssumption DEF Starts, Ages, FUTURE

\* What a write() on f does to its sock t: an skb more, and what is left to be written.
Piece(f, t, x, l, w) ==
  /\ t = sockOf[f]
  /\ x.skb \notin SkbsOf(unsent[t]) /\ x.skb \notin SkbsOf(inflight[t])
  /\ UnderWay(t) /\ "own" \in todo[t] => x.own \/ l
  /\ unsent' = [unsent EXCEPT ![t] = Append(unsent[t], x)]
  /\ todo' = [todo EXCEPT ![t] = w]
  /\ hist' = [hist EXCEPT ![t].late = hist[t].late \/ l]
  /\ call' = [call EXCEPT ![f] = "write"]
  /\ UNCHANGED <<sockOf, closing, conn, samp, queue, got, inflight, seen>>

LEMMA OnePiece ==
  ASSUME KernelTypes, Calls, NEW f \in Fds, WriteEnter(f) \/ WriteMore(f)
  PROVE  \E t \in Socks, x \in Out, l \in BOOLEAN, w \in {{}, {"other"}} : Piece(f, t, x, l, w)
<1>1. PICK t \in Socks : t = sockOf[f] /\ Written(t)
  BY KsliAssumption DEF WriteEnter, WriteMore, KernelTypes, Calls
<1>2. call' = [call EXCEPT ![f] = "write"]
      /\ UNCHANGED <<sockOf, closing, conn, samp, queue, got, inflight, seen>>
  BY DEF WriteEnter, WriteMore, KernelTypes
<1> DEFINE own == "own" \in todo[t]
<1>3. PICK b \in FreeSkbs, all \in BOOLEAN :
        /\ unsent' = [unsent EXCEPT ![t] = Append(unsent[t], [skb |-> b, own |-> own /\ all])]
        /\ todo' = [todo EXCEPT ![t] = IF all THEN {} ELSE {"other"}]
        /\ hist' = [hist EXCEPT ![t].late = hist[t].late \/ (UnderWay(t) /\ own /\ ~all)]
  BY <1>1, Zenon DEF Written
<1>4. PICK x : x = [skb |-> b, own |-> own /\ all]
  OBVIOUS
<1>5. b \in Skbs /\ b \notin SkbsOf(unsent[t]) /\ b \notin SkbsOf(inflight[t])
  BY DEF FreeSkbs
<1>6. (own /\ all) \in BOOLEAN /\ (UnderWay(t) /\ own /\ ~all) \in BOOLEAN
  BY Zenon
<1>7. x \in Out /\ x.skb = b /\ x.own = (own /\ all)
  BY <1>4, <1>5, <1>6 DEF Out
<1>8. PICK l \in BOOLEAN : l = (UnderWay(t) /\ own /\ ~all)
  BY <1>6
<1>9. PICK w \in {{}, {"other"}} : w = IF all THEN {} ELSE {"other"}
  OBVIOUS
<1>10. UnderWay(t) /\ own => x.own \/ l
  BY <1>7, <1>8, Zenon
<1> QED
  BY <1>1, <1>2, <1>3, <1>4, <1>5, <1>7, <1>8, <1>9, <1>10, Zenon DEF Piece

\* Every step keeps the types of the kernel's state and what a call knows.
LEMMA NextKernel == IInv /\ [Next]_vars => KernelTypes' /\ Calls'
<1> SUFFICES ASSUME IInv, [Next]_vars PROVE KernelTypes' /\ Calls'
  OBVIOUS
<1> USE KsliAssumption DEF IInv, streamVars
<1>1. ASSUME NEW f \in Fds, NEW s \in Socks, Accept(f, s) \/ AcceptOther(f, s)
      PROVE  KernelTypes' /\ Calls'
  <2>1. UNCHANGED <<call, closing, queue, got, todo>> /\ sockOf' = [sockOf EXCEPT ![f] = s]
    BY <1>1 DEF Accept, AcceptOther
  <2>2. sockOf[f] = NULL /\ \A g \in Fds : sockOf[g] # s
    BY <1>1 DEF Accept, AcceptOther, Opened
  <2> QED
    BY <2>1, <2>2 DEF KernelTypes, Calls
<1>2. ASSUME NEW f \in Fds, CloseRelease(f) PROVE KernelTypes' /\ Calls'
  <2>1. sockOf[f] \in Socks /\ call[f] = "none"
    BY <1>2 DEF CloseRelease, KernelTypes
  <2>2. KernelTypes'
    BY <1>2, <2>1 DEF KernelTypes, CloseRelease
  <2>3. Calls'
    BY <1>2, <2>1 DEF KernelTypes, Calls, CloseRelease
  <2> QED
    BY <2>2, <2>3
<1>3. ASSUME NEW f \in Fds, CloseRet(f) PROVE KernelTypes' /\ Calls'
  BY <1>3 DEF KernelTypes, Calls, CloseRet
<1>4. ASSUME NEW f \in Fds, ReadEnter(f) PROVE KernelTypes' /\ Calls'
  BY <1>4 DEF KernelTypes, Calls, ReadEnter
<1>5. ASSUME NEW f \in Fds, ReadReturn(f) PROVE KernelTypes' /\ Calls'
  <2>1. sockOf[f] \in Socks /\ queue[sockOf[f]] # NULL
    BY <1>5 DEF ReadReturn, KernelTypes, Calls
  <2>2. /\ got' = [got EXCEPT ![sockOf[f]] = queue[sockOf[f]]]
        /\ queue' = [queue EXCEPT ![sockOf[f]] = NULL]
        /\ call' = [call EXCEPT ![f] = "check"]
        /\ UNCHANGED <<sockOf, closing, todo>>
    BY <1>5 DEF ReadReturn
  <2> QED
    BY <2>1, <2>2 DEF KernelTypes, Calls
<1>6. ASSUME NEW f \in Fds, NotSampled(f) PROVE KernelTypes' /\ Calls'
  <2>1. sockOf[f] \in Socks
    BY <1>6 DEF NotSampled, KernelTypes, Calls
  <2>2. KernelTypes'
    BY <1>6, <2>1 DEF KernelTypes, NotSampled
  <2>3. Calls'
    BY <1>6, <2>1 DEF KernelTypes, Calls, NotSampled
  <2> QED
    BY <2>2, <2>3
<1>7. ASSUME NEW f \in Fds, ReadReady(f) PROVE KernelTypes' /\ Calls'
  <2>1. sockOf[f] \in Socks
    BY <1>7 DEF ReadReady, KernelTypes, Calls
  <2>2. KernelTypes'
    BY <1>7, <2>1 DEF KernelTypes, ReadReady
  <2>3. Calls'
    BY <1>7, <2>1 DEF KernelTypes, Calls, ReadReady
  <2> QED
    BY <2>2, <2>3
<1>8. ASSUME NEW f \in Fds, WriteEnter(f) \/ WriteMore(f) PROVE KernelTypes' /\ Calls'
  <2>0. PICK t \in Socks, x \in Out, l \in BOOLEAN, w \in {{}, {"other"}} : Piece(f, t, x, l, w)
    BY <1>8, OnePiece, Zenon
  <2>1. /\ t = sockOf[f] /\ todo' = [todo EXCEPT ![t] = w]
        /\ call' = [call EXCEPT ![f] = "write"]
        /\ UNCHANGED <<sockOf, closing, queue, got>>
    BY <2>0 DEF Piece
  <2> QED
    BY <2>1 DEF KernelTypes, Calls
<1>9. ASSUME NEW f \in Fds, WriteReturn(f) PROVE KernelTypes' /\ Calls'
  BY <1>9 DEF KernelTypes, Calls, WriteReturn
<1>10. ASSUME NEW s \in Socks, Arrive(s) PROVE KernelTypes' /\ Calls'
  BY <1>10 DEF KernelTypes, Calls, Arrive, Ages
<1>11. ASSUME NEW s \in Socks, Sent(s) \/ Delivered(s) \/ Collapse(s) PROVE KernelTypes' /\ Calls'
  BY <1>11 DEF KernelTypes, Calls, Sent, Delivered, Collapse
<1>12. CASE Tick
  <2>1. \A s \in Socks : /\ queue'[s] \in Ages \union {NULL} /\ got'[s] \in Ages \union {NULL}
                         /\ got'[s] = NULL <=> got[s] = NULL
    <3> SUFFICES ASSUME NEW s \in Socks
                 PROVE  /\ queue'[s] \in Ages \union {NULL} /\ got'[s] \in Ages \union {NULL}
                        /\ got'[s] = NULL <=> got[s] = NULL
      OBVIOUS
    <3>1. queue'[s] = Older(queue[s]) /\ got'[s] = Older(got[s])
      BY <1>12 DEF Tick
    <3>2. queue[s] \in Ages \union {NULL} /\ got[s] \in Ages \union {NULL}
      BY DEF KernelTypes
    <3> QED
      BY <3>1, <3>2, OlderIsAge
  <2>2. KernelTypes'
    BY <1>12, <2>1 DEF KernelTypes, Tick
  <2>3. UNCHANGED <<sockOf, call>>
    BY <1>12 DEF Tick
  <2>4. \A f \in Fds : call[f] = "check" => got'[sockOf[f]] # NULL
    BY <2>1 DEF KernelTypes, Calls
  <2>5. Calls'
    BY <2>3, <2>4 DEF Calls
  <2> QED
    BY <2>2, <2>5
<1>13. CASE UNCHANGED vars
  BY <1>13 DEF KernelTypes, Calls, vars
<1> QED
  BY <1>1, <1>2, <1>3, <1>4, <1>5, <1>6, <1>7, <1>8, <1>9, <1>10, <1>11, <1>12, <1>13
     DEF Next, Server, Network, Read, ReadBusy, ReadUnknown

-----------------------------------------------------------------------------
\* Forgetting whose reply an skb holds keeps the types.
LEMMA OthersType == \A out \in Seq(Out) : Others(out) \in Seq(Out)
<1> SUFFICES ASSUME NEW out \in Seq(Out) PROVE Others(out) \in Seq(Out)
  OBVIOUS
<1>1. \A i \in 1..Len(out) : [out[i] EXCEPT !.own = FALSE] \in Out
  <2> TAKE i \in 1..Len(out)
  <2>1. out[i] \in Out
    OBVIOUS
  <2> QED
    BY <2>1 DEF Out
<1>2. Others(out) = [i \in 1..Len(out) |-> [out[i] EXCEPT !.own = FALSE]]
  BY DEF Others
<1> QED
  BY <1>1, <1>2

\* Every step keeps the types of what is on its way.
LEMMA NextOut == IInv /\ [Next]_vars => OutTypes'
<1> SUFFICES ASSUME IInv, [Next]_vars PROVE OutTypes'
  OBVIOUS
<1> USE KsliAssumption DEF IInv, streamVars
<1>1. CASE UNCHANGED <<unsent, inflight>>
  BY <1>1 DEF OutTypes
<1>2. ASSUME NEW f \in Fds, CloseRelease(f) PROVE OutTypes'
  <2>1. /\ unsent' = [unsent EXCEPT ![sockOf[f]] = <<>>]
        /\ inflight' = [inflight EXCEPT ![sockOf[f]] = <<>>]
    BY <1>2 DEF CloseRelease
  <2>2. <<>> \in Seq(Out)
    OBVIOUS
  <2> QED
    BY <2>1, <2>2 DEF OutTypes
<1>3. ASSUME NEW f \in Fds, ReadReady(f) PROVE OutTypes'
  <2>1. sockOf[f] \in Socks
    BY <1>3 DEF ReadReady, KernelTypes, Calls
  <2>2. Others(unsent[sockOf[f]]) \in Seq(Out) /\ Others(inflight[sockOf[f]]) \in Seq(Out)
    BY <2>1, OthersType DEF OutTypes
  <2> QED
    BY <1>3, <2>2 DEF OutTypes, ReadReady
<1>4. ASSUME NEW f \in Fds, WriteEnter(f) \/ WriteMore(f) PROVE OutTypes'
  <2>0. PICK t \in Socks, x \in Out, l \in BOOLEAN, w \in {{}, {"other"}} : Piece(f, t, x, l, w)
    BY <1>4, OnePiece, Zenon
  <2>1. unsent' = [unsent EXCEPT ![t] = Append(unsent[t], x)] /\ UNCHANGED inflight
    BY <2>0 DEF Piece
  <2>2. Append(unsent[t], x) \in Seq(Out)
    BY DEF OutTypes
  <2> QED
    BY <2>1, <2>2 DEF OutTypes
<1>5. ASSUME NEW s \in Socks, Sent(s) PROVE OutTypes'
  <2>1. unsent[s] \in Seq(Out) /\ inflight[s] \in Seq(Out) /\ unsent[s] # <<>>
    BY <1>5 DEF OutTypes, Sent
  <2>2. Tail(unsent[s]) \in Seq(Out) /\ Head(unsent[s]) \in Out
    BY <2>1
  <2>3. Append(inflight[s], Head(unsent[s])) \in Seq(Out)
    BY <2>1, <2>2
  <2> QED
    BY <1>5, <2>2, <2>3 DEF OutTypes, Sent
<1>6. ASSUME NEW s \in Socks, Delivered(s) PROVE OutTypes'
  <2>1. Tail(inflight[s]) \in Seq(Out)
    BY <1>6 DEF OutTypes, Delivered
  <2> QED
    BY <1>6, <2>1 DEF OutTypes, Delivered
<1>7. ASSUME NEW s \in Socks, Collapse(s) PROVE OutTypes'
  <2> DEFINE q == inflight[s]
             a == [q[1] EXCEPT !.own = @ \/ q[2].own]
  <2>1. q \in Seq(Out) /\ Len(q) >= 2
    BY <1>7 DEF OutTypes, Collapse
  <2>2. q[1] \in Out /\ q[2] \in Out
    BY <2>1
  <2>3. (q[1].own \/ q[2].own) \in BOOLEAN
    BY Zenon
  <2>4. a \in Out
    BY <2>2, <2>3 DEF Out
  <2>5. Tail(q) \in Seq(Out) /\ Tail(q) # <<>>
    <3> HIDE DEF q
    <3>1. Len(<<>>) = 0
      BY EmptySeq
    <3>2. q # <<>>
      BY <2>1, <3>1
    <3>3. Tail(q) \in Seq(Out) /\ Len(Tail(q)) = Len(q) - 1 /\ Len(q) \in Nat
      BY <2>1, <3>2, HeadTailProperties, LenProperties
    <3>4. Len(Tail(q)) # 0
      BY <2>1, <3>3
    <3> QED
      BY <3>1, <3>3, <3>4, Zenon
  <2>6. Tail(Tail(q)) \in Seq(Out)
    BY <2>5, HeadTailProperties
  <2>7. <<a>> \in Seq(Out)
    BY <2>4
  <2>8. <<a>> \o Tail(Tail(q)) \in Seq(Out)
    BY <2>6, <2>7
  <2>9. inflight' = [inflight EXCEPT ![s] = <<a>> \o Tail(Tail(q))] /\ unsent' = unsent
    BY <1>7 DEF Collapse
  <2> QED
    BY <2>8, <2>9 DEF OutTypes
<1> QED
  BY <1>1, <1>2, <1>3, <1>4, <1>5, <1>6, <1>7
     DEF Next, Server, Network, Read, ReadBusy, ReadUnknown, NotSampled, ReadReturn, Accept,
         AcceptOther, CloseRet, ReadEnter, WriteReturn, Arrive, Tick, vars

-----------------------------------------------------------------------------
\* A finished sample keeps the numbers of a connection in their types.
LEMMA CountedType ==
  ASSUME NEW c \in ConnData, NEW rtt \in Rtts
  PROVE  Counted(c, rtt) \in ConnData /\ Counted(c, rtt).sk = c.sk
<1> USE KsliAssumption
<1> DEFINE mx == IF c.n = 0 \/ rtt > c.max THEN rtt ELSE c.max
           mn == IF c.n = 0 \/ (rtt <= c.max /\ rtt < c.min) THEN rtt ELSE c.min
           nn == IF c.n = MaxSamples THEN c.n ELSE c.n + 1
<1>1. c.sk \in Socks /\ c.n \in 0..MaxSamples /\ c.last \in Ages /\ c.max \in Rtts /\ c.min \in Rtts
  BY DEF ConnData
<1>2. mx \in Rtts /\ mn \in Rtts /\ nn \in 0..MaxSamples
  BY <1>1
<1>3. Counted(c, rtt) = [sk |-> c.sk, n |-> nn, last |-> c.last, max |-> mx, min |-> mn,
                         recent |-> rtt]
  <2> HIDE DEF mx, mn, nn
  <2>1. Counted(c, rtt) = [c EXCEPT !.recent = rtt, !.max = mx, !.min = mn, !.n = nn]
    BY DEF Counted, mx, mn, nn
  <2> QED
    BY <2>1 DEF ConnData
<1> HIDE DEF mx, mn, nn
<1> QED
  BY <1>1, <1>2, <1>3 DEF ConnData

\* So does a report.
LEMMA ReportedType ==
  ASSUME NEW c \in ConnData
  PROVE  Reported(c) \in ConnData /\ Reported(c).sk = c.sk
<1> USE KsliAssumption
<1>1. CASE c.last >= Period
  <2>1. Reported(c) = [sk |-> c.sk, n |-> 0, last |-> 0, max |-> c.max, min |-> c.min,
                       recent |-> c.recent]
    BY <1>1 DEF ConnData, Reported
  <2>2. 0 \in Ages /\ 0 \in 0..MaxSamples
    BY DEF Ages
  <2> QED
    BY <2>1, <2>2 DEF ConnData
<1>2. CASE ~(c.last >= Period)
  BY <1>2 DEF Reported
<1> QED
  BY <1>1, <1>2

\* A sample has the status of its record.
LEMMA StatusOf ==
  ASSUME ProbeTypes, NEW s \in Socks, Status(s) # "none"
  PROVE  samp[s] \in SampData /\ Status(s) = samp[s].status
BY DEF ProbeTypes, Status

\* Changing one sample to one that is not under way without a start.
LEMMA OneSample ==
  ASSUME ProbeTypes, HasStart, NEW t \in Socks, NEW m \in SampData \union {NULL},
         samp' = [samp EXCEPT ![t] = m],
         m \in SampData /\ m.status \in {"READ_READY", "WRITE_READY", "SKB_READY"} => m.start # NULL
  PROVE  samp' \in [Socks -> SampData \union {NULL}] /\ HasStart'
<1>1. samp' \in [Socks -> SampData \union {NULL}] /\ samp'[t] = m
      /\ \A s \in Socks : s # t => samp'[s] = samp[s]
  BY DEF ProbeTypes
<1>2. ASSUME NEW s \in Socks, UnderWay(s)' PROVE samp'[s].start # NULL
  <2>1. CASE s = t
    BY <1>1, <1>2, <2>1 DEF UnderWay, Status
  <2>2. CASE s # t
    BY <1>1, <1>2, <2>2 DEF UnderWay, Status, HasStart
  <2> QED
    BY <2>1, <2>2
<1> QED
  BY <1>1, <1>2 DEF HasStart

\* Only accept4() and close() add and remove entries of the two maps.
SameEntries ==
  /\ \A f \in Fds : /\ conn'[f] = NULL <=> conn[f] = NULL
                    /\ conn[f] # NULL => conn'[f].sk = conn[f].sk
  /\ \A s \in Socks : samp'[s] = NULL <=> samp[s] = NULL

EntriesChange == \E f \in Fds : CloseRet(f) \/ \E s \in Socks : Accept(f, s)

\* Every step keeps the types of the two maps, and a sample under way has a start.
LEMMA NextProbe ==
  IInv /\ [Next]_vars => ProbeTypes' /\ HasStart' /\ (SameEntries \/ EntriesChange)
<1> SUFFICES ASSUME IInv, [Next]_vars
             PROVE  ProbeTypes' /\ HasStart' /\ (SameEntries \/ EntriesChange)
  OBVIOUS
<1> USE KsliAssumption DEF IInv, streamVars
<1>0. ASSUME UNCHANGED conn, NEW t \in Socks, samp[t] \in SampData, NEW m \in SampData,
             samp' = [samp EXCEPT ![t] = m],
             m.status \in {"READ_READY", "WRITE_READY", "SKB_READY"} => m.start # NULL
      PROVE  ProbeTypes' /\ HasStart' /\ SameEntries
  <2>1. ProbeTypes' /\ HasStart'
    BY <1>0, OneSample DEF ProbeTypes
  <2>2. \A s \in Socks : samp'[s] = NULL <=> samp[s] = NULL
    BY <1>0 DEF ProbeTypes
  <2> QED
    BY <1>0, <2>1, <2>2 DEF SameEntries
<1>1. ASSUME UNCHANGED <<conn, samp>> PROVE ProbeTypes' /\ HasStart' /\ SameEntries
  BY <1>1 DEF ProbeTypes, HasStart, UnderWay, Status, SameEntries
<1>2. ASSUME NEW f \in Fds, NEW s \in Socks, Accept(f, s) PROVE ProbeTypes' /\ HasStart'
  <2> DEFINE c == [sk |-> s, n |-> 0, last |-> Period, max |-> 0, min |-> 0, recent |-> 0]
  <2>1. conn' = [conn EXCEPT ![f] = c] /\ samp' = [samp EXCEPT ![s] = Fresh]
    BY <1>2 DEF Accept
  <2>2. c \in ConnData
    BY DEF ConnData, Ages, Rtts
  <2>3. Fresh \in SampData /\ Fresh.status = "INIT"
    BY DEF Fresh, SampData, Ages, Starts, Rtts
  <2>4. conn' \in [Fds -> ConnData \union {NULL}]
    BY <2>1, <2>2 DEF ProbeTypes
  <2>5. samp' \in [Socks -> SampData \union {NULL}] /\ HasStart'
    BY <2>1, <2>3, OneSample
  <2> QED
    BY <2>4, <2>5 DEF ProbeTypes
<1>3. ASSUME NEW f \in Fds, CloseRet(f) PROVE ProbeTypes' /\ HasStart'
  <2>1. CASE conn[f] = NULL
    BY <1>1, <1>3, <2>1 DEF CloseRet
  <2>2. CASE conn[f] # NULL
    <3>1. conn[f].sk \in Socks
      BY <2>2 DEF ProbeTypes, ConnData
    <3>2. samp' = [samp EXCEPT ![conn[f].sk] = NULL] /\ conn' = [conn EXCEPT ![f] = NULL]
      BY <1>3, <2>2 DEF CloseRet
    <3>3. conn' \in [Fds -> ConnData \union {NULL}]
      BY <3>2 DEF ProbeTypes
    <3>4. samp' \in [Socks -> SampData \union {NULL}] /\ HasStart'
      <4>1. \A s \in Socks : samp'[s] = samp[s] \/ samp'[s] = NULL
        BY <3>2 DEF ProbeTypes
      <4> QED
        BY <3>2, <4>1 DEF ProbeTypes, HasStart, UnderWay, Status
    <3> QED
      BY <3>3, <3>4 DEF ProbeTypes
  <2> QED
    BY <2>1, <2>2
<1>4. ASSUME NEW f \in Fds, ReadEnter(f)
      PROVE  ProbeTypes' /\ HasStart' /\ SameEntries
  <2> DEFINE s == sockOf[f]
  <2>1. s \in Socks /\ UNCHANGED conn /\ Recvmsg(s)
    BY <1>4 DEF ReadEnter, KernelTypes
  <2>2. CASE UNCHANGED samp
    BY <1>1, <2>1, <2>2
  <2>3. CASE Status(s) \in {"INIT", "FINISHED"} /\ queue[s] # NULL
    <3> HIDE DEF s
    <3>1. PICK stamp \in Stamps(s) : samp' = [samp EXCEPT ![s].start = stamp]
      BY <2>1, <2>3 DEF Recvmsg
    <3>2. samp[s] \in SampData /\ samp[s].status \in {"INIT", "FINISHED"}
      BY <2>1, <2>3, StatusOf
    <3>3. stamp \in Starts
      BY <2>1, StartKinds DEF KernelTypes, Stamps
    <3> DEFINE m == [samp[s] EXCEPT !.start = stamp]
    <3>4. m \in SampData /\ m.status = samp[s].status
      BY <3>2, <3>3 DEF SampData
    <3>5. samp' = [samp EXCEPT ![s] = m]
      BY <3>1
    <3> QED
      BY <1>0, <2>1, <3>2, <3>4, <3>5
  <2> QED
    BY <2>1, <2>2, <2>3 DEF Recvmsg
<1>5. ASSUME NEW f \in Fds, ReadReturn(f)
      PROVE  ProbeTypes' /\ HasStart' /\ SameEntries
  <2>1. CASE ~Known(f)
    BY <1>1, <1>5, <2>1 DEF ReadReturn
  <2>2. CASE Known(f)
    <3> DEFINE c == Reported(conn[f])
    <3>1. conn[f] \in ConnData /\ conn[f].sk \in Socks
      BY <2>2 DEF ProbeTypes, ConnData, Known
    <3>2. c \in ConnData /\ c.sk = conn[f].sk
      BY <3>1, ReportedType
    <3>3. samp[c.sk] \in SampData
      BY <2>2, <3>1, <3>2 DEF Known, ProbeTypes
    <3>4. \/ conn' = [conn EXCEPT ![f] = c] /\ UNCHANGED samp
          \/ /\ conn' = [conn EXCEPT ![f] = Counted(c, samp[c.sk].rtt)]
             /\ samp' = [samp EXCEPT ![c.sk].status = "INIT"]
      BY <1>5, <2>2 DEF ReadReturn
    <3> HIDE DEF c
    <3>5. CASE conn' = [conn EXCEPT ![f] = c] /\ UNCHANGED samp
      BY <3>1, <3>2, <3>5 DEF ProbeTypes, HasStart, UnderWay, Status, SameEntries
    <3>6. CASE /\ conn' = [conn EXCEPT ![f] = Counted(c, samp[c.sk].rtt)]
               /\ samp' = [samp EXCEPT ![c.sk].status = "INIT"]
      <4> DEFINE m == [samp[c.sk] EXCEPT !.status = "INIT"]
      <4>1. m \in SampData /\ m.status = "INIT" /\ samp[c.sk].rtt \in Rtts
        BY <3>3 DEF SampData
      <4>2. samp' = [samp EXCEPT ![c.sk] = m]
        BY <3>6
      <4> HIDE DEF m
      <4>3. samp' \in [Socks -> SampData \union {NULL}] /\ HasStart'
        BY <3>1, <3>2, <4>1, <4>2, OneSample
      <4>4. Counted(c, samp[c.sk].rtt) \in ConnData /\ Counted(c, samp[c.sk].rtt).sk = c.sk
        BY <3>2, <4>1, CountedType
      <4>5. conn' \in [Fds -> ConnData \union {NULL}]
        BY <3>6, <4>4 DEF ProbeTypes
      <4>6. SameEntries
        <5>1. \A s \in Socks : samp'[s] = NULL <=> samp[s] = NULL
          BY <3>1, <3>2, <3>3, <4>1, <4>2 DEF ProbeTypes
        <5> QED
          BY <3>1, <3>2, <3>6, <4>4, <5>1 DEF ProbeTypes, SameEntries
      <4> QED
        BY <4>3, <4>5, <4>6 DEF ProbeTypes
    <3> QED
      BY <3>4, <3>5, <3>6
  <2> QED
    BY <2>1, <2>2
<1>6. ASSUME NEW f \in Fds, ReadBusy(f)
      PROVE  ProbeTypes' /\ HasStart' /\ SameEntries
  <2> DEFINE s == conn[f].sk
             m == [samp[s] EXCEPT !.status = "INIT", !.start = NULL]
  <2>1. s \in Socks /\ samp[s] \in SampData
    BY <1>6 DEF ReadBusy, Known, ProbeTypes, ConnData
  <2>2. UNCHANGED conn /\ (UNCHANGED samp \/ samp' = [samp EXCEPT ![s] = m])
    BY <1>6, <2>1 DEF ReadBusy, NotSampled, ProbeTypes
  <2>3. m \in SampData /\ m.status = "INIT"
    BY <2>1, StartKinds DEF SampData
  <2> HIDE DEF s, m
  <2> QED
    BY <1>0, <1>1, <2>1, <2>2, <2>3
<1>7. ASSUME NEW f \in Fds, ReadReady(f)
      PROVE  ProbeTypes' /\ HasStart' /\ SameEntries
  <2> DEFINE s == conn[f].sk
             b == IF samp[s].start = NULL THEN 0 ELSE samp[s].start
             m == [samp[s] EXCEPT !.status = "READ_READY", !.start = b]
  <2>1. s \in Socks /\ samp[s] \in SampData
    BY <1>7 DEF ReadReady, Known, ProbeTypes, ConnData
  <2>2. UNCHANGED conn /\ samp' = [samp EXCEPT ![s] = m]
    BY <1>7, <2>1 DEF ReadReady, ProbeTypes
  <2>3. b \in Starts /\ b # NULL
    BY <2>1 DEF SampData, Starts, Ages
  <2> HIDE DEF b
  <2>4. m \in SampData /\ m.start # NULL
    BY <2>1, <2>3 DEF SampData
  <2> HIDE DEF s, m
  <2> QED
    BY <1>0, <2>1, <2>2, <2>4
<1>8. ASSUME NEW s \in Socks, Sent(s)
      PROVE  ProbeTypes' /\ HasStart' /\ SameEntries
  <2> DEFINE b == Head(unsent[s]).skb
             m == [samp[s] EXCEPT !.status = "SKB_READY", !.skb = b]
  <2>1. UNCHANGED conn
    BY <1>8 DEF Sent
  <2>2. CASE Status(s) # "WRITE_READY"
    BY <1>1, <1>8, <2>1, <2>2 DEF Sent
  <2>3. CASE Status(s) = "WRITE_READY"
    <3>1. samp[s] \in SampData
      BY <2>3, StatusOf
    <3>2. samp' = [samp EXCEPT ![s] = m]
      BY <1>8, <2>3, <3>1 DEF Sent, ProbeTypes
    <3>3. unsent[s] \in Seq(Out) /\ unsent[s] # <<>>
      BY <1>8 DEF Sent, OutTypes
    <3>4. Head(unsent[s]) \in Out
      BY <3>3, HeadTailProperties
    <3>5. b \in Skbs
      BY <3>4 DEF Out
    <3> HIDE DEF b
    <3>6. m \in SampData /\ m.start = samp[s].start
      BY <3>1, <3>5 DEF SampData
    <3>7. samp[s].start # NULL
      BY <2>3 DEF HasStart, UnderWay
    <3> HIDE DEF m
    <3> QED
      BY <1>0, <2>1, <3>1, <3>2, <3>6, <3>7
  <2> QED
    BY <2>2, <2>3
<1>9. ASSUME NEW f \in Fds, WriteReturn(f)
      PROVE  ProbeTypes' /\ HasStart' /\ SameEntries
  <2> DEFINE s == conn[f].sk
             m == [samp[s] EXCEPT !.status = "WRITE_READY"]
  <2>1. UNCHANGED conn
    BY <1>9 DEF WriteReturn
  <2>2. CASE ~(Known(f) /\ Status(s) = "READ_READY")
    BY <1>1, <1>9, <2>1, <2>2 DEF WriteReturn
  <2>3. CASE Known(f) /\ Status(s) = "READ_READY"
    <3>1. s \in Socks /\ samp[s] \in SampData
      BY <2>3 DEF Known, ProbeTypes, ConnData
    <3>2. samp' = [samp EXCEPT ![s] = m]
      BY <1>9, <2>3, <3>1 DEF WriteReturn, ProbeTypes
    <3>3. m \in SampData /\ m.start = samp[s].start
      BY <3>1 DEF SampData
    <3>4. samp[s].start # NULL
      BY <2>3, <3>1 DEF HasStart, UnderWay
    <3> HIDE DEF s, m
    <3> QED
      BY <1>0, <2>1, <3>1, <3>2, <3>3, <3>4
  <2> QED
    BY <2>2, <2>3
<1>10. ASSUME NEW s \in Socks, Delivered(s)
      PROVE  ProbeTypes' /\ HasStart' /\ SameEntries
  <2> DEFINE m == [samp[s] EXCEPT !.status = "FINISHED", !.start = NULL,
                                  !.rtt = samp[s].start, !.skb = NULL]
             n == [samp[s] EXCEPT !.status = "INIT", !.skb = NULL]
  <2>1. UNCHANGED conn
    BY <1>10 DEF Delivered
  <2>2. CASE UNCHANGED samp
    BY <1>1, <2>1, <2>2
  <2>3. CASE Status(s) = "SKB_READY" /\ ~UNCHANGED samp
    <3>1. samp[s] \in SampData
      BY <2>3, StatusOf
    <3>2. samp' = Ended(s)
      BY <1>10, <2>3 DEF Delivered, Finished
    <3>3. CASE samp[s].start = FUTURE
      <4>1. samp' = [samp EXCEPT ![s] = n]
        BY <3>1, <3>2, <3>3 DEF Ended, ProbeTypes
      <4>2. n \in SampData /\ n.status = "INIT"
        BY <3>1 DEF SampData
      <4> HIDE DEF n
      <4> QED
        BY <1>0, <2>1, <3>1, <4>1, <4>2
    <3>4. CASE samp[s].start # FUTURE
      <4>1. samp' = [samp EXCEPT ![s] = m]
        BY <3>1, <3>2, <3>4 DEF Ended, ProbeTypes
      <4>2. samp[s].start \in Ages
        BY <2>3, <3>1, <3>4 DEF HasStart, UnderWay, SampData, Starts
      <4>3. m \in SampData /\ m.status = "FINISHED"
        BY <3>1, <4>2, StartKinds DEF SampData, Rtts
      <4> HIDE DEF m
      <4> QED
        BY <1>0, <2>1, <3>1, <4>1, <4>3
    <3> QED
      BY <3>3, <3>4
  <2> QED
    BY <1>10, <2>2, <2>3 DEF Delivered, Finished
<1>11. ASSUME Tick PROVE ProbeTypes' /\ HasStart' /\ SameEntries
  <2>1. ASSUME NEW s \in Socks, samp[s] # NULL
        PROVE  /\ samp'[s] \in SampData /\ samp'[s].status = samp[s].status
               /\ samp'[s].start = NULL <=> samp[s].start = NULL
    <3>1. samp[s] \in SampData /\ samp'[s] = [samp[s] EXCEPT !.start = Older(samp[s].start)]
      BY <1>11, <2>1 DEF Tick, ProbeTypes
    <3>2. samp[s].start \in Starts
      BY <3>1 DEF SampData
    <3>3. /\ Older(samp[s].start) \in Starts
          /\ Older(samp[s].start) = NULL <=> samp[s].start = NULL
      BY <3>2, OlderIsStart
    <3> QED
      BY <3>1, <3>3 DEF SampData
  <2>2. ASSUME NEW f \in Fds, conn[f] # NULL
        PROVE  conn'[f] \in ConnData /\ conn'[f].sk = conn[f].sk
    <3>1. conn[f] \in ConnData /\ conn'[f] = [conn[f] EXCEPT !.last = Older(conn[f].last)]
      BY <1>11, <2>2 DEF Tick, ProbeTypes
    <3>2. conn[f].last \in Ages
      BY <3>1 DEF ConnData
    <3>3. Older(conn[f].last) \in Ages
      BY <3>2, OlderOfAge
    <3> QED
      BY <3>1, <3>3 DEF ConnData
  <2>3. ProbeTypes'
    BY <1>11, <2>1, <2>2 DEF Tick, ProbeTypes
  <2>4. ASSUME NEW s \in Socks, UnderWay(s)' PROVE samp'[s].start # NULL
    <3>1. samp[s] # NULL
      BY <1>11, <2>4 DEF Tick, UnderWay, Status
    <3> QED
      BY <2>1, <2>4, <3>1 DEF HasStart, UnderWay, Status
  <2>5. SameEntries
    BY <1>11, <2>1, <2>2 DEF Tick, SameEntries
  <2> QED
    BY <2>3, <2>4, <2>5 DEF HasStart
<1> QED
  BY <1>1, <1>2, <1>3, <1>4, <1>5, <1>6, <1>7, <1>8, <1>9, <1>10, <1>11
     DEF Next, Server, Network, Read, ReadUnknown, NotSampled, AcceptOther, CloseRelease,
         WriteEnter, WriteMore, Arrive, Collapse, vars, EntriesChange

-----------------------------------------------------------------------------
HistData == [arr : Ages, rd : Ages, late : BOOLEAN, done : BOOLEAN]

\* Every step keeps the types of the history.
LEMMA NextHist == IInv /\ [Next]_vars => HistTypes'
<1> SUFFICES ASSUME IInv, [Next]_vars PROVE HistTypes'
  OBVIOUS
<1> USE KsliAssumption DEF IInv, streamVars
<1>0. NoSample \in HistData /\ hist \in [Socks -> HistData] /\ seen \in [Fds -> SUBSET Rtts]
  BY DEF NoSample, HistTypes, HistData, Ages
<1>1. ASSUME hist' \in [Socks -> HistData], seen' \in [Fds -> SUBSET Rtts] PROVE HistTypes'
  BY <1>1 DEF HistTypes, HistData
<1>2. CASE UNCHANGED <<hist, seen>>
  BY <1>2 DEF HistTypes
<1>3. ASSUME NEW f \in Fds, NEW s \in Socks, Accept(f, s) PROVE HistTypes'
  BY <1>0, <1>1, <1>3 DEF Accept
<1>4. ASSUME NEW f \in Fds, CloseRet(f) PROVE HistTypes'
  BY <1>0, <1>1, <1>2, <1>4 DEF CloseRet
<1>5. ASSUME NEW f \in Fds, ReadReturn(f) PROVE HistTypes'
  <2>1. CASE ~Known(f)
    BY <1>2, <1>5, <2>1 DEF ReadReturn
  <2>2. CASE Known(f)
    <3> DEFINE c == Reported(conn[f])
               old == IF c.n = 0 THEN {} ELSE seen[f]
    <3>1. c \in ConnData /\ samp[c.sk] \in SampData
      BY <2>2, ReportedType DEF Known, ProbeTypes, ConnData
    <3>2. samp[c.sk].rtt \in Rtts
      BY <3>1 DEF SampData
    <3>3. old \subseteq Rtts
      BY <1>0
    <3>4. \/ seen' = [seen EXCEPT ![f] = old] /\ UNCHANGED hist
          \/ /\ seen' = [seen EXCEPT ![f] = old \union {samp[c.sk].rtt}]
             /\ hist' = [hist EXCEPT ![c.sk] = NoSample]
      BY <1>5, <2>2 DEF ReadReturn
    <3> HIDE DEF c, old
    <3> QED
      BY <1>0, <1>1, <3>2, <3>3, <3>4
  <2> QED
    BY <2>1, <2>2
<1>6. ASSUME NEW f \in Fds, ReadBusy(f) PROVE HistTypes'
  BY <1>0, <1>1, <1>2, <1>6 DEF ReadBusy, NotSampled
<1>7. ASSUME NEW f \in Fds, ReadReady(f) PROVE HistTypes'
  <2> DEFINE s == sockOf[f]
             h == [arr |-> got[s], rd |-> 0, late |-> unsent[s] # <<>>, done |-> FALSE]
  <2>1. hist' = [hist EXCEPT ![s] = h] /\ UNCHANGED seen
    BY <1>7 DEF ReadReady
  <2>2. got[s] \in Ages
    BY <1>7 DEF ReadReady, KernelTypes, Calls
  <2>3. h \in HistData
    BY <2>2 DEF HistData, Ages
  <2> HIDE DEF h
  <2> QED
    BY <1>0, <1>1, <2>1, <2>3
<1>8. ASSUME NEW f \in Fds, WriteReturn(f) PROVE HistTypes'
  <2> DEFINE s == sockOf[f]
             l == hist[s].late \/ (UnderWay(s) /\ unsent[s] # <<>>)
  <2>1. hist' = [hist EXCEPT ![s].late = l] /\ UNCHANGED seen
    BY <1>8 DEF WriteReturn
  <2>2. s \in Socks
    BY <1>8 DEF WriteReturn, KernelTypes, Calls
  <2>3. l \in BOOLEAN
    BY Zenon
  <2> HIDE DEF s, l
  <2>4. hist[s] \in HistData
    BY <1>0, <2>2
  <2>5. [hist[s] EXCEPT !.late = l] \in HistData
    BY <2>3, <2>4 DEF HistData
  <2> QED
    BY <1>0, <1>1, <2>1, <2>5
<1>9. ASSUME NEW s \in Socks, Delivered(s) PROVE HistTypes'
  <2> DEFINE d == hist[s].done \/ (UnderWay(s) /\ Head(inflight[s]).own)
  <2>1. /\ hist' = [hist EXCEPT ![s] = NoSample] \/ hist' = [hist EXCEPT ![s].done = d]
        /\ UNCHANGED seen
    BY <1>9 DEF Delivered
  <2>2. d \in BOOLEAN
    BY Zenon
  <2> HIDE DEF d
  <2>3. hist[s] \in HistData
    BY <1>0
  <2>4. [hist[s] EXCEPT !.done = d] \in HistData
    BY <2>2, <2>3 DEF HistData
  <2> QED
    BY <1>0, <1>1, <2>1, <2>4
<1>11. ASSUME NEW f \in Fds, WriteEnter(f) \/ WriteMore(f) PROVE HistTypes'
  <2>0. PICK t \in Socks, x \in Out, l \in BOOLEAN, w \in {{}, {"other"}} : Piece(f, t, x, l, w)
    BY <1>11, OnePiece, Zenon
  <2>1. hist' = [hist EXCEPT ![t].late = hist[t].late \/ l] /\ UNCHANGED seen
    BY <2>0 DEF Piece
  <2>2. (hist[t].late \/ l) \in BOOLEAN
    BY Zenon
  <2>3. hist[t] \in HistData
    BY <1>0
  <2>4. [hist[t] EXCEPT !.late = hist[t].late \/ l] \in HistData
    BY <2>2, <2>3 DEF HistData
  <2> QED
    BY <1>0, <1>1, <2>1, <2>4
<1>10. CASE Tick
  <2>1. ASSUME NEW s \in Socks PROVE hist'[s] \in HistData
    <3>1. hist[s] \in HistData
      BY <1>0
    <3>2. CASE UnderWay(s)
      <4>1. hist'[s] = [hist[s] EXCEPT !.arr = Older(hist[s].arr), !.rd = Older(hist[s].rd)]
        BY <1>10, <3>2 DEF Tick
      <4>2. hist[s].arr \in Ages /\ hist[s].rd \in Ages
        BY <3>1 DEF HistData
      <4>3. Older(hist[s].arr) \in Ages /\ Older(hist[s].rd) \in Ages
        BY <4>2, OlderOfAge
      <4> QED
        BY <3>1, <4>1, <4>3 DEF HistData
    <3>3. CASE ~UnderWay(s)
      BY <1>10, <3>1, <3>3 DEF Tick
    <3> QED
      BY <3>2, <3>3
  <2>2. hist' \in [Socks -> HistData]
    BY <1>10, <2>1 DEF Tick
  <2> QED
    BY <1>0, <1>1, <1>10, <2>2 DEF Tick
<1> QED
  BY <1>2, <1>3, <1>4, <1>5, <1>6, <1>7, <1>8, <1>9, <1>10, <1>11
     DEF Next, Server, Network, Read, ReadUnknown, NotSampled, AcceptOther, CloseRelease,
         ReadEnter, Arrive, Sent, Collapse, vars

\* The invariant is inductive.
LEMMA InductiveInvariant == Spec => []IInv
<1>1. Init => IInv
  <2> SUFFICES ASSUME Init PROVE IInv
    OBVIOUS
  <2> USE KsliAssumption
  <2>1. KernelTypes
    BY DEF Init, KernelTypes
  <2>2. OutTypes
    <3>1. <<>> \in Seq(Out)
      OBVIOUS
    <3> QED
      BY <3>1 DEF Init, OutTypes
  <2>3. ProbeTypes /\ Calls
    BY DEF Init, ProbeTypes, Calls
  <2>4. HistTypes
    <3>1. NoSample \in HistData
      BY DEF NoSample, HistData, Ages
    <3> QED
      BY <3>1 DEF Init, HistTypes, HistData
  <2>5. HasStart
    BY DEF Init, HasStart, UnderWay, Status
  <2> QED
    BY <2>1, <2>2, <2>3, <2>4, <2>5 DEF IInv
<1>2. IInv /\ [Next]_vars => IInv'
  BY NextKernel, NextOut, NextProbe, NextHist DEF IInv
<1> QED
  BY <1>1, <1>2, PTL DEF Spec

(***************************************************************************)
(* Types, for servers with any number of threads and connections: a sample *)
(* that ends has a start to subtract, whatever the order of the hooks.     *)
(***************************************************************************)
THEOREM KsliTypes == Spec => []TypeOK
<1>1. IInv => TypeOK
  BY DEF IInv, KernelTypes, OutTypes, ProbeTypes, HistTypes, TypeOK
<1> QED
  BY <1>1, InductiveInvariant, PTL

-----------------------------------------------------------------------------
\* What PeriodStats says of one connection.
Stats(c, xs) ==
  /\ c.n = 0 <=> xs = {}
  /\ c.n > 0 => /\ {c.max, c.min, c.recent} \subseteq xs
                /\ \A x \in xs : c.min <= x /\ x <= c.max

\* A report forgets the samples of the period.
LEMMA ReportedStats ==
  ASSUME NEW c \in ConnData, NEW xs \in SUBSET Rtts, Stats(c, xs)
  PROVE  Stats(Reported(c), IF Reported(c).n = 0 THEN {} ELSE xs)
<1>1. CASE c.last >= Period
  <2>1. Reported(c).n = 0
    BY <1>1 DEF Reported, ConnData
  <2> QED
    BY <2>1 DEF Stats
<1>2. CASE ~(c.last >= Period)
  BY <1>2 DEF Reported, Stats
<1> QED
  BY <1>1, <1>2

\* Another sample keeps max and min at the ends of the samples.
LEMMA CountedStats ==
  ASSUME NEW c \in ConnData, NEW xs \in SUBSET Rtts, Stats(c, xs), NEW rtt \in Rtts
  PROVE  Stats(Counted(c, rtt), xs \union {rtt})
<1> USE KsliAssumption
<1> DEFINE d == Counted(c, rtt)
<1>1. /\ c.n \in 0..MaxSamples /\ c.max \in Rtts /\ c.min \in Rtts /\ Rtts \subseteq Nat
  BY DEF ConnData, Rtts, Ages
<1>2. /\ d.max = IF c.n = 0 \/ rtt > c.max THEN rtt ELSE c.max
      /\ d.min = IF c.n = 0 \/ (rtt <= c.max /\ rtt < c.min) THEN rtt ELSE c.min
      /\ d.n = IF c.n = MaxSamples THEN c.n ELSE c.n + 1
      /\ d.recent = rtt
  BY DEF Counted, ConnData
<1> HIDE DEF d
<1>3. d.n > 0
  BY <1>1, <1>2
<1>4. CASE c.n = 0
  <2>1. xs = {}
    BY <1>4 DEF Stats
  <2>2. d.max = rtt /\ d.min = rtt
    BY <1>2, <1>4
  <2> QED
    BY <1>1, <1>2, <1>3, <2>1, <2>2 DEF Stats, d
<1>5. CASE c.n # 0
  <2>1. c.max \in xs /\ c.min \in xs /\ \A x \in xs : c.min <= x /\ x <= c.max
    BY <1>1, <1>5 DEF Stats
  <2>2. {d.max, d.min, d.recent} \subseteq xs \union {rtt}
    BY <1>2, <2>1
  <2>3. \A x \in xs \union {rtt} : d.min <= x /\ x <= d.max
    <3>1. xs \subseteq Nat /\ rtt \in Nat /\ c.max \in Nat /\ c.min \in Nat /\ c.min <= c.max
      BY <1>1, <2>1
    <3>2. CASE rtt > c.max
      <4>1. d.max = rtt /\ d.min = c.min
        BY <1>2, <1>5, <3>1, <3>2
      <4> QED
        BY <2>1, <3>1, <3>2, <4>1
    <3>3. CASE ~(rtt > c.max) /\ rtt < c.min
      <4>1. d.max = c.max /\ d.min = rtt
        BY <1>2, <1>5, <3>1, <3>3
      <4> QED
        BY <2>1, <3>1, <3>3, <4>1
    <3>4. CASE ~(rtt > c.max) /\ ~(rtt < c.min)
      <4>1. d.max = c.max /\ d.min = c.min
        BY <1>2, <1>5, <3>4
      <4> QED
        BY <2>1, <3>1, <3>4, <4>1
    <3> QED
      BY <3>2, <3>3, <3>4
  <2> QED
    BY <1>3, <2>2, <2>3 DEF Stats, d
<1> QED
  BY <1>4, <1>5

\* Every step keeps PeriodStats.
LEMMA NextStats == IInv /\ PeriodStats /\ [Next]_vars => PeriodStats'
<1> SUFFICES ASSUME IInv, PeriodStats, [Next]_vars, NEW g \in Fds, conn'[g] # NULL
             PROVE  Stats(conn'[g], seen'[g])
  BY DEF PeriodStats, Stats
<1> USE KsliAssumption DEF IInv, streamVars
<1>0. conn[g] # NULL => Stats(conn[g], seen[g])
  BY DEF PeriodStats, Stats
<1>1. CASE conn'[g] = conn[g] /\ seen'[g] = seen[g]
  BY <1>0, <1>1
<1>2. ASSUME NEW f \in Fds, NEW s \in Socks, Accept(f, s) PROVE Stats(conn'[g], seen'[g])
  <2>1. CASE f = g
    <3>1. conn'[g] = [sk |-> s, n |-> 0, last |-> Period, max |-> 0, min |-> 0, recent |-> 0]
      BY <1>2, <2>1 DEF Accept, ProbeTypes
    <3>2. seen'[g] = {} /\ conn'[g].n = 0
      BY <1>2, <2>1, <3>1 DEF Accept, HistTypes
    <3> QED
      BY <3>2 DEF Stats
  <2>2. CASE f # g
    BY <1>1, <1>2, <2>2 DEF Accept, ProbeTypes, HistTypes
  <2> QED
    BY <2>1, <2>2
<1>3. ASSUME NEW f \in Fds, CloseRet(f) PROVE Stats(conn'[g], seen'[g])
  <2>1. CASE f = g
    BY <1>1, <1>3, <2>1 DEF CloseRet, ProbeTypes
  <2>2. CASE f # g
    BY <1>1, <1>3, <2>2 DEF CloseRet, ProbeTypes, HistTypes
  <2> QED
    BY <2>1, <2>2
<1>4. ASSUME NEW f \in Fds, ReadReturn(f) PROVE Stats(conn'[g], seen'[g])
  <2> DEFINE c == Reported(conn[f])
             old == IF c.n = 0 THEN {} ELSE seen[f]
  <2>1. CASE ~Known(f)
    BY <1>1, <1>4, <2>1 DEF ReadReturn
  <2>2. CASE Known(f)
    <3>1. \/ conn' = [conn EXCEPT ![f] = c] /\ seen' = [seen EXCEPT ![f] = old]
          \/ /\ conn' = [conn EXCEPT ![f] = Counted(c, samp[c.sk].rtt)]
             /\ seen' = [seen EXCEPT ![f] = old \union {samp[c.sk].rtt}]
      BY <1>4, <2>2 DEF ReadReturn
    <3>2. CASE f # g
      <4> HIDE DEF c, old
      <4> QED
        BY <1>1, <3>1, <3>2 DEF ProbeTypes, HistTypes
    <3>3. CASE f = g
      <4>1. conn[f] \in ConnData /\ seen[f] \in SUBSET Rtts /\ Stats(conn[f], seen[f])
        BY <1>0, <2>2, <3>3 DEF Known, ProbeTypes, HistTypes
      <4>2. c \in ConnData /\ Stats(c, old) /\ c.sk = conn[f].sk /\ old \in SUBSET Rtts
        BY <4>1, ReportedStats, ReportedType
      <4>3. samp[c.sk] \in SampData
        BY <2>2, <4>1, <4>2 DEF Known, ProbeTypes, ConnData
      <4>4. samp[c.sk].rtt \in Rtts
        BY <4>3 DEF SampData
      <4> HIDE DEF c, old
      <4>5. Stats(Counted(c, samp[c.sk].rtt), old \union {samp[c.sk].rtt})
        BY <4>2, <4>4, CountedStats
      <4> QED
        BY <3>1, <3>3, <4>2, <4>5 DEF ProbeTypes, HistTypes
    <3> QED
      BY <3>2, <3>3
  <2> QED
    BY <2>1, <2>2
<1>5. CASE Tick
  <2>1. conn[g] # NULL /\ conn[g] \in ConnData /\ seen' = seen
        /\ conn'[g] = [conn[g] EXCEPT !.last = Older(conn[g].last)]
    BY <1>5 DEF Tick, ProbeTypes
  <2>2. /\ conn'[g].n = conn[g].n /\ conn'[g].max = conn[g].max /\ conn'[g].min = conn[g].min
        /\ conn'[g].recent = conn[g].recent
    BY <2>1 DEF ConnData
  <2> QED
    BY <1>0, <2>1, <2>2 DEF Stats
<1>6. CASE UNCHANGED <<conn, seen>>
  BY <1>1, <1>6
<1> QED
  BY <1>2, <1>3, <1>4, <1>5, <1>6
     DEF Next, Server, Network, Read, ReadBusy, ReadUnknown, ReadReady, NotSampled, AcceptOther,
         CloseRelease, ReadEnter, WriteEnter, WriteMore, WriteReturn, Arrive, Sent, Delivered,
         Collapse, vars

(***************************************************************************)
(* The numbers of a connection are those of the samples of this period,    *)
(* for any number of threads, connections and samples.                     *)
(***************************************************************************)
THEOREM StatsAreOfThePeriod == Spec => []PeriodStats
<1>1. Init => PeriodStats
  BY DEF Init, PeriodStats
<1>2. IInv /\ PeriodStats /\ [Next]_vars => PeriodStats'
  BY NextStats
<1> QED
  BY <1>1, <1>2, InductiveInvariant, PTL DEF Spec

-----------------------------------------------------------------------------
(***************************************************************************)
(* Servers that make their system calls in one thread.  A descriptor that  *)
(* is being closed is free but still recorded, and nothing else happens on *)
(* any descriptor until close() returns.                                   *)
(***************************************************************************)
Maps ==
  /\ \A f \in closing : conn[f] # NULL /\ sockOf[f] = NULL
  /\ \A f \in Fds : conn[f] # NULL /\ f \notin closing => sockOf[f] = conn[f].sk
  /\ \A f \in Fds : conn[f] # NULL => samp[conn[f].sk] # NULL
  /\ \A f, g \in Fds : conn[f] # NULL /\ conn[g] # NULL /\ conn[f].sk = conn[g].sk => f = g
  /\ \A s \in Socks : samp[s] # NULL => \E f \in Fds : conn[f] # NULL /\ conn[f].sk = s

\* With one thread every step keeps the two maps together.
LEMMA NextMaps ==
  ASSUME ~MultiThreaded
  PROVE  IInv /\ Maps /\ [Next]_vars => Maps'
<1> SUFFICES ASSUME IInv, Maps, [Next]_vars PROVE Maps'
  OBVIOUS
<1> USE KsliAssumption DEF IInv
<1>0. \A f \in Fds : conn[f] # NULL => conn[f] \in ConnData /\ conn[f].sk \in Socks
  BY DEF ProbeTypes, ConnData
<1>1. ASSUME NEW f \in Fds, NEW s \in Socks, Accept(f, s) PROVE Maps'
  <2> DEFINE c == [sk |-> s, n |-> 0, last |-> Period, max |-> 0, min |-> 0, recent |-> 0]
  <2>1. closing = {} /\ closing' = {} /\ sockOf[f] = NULL /\ \A g \in Fds : sockOf[g] # s
    BY <1>1 DEF Accept, MayCall, Opened
  <2>2. sockOf' = [sockOf EXCEPT ![f] = s] /\ conn' = [conn EXCEPT ![f] = c]
        /\ samp' = [samp EXCEPT ![s] = Fresh]
    BY <1>1 DEF Accept
  <2>3. c \in ConnData /\ Fresh \in SampData /\ c.sk = s
    BY DEF ConnData, SampData, Fresh, Ages, Starts, Rtts
  <2>4. conn'[f] = c /\ conn'[f] # NULL /\ samp'[s] # NULL /\ sockOf'[f] = s
    BY <2>2, <2>3 DEF ProbeTypes, KernelTypes
  <2>5. \A g \in Fds : g # f => conn'[g] = conn[g] /\ sockOf'[g] = sockOf[g]
    BY <2>2 DEF ProbeTypes, KernelTypes
  <2>6. \A t \in Socks : t # s => samp'[t] = samp[t]
    BY <2>2 DEF ProbeTypes
  <2>7. conn[f] = NULL /\ \A g \in Fds : conn[g] # NULL => conn[g].sk # s
    BY <1>0, <2>1 DEF Maps
  <2> HIDE DEF c
  <2>8. \A g \in Fds : conn'[g] # NULL => sockOf'[g] = conn'[g].sk /\ samp'[conn'[g].sk] # NULL
    BY <1>0, <2>1, <2>3, <2>4, <2>5, <2>6, <2>7 DEF Maps
  <2>9. \A g, h \in Fds : conn'[g] # NULL /\ conn'[h] # NULL /\ conn'[g].sk = conn'[h].sk => g = h
    BY <2>3, <2>4, <2>5, <2>7 DEF Maps
  <2>10. \A t \in Socks : samp'[t] # NULL => \E g \in Fds : conn'[g] # NULL /\ conn'[g].sk = t
    BY <2>3, <2>4, <2>5, <2>6, <2>7 DEF Maps
  <2> QED
    BY <2>1, <2>8, <2>9, <2>10 DEF Maps
<1>2. ASSUME NEW f \in Fds, NEW s \in Socks, AcceptOther(f, s) PROVE Maps'
  <2>1. closing = {} /\ sockOf[f] = NULL /\ sockOf' = [sockOf EXCEPT ![f] = s]
        /\ UNCHANGED <<closing, conn, samp>>
    BY <1>2 DEF AcceptOther, MayCall
  <2>2. conn[f] = NULL
    BY <1>0, <2>1 DEF Maps
  <2> QED
    BY <2>1, <2>2 DEF Maps, KernelTypes
<1>3. ASSUME NEW f \in Fds, CloseRelease(f) PROVE Maps'
  <2>1. closing = {} /\ sockOf' = [sockOf EXCEPT ![f] = NULL] /\ UNCHANGED <<conn, samp>>
        /\ closing' = IF conn[f] = NULL THEN {} ELSE {f}
    BY <1>3 DEF CloseRelease, MayCall
  <2> QED
    BY <2>1 DEF Maps, KernelTypes
<1>4. ASSUME NEW f \in Fds, CloseRet(f) PROVE Maps'
  <2>1. f \in closing /\ closing' = closing \ {f} /\ conn[f] # NULL /\ UNCHANGED sockOf
    BY <1>4 DEF CloseRet, Maps
  <2>2. samp' = [samp EXCEPT ![conn[f].sk] = NULL] /\ conn' = [conn EXCEPT ![f] = NULL]
    BY <1>4, <2>1 DEF CloseRet
  <2>3. conn'[f] = NULL /\ \A g \in Fds : g # f => conn'[g] = conn[g]
    BY <2>2 DEF ProbeTypes
  <2>4. samp'[conn[f].sk] = NULL /\ \A t \in Socks : t # conn[f].sk => samp'[t] = samp[t]
    BY <1>0, <2>1, <2>2 DEF ProbeTypes
  <2>5. closing \subseteq Fds
    BY DEF KernelTypes
  <2>6. \A g \in closing' : conn'[g] # NULL /\ sockOf'[g] = NULL
    BY <2>1, <2>3, <2>5 DEF Maps
  <2>7. \A g \in Fds : conn'[g] # NULL /\ g \notin closing' => sockOf'[g] = conn'[g].sk
    BY <2>1, <2>3 DEF Maps
  <2>8. \A g \in Fds : conn'[g] # NULL => samp'[conn'[g].sk] # NULL
    BY <1>0, <2>1, <2>3, <2>4 DEF Maps
  <2>9. \A g, h \in Fds : conn'[g] # NULL /\ conn'[h] # NULL /\ conn'[g].sk = conn'[h].sk => g = h
    BY <2>3 DEF Maps
  <2>10. \A t \in Socks : samp'[t] # NULL => \E g \in Fds : conn'[g] # NULL /\ conn'[g].sk = t
    BY <2>3, <2>4 DEF Maps
  <2> QED
    BY <2>6, <2>7, <2>8, <2>9, <2>10 DEF Maps
<1>5. CASE SameEntries /\ UNCHANGED <<sockOf, closing>>
  <2>1. closing \subseteq Fds
    BY DEF KernelTypes
  <2> QED
    BY <1>0, <1>5, <2>1 DEF Maps, SameEntries
<1> QED
  BY <1>1, <1>2, <1>3, <1>4, <1>5, NextProbe
     DEF EntriesChange, Next, Server, Network, Read, ReadBusy, ReadUnknown, ReadReady, NotSampled,
         ReadReturn, ReadEnter, WriteEnter, WriteMore, WriteReturn, Arrive, Sent, Delivered,
         Collapse, Tick, vars

(***************************************************************************)
(* For a server with one thread and any number of connections, conn_map    *)
(* and conn_samp_map agree with the connections that are open.             *)
(***************************************************************************)
THEOREM MapsAgree ==
  ASSUME ~MultiThreaded
  PROVE  Spec => []Tracked
<1>1. Init => Maps
  BY DEF Init, Maps
<1>2. IInv /\ Maps /\ [Next]_vars => Maps'
  BY NextMaps
<1>3. IInv /\ Maps => Tracked
  BY DEF Maps, Tracked
<1> QED
  BY <1>1, <1>2, <1>3, InductiveInvariant, PTL DEF Spec

-----------------------------------------------------------------------------
(***************************************************************************)
(* Where the stamp of a request is while read() is under way: in the       *)
(* sample, unless it was 0 or one of the real-time clock or a delivery has *)
(* erased it.                                                              *)
(***************************************************************************)
Stamp(f, s) ==
  /\ call[f] = "read" => queue[s] # NULL
  /\ call[f] = "read" /\ Status(s) \in {"INIT", "FINISHED"}
       => samp[s].start \in {NULL, FUTURE, queue[s]}
  /\ call[f] = "check" /\ Status(s) = "INIT" => samp[s].start \in {NULL, FUTURE, got[s]}

Stamped == \A f \in Fds : call[f] # "none" => Stamp(f, sockOf[f])

\* What StartIsArrival says of one sock.
Between(s) ==
  UnderWay(s) => /\ samp[s].start # NULL
                 /\ samp[s].start # FUTURE =>
                      hist[s].rd <= samp[s].start /\ samp[s].start <= hist[s].arr

\* A sock that a step leaves alone.
LEMMA SockFrame ==
  ASSUME NEW s, samp'[s] = samp[s], hist'[s] = hist[s], queue'[s] = queue[s], got'[s] = got[s],
         Between(s)
  PROVE  /\ Between(s)'
         /\ \A f \in Fds : call'[f] = call[f] /\ Stamp(f, s) => Stamp(f, s)'
BY DEF Between, Stamp, UnderWay, Status

\* An older age is not younger than an older one that was not.
LEMMA OlderMonotone ==
  \A a, b \in Ages : a <= b => Older(a) <= Older(b)
BY KsliAssumption DEF Older, Ages, FUTURE

\* A step of the kernel's state of one sock t, by descriptor f or by the network.
LEMMA OneSock ==
  ASSUME IInv, Calls', Stamped, StartIsArrival, NEW t \in Socks, UNCHANGED sockOf,
         \A s \in Socks : s # t => /\ samp'[s] = samp[s] /\ hist'[s] = hist[s]
                                   /\ queue'[s] = queue[s] /\ got'[s] = got[s],
         \A f \in Fds : sockOf[f] # t => call'[f] = call[f],
         Between(t)',
         \A f \in Fds : sockOf[f] = t /\ call'[f] # "none" => Stamp(f, t)'
  PROVE  Stamped' /\ StartIsArrival'
<1>1. \A s \in Socks : Between(s)
  BY DEF StartIsArrival, Between
<1>2. \A s \in Socks : Between(s)'
  BY <1>1, SockFrame
<1>3. StartIsArrival'
  BY <1>2 DEF StartIsArrival, Between
<1>4. ASSUME NEW f \in Fds, call'[f] # "none" PROVE Stamp(f, sockOf[f])'
  <2>1. sockOf[f] \in Socks
    BY <1>4 DEF Calls, IInv, KernelTypes
  <2>2. CASE sockOf[f] = t
    <3>1. Stamp(f, t)' /\ sockOf'[f] = t
      BY <1>4, <2>2
    <3> QED
      BY <3>1 DEF Stamp, Status
  <2>3. CASE sockOf[f] # t
    <3>1. call'[f] = call[f] /\ Stamp(f, sockOf[f]) /\ Between(sockOf[f])
      BY <1>1, <1>4, <2>1, <2>3 DEF Stamped
    <3>2. Stamp(f, sockOf[f])'
      <4> DEFINE s == sockOf[f]
      <4>1. samp'[s] = samp[s] /\ queue'[s] = queue[s] /\ got'[s] = got[s] /\ sockOf'[f] = s
        BY <2>1, <2>3
      <4> QED
        BY <3>1, <4>1 DEF Stamp, Status
    <3> QED
      BY <3>2
  <2> QED
    BY <2>2, <2>3
<1> QED
  BY <1>3, <1>4 DEF Stamped

\* With one thread, and read() only when there is data, every step keeps the
\* start of a sample between the arrival and the read of its request.
LEMMA NextArrival ==
  ASSUME ~MultiThreaded, ~Blocking
  PROVE  IInv /\ IInv' /\ Maps /\ Stamped /\ StartIsArrival /\ [Next]_vars
           => Stamped' /\ StartIsArrival'
<1> SUFFICES ASSUME IInv, IInv', Maps, Stamped, StartIsArrival, [Next]_vars
             PROVE  Stamped' /\ StartIsArrival'
  OBVIOUS
<1> USE KsliAssumption DEF streamVars
<1>a. KernelTypes /\ ProbeTypes /\ HistTypes /\ Calls /\ Calls' /\ OutTypes
  BY DEF IInv
<1>b. \A f \in Fds : call[f] # "none" => sockOf[f] \in Socks /\ f \notin closing
  BY <1>a DEF Calls, KernelTypes, Maps
<1>c. \A f \in Fds : call[f] # "none" /\ conn[f] # NULL => conn[f].sk = sockOf[f]
  BY <1>b DEF Maps
<1>d. \A f, g \in Fds : sockOf[f] # NULL /\ sockOf[f] = sockOf[g] => f = g
  BY <1>a DEF Calls
<1>e. \A s \in Socks : Between(s)
  BY DEF StartIsArrival, Between
<1>1. ASSUME NEW f \in Fds, NEW s \in Socks, Accept(f, s) PROVE Stamped' /\ StartIsArrival'
  <2>1. UNCHANGED <<call, queue, got, hist>> /\ sockOf' = [sockOf EXCEPT ![f] = s]
        /\ samp' = [samp EXCEPT ![s] = Fresh] /\ sockOf[f] = NULL /\ \A g \in Fds : sockOf[g] # s
    BY <1>1 DEF Accept, Opened
  <2>2. samp'[s] = Fresh /\ \A t \in Socks : t # s => samp'[t] = samp[t]
    BY <1>a, <2>1 DEF ProbeTypes
  <2>3. ~UnderWay(s)'
    BY <2>2 DEF UnderWay, Status, Fresh
  <2>4. \A t \in Socks : Between(t)'
    BY <1>e, <2>1, <2>2, <2>3, SockFrame DEF Between
  <2>5. ASSUME NEW g \in Fds, call'[g] # "none" PROVE Stamp(g, sockOf[g])'
    <3>1. call[g] # "none" /\ g # f /\ sockOf[g] \in Socks /\ sockOf[g] # s
      BY <1>b, <2>1, <2>5
    <3>2. sockOf'[g] = sockOf[g] /\ samp'[sockOf[g]] = samp[sockOf[g]] /\ Stamp(g, sockOf[g])
      BY <1>a, <2>1, <2>2, <3>1 DEF KernelTypes, Stamped
    <3> QED
      BY <2>1, <3>2 DEF Stamp, Status
  <2> QED
    BY <2>4, <2>5 DEF Stamped, StartIsArrival, Between
<1>2. ASSUME NEW f \in Fds, NEW s \in Socks, AcceptOther(f, s) PROVE Stamped' /\ StartIsArrival'
  <2>1. UNCHANGED <<call, queue, got, hist, samp>> /\ sockOf' = [sockOf EXCEPT ![f] = s]
        /\ sockOf[f] = NULL
    BY <1>2 DEF AcceptOther
  <2>2. StartIsArrival'
    BY <2>1 DEF StartIsArrival, UnderWay, Status
  <2>3. ASSUME NEW g \in Fds, call'[g] # "none" PROVE Stamp(g, sockOf[g])'
    <3>1. sockOf'[g] = sockOf[g] /\ Stamp(g, sockOf[g])
      BY <1>a, <1>b, <2>1, <2>3 DEF KernelTypes, Stamped
    <3> QED
      BY <2>1, <3>1 DEF Stamp, Status
  <2> QED
    BY <2>2, <2>3 DEF Stamped
<1>3. ASSUME NEW f \in Fds, CloseRelease(f) PROVE Stamped' /\ StartIsArrival'
  <2> DEFINE s == sockOf[f]
  <2>1. UNCHANGED <<call, hist, samp>> /\ sockOf' = [sockOf EXCEPT ![f] = NULL] /\ s # NULL
        /\ queue' = [queue EXCEPT ![s] = NULL] /\ got' = [got EXCEPT ![s] = NULL]
        /\ call[f] = "none"
    BY <1>3 DEF CloseRelease
  <2>2. StartIsArrival'
    BY <2>1 DEF StartIsArrival, UnderWay, Status
  <2>3. ASSUME NEW g \in Fds, call'[g] # "none" PROVE Stamp(g, sockOf[g])'
    <3>1. g # f /\ sockOf[g] # s /\ sockOf[g] \in Socks /\ Stamp(g, sockOf[g])
      BY <1>b, <1>d, <2>1, <2>3 DEF Stamped
    <3>2. sockOf'[g] = sockOf[g] /\ queue'[sockOf[g]] = queue[sockOf[g]]
          /\ got'[sockOf[g]] = got[sockOf[g]]
      BY <1>a, <2>1, <3>1 DEF KernelTypes
    <3> QED
      BY <2>1, <3>1, <3>2 DEF Stamp, Status
  <2> QED
    BY <2>2, <2>3 DEF Stamped
<1>4. ASSUME NEW f \in Fds, CloseRet(f) PROVE Stamped' /\ StartIsArrival'
  <2>1. PICK t \in Socks : conn[f] # NULL /\ t = conn[f].sk
    BY <1>a, <1>4 DEF CloseRet, Maps, ProbeTypes, ConnData
  <2>2. UNCHANGED <<sockOf, call, queue, got>> /\ samp' = [samp EXCEPT ![t] = NULL]
        /\ hist' = [hist EXCEPT ![t] = NoSample]
    BY <1>4, <2>1 DEF CloseRet
  <2>3. samp'[t] = NULL /\ \A s \in Socks : s # t => samp'[s] = samp[s] /\ hist'[s] = hist[s]
    BY <1>a, <2>2 DEF ProbeTypes, HistTypes
  <2>4. Between(t)'
    BY <2>3 DEF Between, UnderWay, Status
  <2>5. \A g \in Fds : sockOf[g] = t /\ call'[g] # "none" => Stamp(g, t)'
    BY <2>2, <2>3 DEF Stamped, Stamp, Status
  <2> QED
    BY <1>a, <2>2, <2>3, <2>4, <2>5, OneSock
<1>5. ASSUME NEW f \in Fds, ReadEnter(f) PROVE Stamped' /\ StartIsArrival'
  <2>1. PICK t \in Socks : t = sockOf[f]
    BY <1>a, <1>5 DEF ReadEnter, KernelTypes
  <2>2. queue[t] # NULL /\ Recvmsg(t) /\ call' = [call EXCEPT ![f] = "read"]
        /\ UNCHANGED <<sockOf, queue, got, hist>> /\ call[f] = "none"
    BY <1>5, <2>1 DEF ReadEnter
  <2>3. (\A g \in Fds : sockOf[g] = t => g = f) /\ call'[f] = "read"
    BY <1>a, <1>d, <2>1, <2>2 DEF KernelTypes
  <2>4. \A s \in Socks : s # t => samp'[s] = samp[s]
    BY <1>a, <2>2 DEF Recvmsg, ProbeTypes
  <2>5. Between(t)' /\ Stamp(f, t)'
    <3>1. CASE Status(t) \in {"INIT", "FINISHED"}
      <4>1. PICK x \in {queue[t], NULL, FUTURE} : samp' = [samp EXCEPT ![t].start = x]
        BY <2>2, <3>1 DEF Recvmsg, Stamps
      <4>2. samp[t] \in SampData /\ samp[t].status = Status(t)
        BY <1>a, <3>1, StatusOf
      <4>3. samp'[t].start = x /\ samp'[t].status = samp[t].status
        BY <1>a, <4>1, <4>2 DEF ProbeTypes, SampData
      <4>4. ~UnderWay(t)'
        BY <3>1, <4>2, <4>3 DEF UnderWay, Status
      <4> QED
        BY <2>2, <2>3, <4>3, <4>4 DEF Between, Stamp
    <3>2. CASE Status(t) \notin {"INIT", "FINISHED"}
      <4>1. samp' = samp
        BY <2>2, <3>2 DEF Recvmsg
      <4> QED
        BY <1>e, <2>2, <2>3, <3>2, <4>1 DEF Between, Stamp, UnderWay, Status
    <3> QED
      BY <3>1, <3>2
  <2>6. \A g \in Fds : sockOf[g] # t => call'[g] = call[g]
    BY <1>a, <2>1, <2>2 DEF KernelTypes
  <2> QED
    BY <1>a, <2>2, <2>3, <2>4, <2>5, <2>6, OneSock
<1>6. ASSUME NEW f \in Fds, ReadReturn(f) PROVE Stamped' /\ StartIsArrival'
  <2>1. PICK t \in Socks : t = sockOf[f]
    BY <1>b, <1>6 DEF ReadReturn
  <2>2. call[f] = "read" /\ call' = [call EXCEPT ![f] = "check"]
        /\ got' = [got EXCEPT ![t] = queue[t]] /\ queue' = [queue EXCEPT ![t] = NULL]
        /\ UNCHANGED sockOf
    BY <1>6, <2>1 DEF ReadReturn
  <2>3. Stamp(f, t) /\ (\A g \in Fds : sockOf[g] = t => g = f)
    BY <1>d, <2>1, <2>2 DEF Stamped
  <2>4. call'[f] = "check" /\ got'[t] = queue[t]
        /\ \A s \in Socks : s # t => got'[s] = got[s] /\ queue'[s] = queue[s]
    BY <1>a, <2>2 DEF KernelTypes
  <2>5. \A g \in Fds : sockOf[g] # t => call'[g] = call[g]
    BY <1>a, <2>1, <2>2 DEF KernelTypes
  <2>6. CASE UNCHANGED <<samp, hist>>
    <3>1. Between(t)' /\ Stamp(f, t)'
      BY <1>e, <2>2, <2>3, <2>4, <2>6 DEF Between, Stamp, UnderWay, Status
    <3> QED
      BY <1>a, <2>2, <2>3, <2>4, <2>5, <2>6, <3>1, OneSock
  <2>7. CASE ~UNCHANGED <<samp, hist>>
    <3>1. Known(f) /\ conn[f] \in ConnData
      BY <1>a, <1>6, <2>7 DEF ReadReturn, Known, ProbeTypes
    <3>2. Reported(conn[f]).sk = t
      BY <1>c, <2>1, <2>2, <3>1, ReportedType DEF Known
    <3>3. samp[t].status = "FINISHED" /\ samp' = [samp EXCEPT ![t].status = "INIT"]
          /\ hist' = [hist EXCEPT ![t] = NoSample]
      BY <1>6, <2>7, <3>1, <3>2 DEF ReadReturn
    <3>4. samp[t] \in SampData /\ samp[t] # NULL
      BY <1>a, <1>c, <2>1, <2>2, <3>1 DEF Known, ProbeTypes
    <3>5. samp'[t].status = "INIT" /\ samp'[t].start = samp[t].start
          /\ \A s \in Socks : s # t => samp'[s] = samp[s] /\ hist'[s] = hist[s]
      BY <1>a, <3>3, <3>4 DEF ProbeTypes, HistTypes, SampData
    <3>6. Between(t)'
      BY <3>5 DEF Between, UnderWay, Status
    <3>7. samp[t].start \in {NULL, FUTURE, queue[t]}
      BY <2>2, <2>3, <3>3, <3>4 DEF Stamp, Status
    <3>8. Stamp(f, t)'
      BY <2>4, <3>5, <3>7 DEF Stamp
    <3> QED
      BY <1>a, <2>2, <2>3, <2>4, <2>5, <3>5, <3>6, <3>8, OneSock
  <2> QED
    BY <2>6, <2>7
<1>7. ASSUME NEW f \in Fds, ReadBusy(f) \/ ReadUnknown(f) \/ ReadReady(f)
      PROVE  Stamped' /\ StartIsArrival'
  <2>1. PICK t \in Socks : t = sockOf[f]
    BY <1>b, <1>7 DEF ReadBusy, ReadUnknown, ReadReady, NotSampled
  <2>2. call[f] = "check" /\ call' = [call EXCEPT ![f] = "none"] /\ UNCHANGED <<sockOf, queue>>
        /\ got' = [got EXCEPT ![t] = NULL]
    BY <1>7, <2>1 DEF ReadBusy, ReadUnknown, ReadReady, NotSampled
  <2>3. Stamp(f, t) /\ (\A g \in Fds : sockOf[g] = t => g = f) /\ call'[f] = "none"
    BY <1>a, <1>d, <2>1, <2>2 DEF Stamped, KernelTypes
  <2>4. /\ \A s \in Socks : s # t => got'[s] = got[s]
        /\ \A g \in Fds : sockOf[g] # t => call'[g] = call[g]
    BY <1>a, <2>1, <2>2 DEF KernelTypes
  <2>5. Known(f) => conn[f].sk = t /\ samp[t] \in SampData /\ samp[t] # NULL
    BY <1>a, <1>c, <2>1, <2>2 DEF Known, ProbeTypes
  <2>6. CASE UNCHANGED <<samp, hist>>
    <3>1. Between(t)'
      BY <1>e, <2>6 DEF Between, UnderWay, Status
    <3> QED
      BY <1>a, <2>2, <2>3, <2>4, <2>6, <3>1, OneSock
  <2>7. CASE ReadBusy(f) /\ ~UNCHANGED <<samp, hist>>
    <3>1. Known(f) /\ samp' = [samp EXCEPT ![t].status = "INIT", ![t].start = NULL]
          /\ hist' = [hist EXCEPT ![t] = NoSample]
      BY <2>5, <2>7 DEF ReadBusy
    <3>2. samp'[t].status = "INIT"
          /\ \A s \in Socks : s # t => samp'[s] = samp[s] /\ hist'[s] = hist[s]
      BY <1>a, <2>5, <3>1 DEF ProbeTypes, HistTypes, SampData
    <3>3. Between(t)'
      BY <3>2 DEF Between, UnderWay, Status
    <3> QED
      BY <1>a, <2>2, <2>3, <2>4, <3>2, <3>3, OneSock
  <2>8. CASE ReadReady(f)
    <3> DEFINE x == IF samp[t].start = NULL THEN 0 ELSE samp[t].start
    <3>1. Known(f) /\ Status(t) = "INIT"
          /\ samp' = [samp EXCEPT ![t].status = "READ_READY",
                                  ![t].start = IF @ = NULL THEN 0 ELSE @]
          /\ hist' = [hist EXCEPT ![t] = [arr |-> got[t], rd |-> 0,
                                          late |-> unsent[t] # <<>>, done |-> FALSE]]
      BY <2>1, <2>5, <2>8 DEF ReadReady
    <3>2. samp'[t].start = x /\ hist'[t].arr = got[t] /\ hist'[t].rd = 0
          /\ \A s \in Socks : s # t => samp'[s] = samp[s] /\ hist'[s] = hist[s]
      BY <1>a, <2>5, <3>1 DEF ProbeTypes, HistTypes, SampData
    <3>3. got[t] \in Ages /\ samp[t].start \in {NULL, FUTURE, got[t]}
      BY <1>a, <2>1, <2>2, <2>3, <3>1 DEF Stamp, Calls, KernelTypes
    <3>4. Between(t)'
      BY <3>2, <3>3, StartKinds DEF Between, Ages
    <3> QED
      BY <1>a, <2>2, <2>3, <2>4, <3>2, <3>4, OneSock
  <2> QED
    BY <1>7, <2>6, <2>7, <2>8 DEF ReadUnknown
<1>8. ASSUME NEW f \in Fds, WriteEnter(f) \/ WriteMore(f) PROVE Stamped' /\ StartIsArrival'
  <2>0. PICK t \in Socks, x \in Out, l \in BOOLEAN, w \in {{}, {"other"}} : Piece(f, t, x, l, w)
    BY <1>a, <1>8, OnePiece, Zenon
  <2>1. /\ t = sockOf[f] /\ UNCHANGED <<sockOf, samp, queue, got>>
        /\ call' = [call EXCEPT ![f] = "write"]
        /\ hist' = [hist EXCEPT ![t].late = hist[t].late \/ l]
    BY <2>0 DEF Piece
  <2>2. hist'[t].arr = hist[t].arr /\ hist'[t].rd = hist[t].rd
        /\ \A s \in Socks : s # t => hist'[s] = hist[s]
    BY <1>a, <2>1 DEF HistTypes
  <2>3. (\A g \in Fds : sockOf[g] = t => g = f) /\ call'[f] = "write"
        /\ \A g \in Fds : sockOf[g] # t => call'[g] = call[g]
    BY <1>a, <1>d, <2>1 DEF KernelTypes
  <2>4. Between(t)' /\ Stamp(f, t)'
    BY <1>e, <2>1, <2>2, <2>3 DEF Between, Stamp, UnderWay, Status
  <2> QED
    BY <1>a, <2>1, <2>2, <2>3, <2>4, OneSock
<1>9. ASSUME NEW f \in Fds, WriteReturn(f) PROVE Stamped' /\ StartIsArrival'
  <2>1. PICK t \in Socks : t = sockOf[f]
    BY <1>b, <1>9 DEF WriteReturn
  <2>2. call[f] = "write" /\ call' = [call EXCEPT ![f] = "none"] /\ UNCHANGED <<sockOf, queue, got>>
        /\ hist' = [hist EXCEPT ![t].late = @ \/ (UnderWay(t) /\ unsent[t] # <<>>)]
    BY <1>9, <2>1 DEF WriteReturn, streamVars
  <2>3. (\A g \in Fds : sockOf[g] = t => g = f) /\ call'[f] = "none"
        /\ \A g \in Fds : sockOf[g] # t => call'[g] = call[g]
    BY <1>a, <1>d, <2>1, <2>2 DEF KernelTypes
  <2>4. hist'[t].arr = hist[t].arr /\ hist'[t].rd = hist[t].rd
        /\ \A s \in Socks : s # t => hist'[s] = hist[s]
    BY <1>a, <2>2 DEF HistTypes
  <2>5. CASE samp' = samp
    <3>1. Between(t)'
      BY <1>e, <2>4, <2>5 DEF Between, UnderWay, Status
    <3> QED
      BY <1>a, <2>2, <2>3, <2>4, <2>5, <3>1, OneSock
  <2>6. CASE samp' # samp
    <3>1. Known(f) /\ Status(t) = "READ_READY" /\ samp' = [samp EXCEPT ![t].status = "WRITE_READY"]
      BY <1>c, <1>9, <2>1, <2>2, <2>6 DEF WriteReturn, Known
    <3>2. samp[t] \in SampData /\ samp[t].status = "READ_READY"
      BY <1>a, <3>1, StatusOf
    <3>3. samp'[t].start = samp[t].start /\ \A s \in Socks : s # t => samp'[s] = samp[s]
      BY <1>a, <3>1, <3>2 DEF ProbeTypes, SampData
    <3>4. Between(t)'
      BY <1>e, <2>4, <3>1, <3>3 DEF Between, UnderWay
    <3> QED
      BY <1>a, <2>2, <2>3, <2>4, <3>3, <3>4, OneSock
  <2> QED
    BY <2>5, <2>6
<1>10. ASSUME NEW t \in Socks, Arrive(t) PROVE Stamped' /\ StartIsArrival'
  <2>1. UNCHANGED <<sockOf, call, samp, got, hist>> /\ queue[t] = NULL
        /\ queue' = [queue EXCEPT ![t] = 0]
    BY <1>10 DEF Arrive
  <2>2. queue'[t] = 0 /\ \A s \in Socks : s # t => queue'[s] = queue[s]
    BY <1>a, <2>1 DEF KernelTypes
  <2>3. Between(t)'
    BY <1>e, <2>1 DEF Between, UnderWay, Status
  <2>4. ASSUME NEW g \in Fds, sockOf[g] = t, call'[g] # "none" PROVE Stamp(g, t)'
    <3>1. Stamp(g, t) /\ call[g] # "read"
      BY <2>1, <2>4 DEF Stamped, Stamp
    <3> QED
      BY <2>1, <3>1 DEF Stamp, Status
  <2> QED
    BY <1>a, <2>1, <2>2, <2>3, <2>4, OneSock
<1>11. ASSUME NEW t \in Socks, Sent(t) PROVE Stamped' /\ StartIsArrival'
  <2>1. UNCHANGED <<sockOf, call, queue, got, hist>>
    BY <1>11 DEF Sent
  <2>2. CASE samp' = samp
    <3>1. Between(t)' /\ \A g \in Fds : sockOf[g] = t /\ call'[g] # "none" => Stamp(g, t)'
      BY <1>e, <2>1, <2>2 DEF Between, UnderWay, Status, Stamped, Stamp
    <3> QED
      BY <1>a, <2>1, <2>2, <3>1, OneSock
  <2>3. CASE samp' # samp
    <3>1. PICK b : Status(t) = "WRITE_READY"
                   /\ samp' = [samp EXCEPT ![t].status = "SKB_READY", ![t].skb = b]
      BY <1>11, <2>3 DEF Sent
    <3>2. samp[t] \in SampData /\ samp[t] # NULL
      BY <1>a, <3>1, StatusOf DEF Status
    <3>3. samp'[t].start = samp[t].start /\ samp'[t].status = "SKB_READY"
          /\ \A s \in Socks : s # t => samp'[s] = samp[s]
      BY <1>a, <3>1, <3>2 DEF ProbeTypes, SampData
    <3>4. Status(t)' \in {"SKB_READY", "none"}
      BY <3>3 DEF Status
    <3>5. Between(t)'
      BY <1>e, <2>1, <3>1, <3>3 DEF Between, UnderWay
    <3>6. ASSUME NEW g \in Fds, sockOf[g] = t, call'[g] # "none" PROVE Stamp(g, t)'
      <4>1. Stamp(g, t)
        BY <2>1, <3>6 DEF Stamped
      <4> QED
        BY <2>1, <3>4, <4>1 DEF Stamp
    <3> QED
      BY <1>a, <2>1, <3>3, <3>5, <3>6, OneSock
  <2> QED
    BY <2>2, <2>3
<1>12. ASSUME NEW t \in Socks, Delivered(t) PROVE Stamped' /\ StartIsArrival'
  <2>1. PICK b : UNCHANGED <<sockOf, call, queue, got>> /\ Finished(t, b)
    BY <1>12 DEF Delivered
  <2>2. \A s \in Socks : s # t => hist'[s] = hist[s]
    BY <1>a, <1>12 DEF Delivered, HistTypes
  <2>3. CASE samp' = samp
    <3>1. Status(t)' = Status(t) /\ (UnderWay(t)' <=> UnderWay(t))
      BY <2>3 DEF UnderWay, Status
    <3>2. PICK d : hist' = [hist EXCEPT ![t].done = d]
      BY <1>12, <3>1 DEF Delivered
    <3>3. hist'[t].arr = hist[t].arr /\ hist'[t].rd = hist[t].rd
      BY <1>a, <3>2 DEF HistTypes
    <3>4. Between(t)' /\ \A g \in Fds : sockOf[g] = t /\ call'[g] # "none" => Stamp(g, t)'
      BY <1>e, <2>1, <2>3, <3>1, <3>3 DEF Between, Stamped, Stamp
    <3> QED
      BY <1>a, <2>1, <2>2, <2>3, <3>4, OneSock
  <2>4. CASE samp' # samp
    <3>1. Status(t) = "SKB_READY" /\ samp' = Ended(t)
      BY <2>1, <2>4 DEF Finished
    <3>2. samp[t] \in SampData
      BY <1>a, <3>1, StatusOf
    <3>3. /\ samp'[t].start \in {NULL, FUTURE} /\ samp'[t].status \in {"INIT", "FINISHED"}
          /\ \A s \in Socks : s # t => samp'[s] = samp[s]
      BY <1>a, <3>1, <3>2 DEF Ended, ProbeTypes, SampData
    <3>4. Between(t)'
      BY <3>3 DEF Between, UnderWay, Status
    <3>5. ASSUME NEW g \in Fds, sockOf[g] = t, call'[g] # "none" PROVE Stamp(g, t)'
      <4>1. Stamp(g, t)
        BY <2>1, <3>5 DEF Stamped
      <4> QED
        BY <2>1, <3>3, <4>1 DEF Stamp
    <3> QED
      BY <1>a, <2>1, <2>2, <3>3, <3>4, <3>5, OneSock
  <2> QED
    BY <2>3, <2>4
<1>13. CASE UNCHANGED <<sockOf, call, samp, queue, got, hist>>
  BY <1>13 DEF Stamped, Stamp, StartIsArrival, UnderWay, Status
<1>14. ASSUME Tick PROVE Stamped' /\ StartIsArrival'
  <2>0. UNCHANGED <<sockOf, call>>
    BY <1>14 DEF Tick
  <2>1. \A s \in Socks : queue'[s] = Older(queue[s]) /\ got'[s] = Older(got[s])
    BY <1>14, Zenon DEF Tick
  <2>2. \A s \in Socks : /\ samp[s] = NULL => samp'[s] = NULL
                         /\ samp[s] # NULL => /\ samp'[s].start = Older(samp[s].start)
                                              /\ samp'[s].status = samp[s].status
                                              /\ samp'[s] # NULL
    <3>1. ASSUME NEW s \in Socks PROVE samp[s] = NULL => samp'[s] = NULL
      BY <1>14, Zenon DEF Tick
    <3>2. ASSUME NEW s \in Socks, samp[s] # NULL
          PROVE  samp'[s].start = Older(samp[s].start) /\ samp'[s].status = samp[s].status
      <4>1. samp[s] \in SampData /\ samp'[s] = [samp[s] EXCEPT !.start = Older(samp[s].start)]
        BY <1>a, <1>14, <3>2 DEF Tick, ProbeTypes
      <4> QED
        BY <4>1 DEF SampData
    <3>3. ASSUME NEW s \in Socks, samp[s] # NULL PROVE samp'[s] # NULL
      <4>1. samp[s] \in SampData /\ samp'[s] = [samp[s] EXCEPT !.start = Older(samp[s].start)]
        BY <1>a, <1>14, <3>3 DEF Tick, ProbeTypes
      <4>2. samp[s].start \in Starts /\ Older(samp[s].start) \in Starts
        BY <4>1, OlderIsStart DEF SampData
      <4>3. samp'[s] \in SampData
        BY <4>1, <4>2 DEF SampData
      <4> QED
        BY <4>3
    <3> QED
      BY <3>1, <3>2, <3>3
  <2>3. \A s \in Socks : Status(s)' = Status(s) /\ (UnderWay(s)' <=> UnderWay(s))
    BY <2>2 DEF Status, UnderWay
  <2>4. ASSUME NEW s \in Socks, UnderWay(s)' PROVE Between(s)'
    <3>1. UnderWay(s) /\ samp[s] \in SampData
      BY <1>a, <2>3, <2>4, StatusOf DEF UnderWay
    <3>2. samp'[s].start = Older(samp[s].start) /\ samp[s].start \in Starts \ {NULL}
      BY <1>e, <2>2, <3>1 DEF Between, SampData
    <3>3. CASE samp[s].start = FUTURE
      <4>1. samp'[s].start = FUTURE
        BY <3>2, <3>3, OlderIsStart
      <4> QED
        BY <4>1, StartKinds DEF Between
    <3>4. CASE samp[s].start # FUTURE
      <4>1. samp[s].start \in Ages /\ hist[s].rd \in Ages /\ hist[s].arr \in Ages
            /\ hist[s].rd <= samp[s].start /\ samp[s].start <= hist[s].arr
        BY <1>a, <1>e, <3>1, <3>2, <3>4 DEF Between, Starts, HistTypes
      <4>2. hist'[s] = [hist[s] EXCEPT !.arr = Older(@), !.rd = Older(@)]
        BY <1>14, <3>1, Zenon DEF Tick
      <4>3. hist'[s].rd = Older(hist[s].rd) /\ hist'[s].arr = Older(hist[s].arr)
        BY <1>a, <4>2 DEF HistTypes
      <4>4. /\ Older(hist[s].rd) <= Older(samp[s].start)
            /\ Older(samp[s].start) <= Older(hist[s].arr)
        BY <4>1, OlderMonotone
      <4>5. Older(samp[s].start) # NULL
        BY <3>2, OlderIsStart
      <4> QED
        BY <3>2, <4>3, <4>4, <4>5 DEF Between
    <3> QED
      BY <3>3, <3>4
  <2>5. ASSUME NEW g \in Fds, call'[g] # "none" PROVE Stamp(g, sockOf[g])'
    <3>0. sockOf[g] \in Socks /\ call[g] # "none" /\ call'[g] = call[g]
      BY <1>b, <2>0, <2>5
    <3>1. PICK t \in Socks : t = sockOf[g] /\ t = sockOf'[g] /\ Stamp(g, t) /\ call'[g] = call[g]
      BY <2>0, <3>0 DEF Stamped
    <3>2. queue[t] \in Ages \union {NULL} /\ got[t] \in Ages \union {NULL} /\ Older(NULL) = NULL
          /\ Older(FUTURE) = FUTURE
      BY <1>a DEF KernelTypes, Older
    <3>3. Status(t)' = Status(t) /\ queue'[t] = Older(queue[t]) /\ got'[t] = Older(got[t])
      BY <2>1, <2>3
    <3>4. Status(t) # "none" => samp'[t].start = Older(samp[t].start)
      BY <2>2 DEF Status
    <3>5. Stamp(g, t)'
      BY <3>1, <3>2, <3>3, <3>4, OlderIsAge DEF Stamp
    <3> QED
      BY <3>1, <3>5 DEF Stamp, Status
  <2> QED
    BY <2>4, <2>5 DEF Stamped, StartIsArrival, Between
<1> QED
  BY <1>1, <1>2, <1>3, <1>4, <1>5, <1>6, <1>7, <1>8, <1>9, <1>10, <1>11, <1>12, <1>13, <1>14
     DEF Next, Server, Read, Network, Collapse, vars

(***************************************************************************)
(* For a server with one thread that reads when there is data, and any     *)
(* number of connections, a sample starts between the arrival of its       *)
(* request and the return of the read() that got it, wherever a delivery   *)
(* or a Tick falls between the stamp of tcp_recvmsg and the two looks at   *)
(* the status, unless the request was stamped by the real-time clock.      *)
(***************************************************************************)
THEOREM SampleStartsInTime ==
  ASSUME ~MultiThreaded, ~Blocking
  PROVE  Spec => []StartIsArrival
<1>1. Init => Maps /\ Stamped /\ StartIsArrival
  BY DEF Init, Maps, Stamped, StartIsArrival, UnderWay, Status
<1>2. IInv /\ Maps /\ [Next]_vars => Maps'
  BY NextMaps
<1>3. IInv /\ IInv' /\ Maps /\ Stamped /\ StartIsArrival /\ [Next]_vars
        => Stamped' /\ StartIsArrival'
  BY NextArrival
<1> QED
  BY <1>1, <1>2, <1>3, InductiveInvariant, PTL DEF Spec

-----------------------------------------------------------------------------
(***************************************************************************)
(* Where the reply to the sampled request is.  Own: among the skbs of out; *)
(* Ahead: and no skb before it is b; Apart: no skb that waits for its      *)
(* transmission has the address of another one.                            *)
(***************************************************************************)
Own(out) == \E i \in 1..Len(out) : out[i].own

Ahead(out, b) == \E i \in 1..Len(out) : out[i].own /\ \A j \in 1..(i - 1) : out[j].skb # b

Apart(un, fl) ==
  /\ \A i, j \in 1..Len(un) : un[i].skb = un[j].skb => i = j
  /\ \A i \in 1..Len(un) : \A j \in 1..Len(fl) : un[i].skb # fl[j].skb

(***************************************************************************)
(* What is known of a sample with status st and skb b whose sock has td to *)
(* write, un to transmit and fl to deliver, as long as the reply is not    *)
(* delivered and nothing was late: the reply is ahead of the skb that ends *)
(* the sample.                                                             *)
(***************************************************************************)
Owed(st, b, td, un, fl) ==
  /\ st = "READ_READY" => "own" \in td \/ Own(un) \/ Own(fl)
  /\ st = "WRITE_READY" => Own(fl)
  /\ st = "SKB_READY" => Ahead(fl, b)
  /\ st # "FINISHED"

Follow(st, b, td, un, fl, dn, lt) == Apart(un, fl) /\ (dn \/ lt \/ Owed(st, b, td, un, fl))

\* Nothing is owed for a sample that has not begun.
LEMMA FollowIdle ==
  ASSUME NEW st, NEW b, NEW td, NEW un, NEW fl, NEW dn, NEW lt, Apart(un, fl),
         st \in {"none", "INIT"}
  PROVE  Follow(st, b, td, un, fl, dn, lt)
BY DEF Follow, Owed

\* The positions of a sequence with an element more, or without its first one.
LEMMA AppendOut ==
  ASSUME NEW out \in Seq(Out), NEW x \in Out
  PROVE  /\ Len(out) \in Nat /\ Len(Append(out, x)) = Len(out) + 1
         /\ \A i \in 1..Len(out) : Append(out, x)[i] = out[i]
         /\ Append(out, x)[Len(out) + 1] = x
OBVIOUS

LEMMA TailOut ==
  ASSUME NEW out \in Seq(Out), out # <<>>
  PROVE  /\ Len(out) \in Nat /\ Len(out) >= 1 /\ Len(Tail(out)) = Len(out) - 1
         /\ Tail(out) \in Seq(Out) /\ Head(out) = out[1] /\ Head(out) \in Out
         /\ \A i \in 1..Len(Tail(out)) : Tail(out)[i] = out[i + 1]
OBVIOUS

\* An skb more at the end.
LEMMA OwnAppend ==
  ASSUME NEW out \in Seq(Out), NEW x \in Out
  PROVE  /\ Own(out) => Own(Append(out, x))
         /\ x.own => Own(Append(out, x))
         /\ \A b : Ahead(out, b) => Ahead(Append(out, x), b)
         /\ \A b : Own(out) /\ (\A i \in 1..Len(out) : out[i].skb # b) => Ahead(Append(out, x), b)
<1> DEFINE q == Append(out, x)
<1>1. /\ Len(out) \in Nat /\ Len(q) = Len(out) + 1
      /\ \A i \in 1..Len(out) : q[i] = out[i]
      /\ q[Len(out) + 1] = x
  BY AppendOut
<1> HIDE DEF q
<1>2. \A i \in 1..Len(out) : i \in 1..Len(q) /\ \A j \in 1..(i - 1) : j \in 1..Len(out)
  BY <1>1
<1>3. Len(out) + 1 \in 1..Len(q)
  BY <1>1
<1>4. Own(out) => Own(q)
  BY <1>1, <1>2 DEF Own
<1>5. x.own => Own(q)
  BY <1>1, <1>3 DEF Own
<1>6. ASSUME NEW b, Ahead(out, b) PROVE Ahead(q, b)
  <2>1. PICK i \in 1..Len(out) : out[i].own /\ \A j \in 1..(i - 1) : out[j].skb # b
    BY <1>6 DEF Ahead
  <2>2. i \in 1..Len(q) /\ q[i].own /\ \A j \in 1..(i - 1) : q[j].skb # b
    BY <1>1, <1>2, <2>1
  <2> QED
    BY <2>2 DEF Ahead
<1>7. ASSUME NEW b, Own(out), \A i \in 1..Len(out) : out[i].skb # b PROVE Ahead(q, b)
  <2>1. PICK i \in 1..Len(out) : out[i].own
    BY <1>7 DEF Own
  <2>2. i \in 1..Len(q) /\ q[i].own /\ \A j \in 1..(i - 1) : q[j].skb # b
    BY <1>1, <1>2, <1>7, <2>1
  <2> QED
    BY <2>2 DEF Ahead
<1> QED
  BY <1>4, <1>5, <1>6, <1>7 DEF q

\* The first skb goes.
LEMMA OwnTail ==
  ASSUME NEW out \in Seq(Out), out # <<>>
  PROVE  /\ Own(out) => Head(out).own \/ Own(Tail(out))
         /\ \A b : Ahead(out, b) => Head(out).own \/ (Head(out).skb # b /\ Ahead(Tail(out), b))
<1> DEFINE q == Tail(out)
<1>1. /\ Len(out) \in Nat /\ Len(out) >= 1 /\ Len(q) = Len(out) - 1 /\ Head(out) = out[1]
      /\ \A i \in 1..Len(q) : q[i] = out[i + 1]
  BY TailOut
<1> HIDE DEF q
<1>2. \A i \in 1..Len(out) : i = 1 \/ (i - 1 \in 1..Len(q) /\ q[i - 1] = out[i])
  <2> SUFFICES ASSUME NEW i \in 1..Len(out), i # 1 PROVE i - 1 \in 1..Len(q) /\ q[i - 1] = out[i]
    OBVIOUS
  <2>1. i - 1 \in 1..Len(q) /\ (i - 1) + 1 = i
    BY <1>1
  <2> QED
    BY <1>1, <2>1
<1>3. ASSUME Own(out) PROVE Head(out).own \/ Own(q)
  <2>1. PICK i \in 1..Len(out) : out[i].own
    BY <1>3 DEF Own
  <2> QED
    BY <1>1, <1>2, <2>1 DEF Own
<1>4. ASSUME NEW b, Ahead(out, b), ~Head(out).own PROVE Head(out).skb # b /\ Ahead(q, b)
  <2>1. PICK i \in 1..Len(out) : out[i].own /\ \A j \in 1..(i - 1) : out[j].skb # b
    BY <1>4 DEF Ahead
  <2>2. i # 1 /\ i - 1 \in 1..Len(q) /\ q[i - 1] = out[i]
    BY <1>1, <1>2, <1>4, <2>1
  <2>3. 1 \in 1..(i - 1)
    BY <1>1, <2>2
  <2>4. ASSUME NEW j \in 1..((i - 1) - 1) PROVE q[j].skb # b
    <3>1. j + 1 \in 1..(i - 1) /\ j \in 1..Len(q)
      BY <1>1, <2>2
    <3> QED
      BY <1>1, <2>1, <3>1
  <2> QED
    BY <1>1, <2>1, <2>2, <2>3, <2>4 DEF Ahead
<1> QED
  BY <1>3, <1>4 DEF q

\* Two skbs that a retransmission merges: what is own stays where it was or ahead.
Merged(out) == <<[out[1] EXCEPT !.own = out[1].own \/ out[2].own]>> \o Tail(Tail(out))

LEMMA MergedOut ==
  ASSUME NEW out \in Seq(Out), Len(out) >= 2
  PROVE  /\ Len(out) \in Nat /\ Len(Merged(out)) = Len(out) - 1
         /\ Merged(out)[1].skb = out[1].skb /\ Merged(out)[1].own = (out[1].own \/ out[2].own)
         /\ \A i \in 2..Len(Merged(out)) : Merged(out)[i] = out[i + 1]
<1> DEFINE a == [out[1] EXCEPT !.own = out[1].own \/ out[2].own]
           t == Tail(Tail(out))
<1>1. Len(out) \in Nat /\ out[1] \in Out /\ out[2] \in Out
  <2>1. Len(out) \in Nat /\ 1 \in 1..Len(out) /\ 2 \in 1..Len(out)
    OBVIOUS
  <2> QED
    BY <2>1
<1>2. a.skb = out[1].skb /\ a.own = (out[1].own \/ out[2].own) /\ a \in Out
  BY <1>1 DEF Out
<1>3. Tail(out) \in Seq(Out) /\ Len(Tail(out)) = Len(out) - 1
      /\ \A i \in 1..(Len(out) - 1) : Tail(out)[i] = out[i + 1]
  OBVIOUS
<1>4. t \in Seq(Out) /\ Len(t) = Len(out) - 2
      /\ \A i \in 1..(Len(out) - 2) : t[i] = Tail(out)[i + 1]
  BY <1>1, <1>3
<1> HIDE DEF a, t
<1>5. ASSUME NEW i \in 1..(Len(out) - 2) PROVE t[i] = out[i + 2]
  <2>1. i + 1 \in 1..(Len(out) - 1) /\ (i + 1) + 1 = i + 2
    BY <1>1
  <2> QED
    BY <1>3, <1>4, <2>1
<1>6. <<a>> \in Seq(Out) /\ Len(<<a>>) = 1 /\ <<a>>[1] = a
  BY <1>2
<1>7. Len(<<a>> \o t) = Len(out) - 1 /\ (<<a>> \o t)[1] = a
      /\ \A i \in 2..(Len(out) - 1) : (<<a>> \o t)[i] = t[i - 1]
  BY <1>1, <1>4, <1>6
<1>8. Merged(out) = <<a>> \o t
  BY DEF Merged, a, t
<1>9. ASSUME NEW i \in 2..(Len(out) - 1) PROVE Merged(out)[i] = out[i + 1]
  <2>1. i - 1 \in 1..(Len(out) - 2) /\ (i - 1) + 2 = i + 1
    BY <1>1
  <2>2. t[i - 1] = out[(i - 1) + 2]
    BY <1>5, <2>1
  <2> QED
    BY <1>7, <1>8, <2>1, <2>2
<1> QED
  BY <1>1, <1>2, <1>7, <1>8, <1>9

LEMMA OwnMerged ==
  ASSUME NEW out \in Seq(Out), Len(out) >= 2
  PROVE  /\ Own(out) => Own(Merged(out))
         /\ \A b : Ahead(out, b) => Ahead(Merged(out), b)
         /\ \A i \in 1..Len(Merged(out)) : \E j \in 1..Len(out) : Merged(out)[i].skb = out[j].skb
<1> DEFINE q == Merged(out)
<1>1. /\ Len(out) \in Nat /\ Len(q) = Len(out) - 1
      /\ q[1].skb = out[1].skb /\ q[1].own = (out[1].own \/ out[2].own)
      /\ \A i \in 2..Len(q) : q[i] = out[i + 1]
  BY MergedOut
<1> HIDE DEF q
<1>2. 1 \in 1..Len(q)
  BY <1>1
<1>3. ASSUME NEW i \in 1..Len(out), i # 1, i # 2 PROVE i - 1 \in 2..Len(q) /\ q[i - 1] = out[i]
  <2>1. i - 1 \in 2..Len(q) /\ (i - 1) + 1 = i
    BY <1>1, <1>3
  <2> QED
    BY <1>1, <2>1
<1>4. ASSUME Own(out) PROVE Own(q)
  <2>1. PICK i \in 1..Len(out) : out[i].own
    BY <1>4 DEF Own
  <2>2. CASE i = 1 \/ i = 2
    BY <1>1, <1>2, <2>1, <2>2 DEF Own
  <2>3. CASE i # 1 /\ i # 2
    <3>1. i - 1 \in 2..Len(q) /\ q[i - 1] = out[i]
      BY <1>3, <2>3
    <3>2. i - 1 \in 1..Len(q)
      BY <1>1, <3>1
    <3> QED
      BY <2>1, <3>1, <3>2 DEF Own
  <2> QED
    BY <2>2, <2>3
<1>5. ASSUME NEW b, Ahead(out, b) PROVE Ahead(q, b)
  <2>1. PICK i \in 1..Len(out) : out[i].own /\ \A j \in 1..(i - 1) : out[j].skb # b
    BY <1>5 DEF Ahead
  <2>2. CASE i = 1 \/ i = 2
    <3>1. \A j \in 1..(1 - 1) : q[j].skb # b
      OBVIOUS
    <3> QED
      BY <1>1, <1>2, <2>1, <2>2, <3>1 DEF Ahead
  <2>3. CASE i # 1 /\ i # 2
    <3>1. i - 1 \in 2..Len(q) /\ q[i - 1] = out[i]
      BY <1>3, <2>3
    <3>2. i - 1 \in 1..Len(q)
      BY <1>1, <3>1
    <3>3. ASSUME NEW j \in 1..((i - 1) - 1) PROVE q[j].skb # b
      <4>1. CASE j = 1
        <5>1. 1 \in 1..(i - 1)
          BY <1>1, <3>1
        <5> QED
          BY <1>1, <2>1, <4>1, <5>1
      <4>2. CASE j # 1
        <5>1. j \in 2..Len(q) /\ j + 1 \in 1..(i - 1)
          BY <1>1, <3>1, <4>2
        <5> QED
          BY <1>1, <2>1, <5>1
      <4> QED
        BY <4>1, <4>2
    <3> QED
      BY <2>1, <3>1, <3>2, <3>3 DEF Ahead
  <2> QED
    BY <2>2, <2>3
<1>6. ASSUME NEW i \in 1..Len(q) PROVE \E j \in 1..Len(out) : q[i].skb = out[j].skb
  <2>1. CASE i = 1
    <3>1. 1 \in 1..Len(out)
      BY <1>1
    <3> QED
      BY <1>1, <2>1, <3>1
  <2>2. CASE i # 1
    <3>1. i \in 2..Len(q) /\ i + 1 \in 1..Len(out)
      BY <1>1, <2>2
    <3> QED
      BY <1>1, <3>1
  <2> QED
    BY <2>1, <2>2
<1> QED
  BY <1>4, <1>5, <1>6 DEF q

-----------------------------------------------------------------------------
\* write() puts the reply, when it is still to be written, into an skb of its own, or
\* into several.
LEMMA FollowEnter ==
  ASSUME NEW st, NEW b, NEW td, NEW un \in Seq(Out), NEW fl \in Seq(Out), NEW dn, NEW lt,
         Follow(st, b, td, un, fl, dn, lt), NEW x \in Out, NEW k, NEW w, lt => k,
         st = "READ_READY" /\ "own" \in td => x.own \/ k,
         \A i \in 1..Len(un) : un[i].skb # x.skb, \A i \in 1..Len(fl) : fl[i].skb # x.skb
  PROVE  Follow(st, b, w, Append(un, x), fl, dn, k)
<1> DEFINE q == Append(un, x)
<1>1. /\ Len(un) \in Nat /\ Len(q) = Len(un) + 1
      /\ \A i \in 1..Len(un) : q[i] = un[i]
      /\ q[Len(un) + 1] = x
  BY AppendOut
<1>2. (Own(un) => Own(q)) /\ (x.own => Own(q))
  BY OwnAppend
<1> HIDE DEF q
<1>3. \A i \in 1..Len(q) : i \in 1..Len(un) \/ i = Len(un) + 1
  BY <1>1
<1>4. Apart(un, fl)
  BY DEF Follow
<1>5. Apart(q, fl)
  <2>1. ASSUME NEW i \in 1..Len(q), NEW j \in 1..Len(q), q[i].skb = q[j].skb PROVE i = j
    BY <1>1, <1>3, <1>4, <2>1 DEF Apart
  <2>2. ASSUME NEW i \in 1..Len(q), NEW j \in 1..Len(fl) PROVE q[i].skb # fl[j].skb
    BY <1>1, <1>3, <1>4 DEF Apart
  <2> QED
    BY <2>1, <2>2 DEF Apart
<1>6. Owed(st, b, td, un, fl) => k \/ Owed(st, b, w, q, fl)
  BY <1>2 DEF Owed
<1> QED
  BY <1>5, <1>6 DEF Follow, q

\* The first skb that waits is transmitted; the sample may take it.
LEMMA FollowSent ==
  ASSUME NEW st, NEW b, NEW td, NEW un \in Seq(Out), NEW fl \in Seq(Out), NEW dn, NEW lt,
         Follow(st, b, td, un, fl, dn, lt), un # <<>>
  PROVE  /\ st = "WRITE_READY"
              => Follow("SKB_READY", Head(un).skb, td, Tail(un), Append(fl, Head(un)), dn, lt)
         /\ st # "WRITE_READY" => Follow(st, b, td, Tail(un), Append(fl, Head(un)), dn, lt)
<1> DEFINE q == Tail(un)
           x == Head(un)
           r == Append(fl, x)
<1>1. /\ Len(un) \in Nat /\ Len(un) >= 1 /\ Len(q) = Len(un) - 1
      /\ x = un[1] /\ x \in Out
      /\ \A i \in 1..Len(q) : q[i] = un[i + 1]
  BY TailOut
<1>2. Own(un) => x.own \/ Own(q)
  BY OwnTail
<1> HIDE DEF q, x
<1>3. /\ Len(fl) \in Nat /\ Len(r) = Len(fl) + 1
      /\ \A i \in 1..Len(fl) : r[i] = fl[i]
      /\ r[Len(fl) + 1] = x
  BY <1>1, AppendOut
<1>4. /\ (Own(fl) => Own(r)) /\ (x.own => Own(r)) /\ (Ahead(fl, b) => Ahead(r, b))
      /\ Own(fl) /\ (\A i \in 1..Len(fl) : fl[i].skb # x.skb) => Ahead(r, x.skb)
  BY <1>1, OwnAppend
<1> HIDE DEF r
<1>5. Apart(un, fl)
  BY DEF Follow
<1>6. 1 \in 1..Len(un) /\ \A i \in 1..Len(q) : i + 1 \in 1..Len(un) /\ i + 1 # 1
  BY <1>1
<1>7. \A i \in 1..Len(fl) : fl[i].skb # x.skb
  BY <1>1, <1>5, <1>6 DEF Apart
<1>8. Apart(q, r)
  <2>1. ASSUME NEW i \in 1..Len(q), NEW j \in 1..Len(q), q[i].skb = q[j].skb PROVE i = j
    <3>1. i + 1 = j + 1
      BY <1>1, <1>5, <1>6, <2>1 DEF Apart
    <3> QED
      BY <3>1
  <2>2. ASSUME NEW i \in 1..Len(q), NEW j \in 1..Len(r) PROVE q[i].skb # r[j].skb
    <3>1. j \in 1..Len(fl) \/ j = Len(fl) + 1
      BY <1>3
    <3>2. q[i] = un[i + 1] /\ i + 1 \in 1..Len(un) /\ i + 1 # 1
      BY <1>1, <1>6
    <3>3. CASE j \in 1..Len(fl)
      BY <1>3, <1>5, <3>2, <3>3 DEF Apart
    <3>4. CASE j = Len(fl) + 1
      BY <1>1, <1>3, <1>5, <1>6, <3>2, <3>4 DEF Apart
    <3> QED
      BY <3>1, <3>3, <3>4
  <2> QED
    BY <2>1, <2>2 DEF Apart
<1>9. ASSUME st = "WRITE_READY" PROVE Follow("SKB_READY", x.skb, td, q, r, dn, lt)
  <2>1. Owed(st, b, td, un, fl) => Owed("SKB_READY", x.skb, td, q, r)
    BY <1>4, <1>7, <1>9 DEF Owed
  <2> QED
    BY <1>8, <2>1 DEF Follow
<1>10. ASSUME st # "WRITE_READY" PROVE Follow(st, b, td, q, r, dn, lt)
  <2>1. Owed(st, b, td, un, fl) => Owed(st, b, td, q, r)
    BY <1>2, <1>4, <1>10 DEF Owed
  <2> QED
    BY <1>8, <2>1 DEF Follow
<1> QED
  BY <1>9, <1>10 DEF q, x, r

\* write() returns: all was transmitted, or the sample is late.
LEMMA FollowReturn ==
  ASSUME NEW b, NEW td, NEW un \in Seq(Out), NEW fl \in Seq(Out), NEW dn, NEW lt,
         Follow("READ_READY", b, td, un, fl, dn, lt), "own" \notin td
  PROVE  Follow("WRITE_READY", b, td, un, fl, dn, lt \/ un # <<>>)
<1>1. un = <<>> => ~Own(un)
  BY DEF Own
<1>2. un = <<>> /\ Owed("READ_READY", b, td, un, fl) => Owed("WRITE_READY", b, td, un, fl)
  BY <1>1 DEF Owed
<1> QED
  BY <1>2 DEF Follow

\* The first skb is delivered: it is not the one of the sample, or the reply is
\* delivered with it or was before.
LEMMA FollowDelivered ==
  ASSUME NEW st, NEW b, NEW td, NEW un \in Seq(Out), NEW fl \in Seq(Out), NEW dn, NEW lt,
         Follow(st, b, td, un, fl, dn, lt), fl # <<>>
  PROVE  /\ st \in {"READ_READY", "WRITE_READY", "SKB_READY"}
              => Follow(st, b, td, un, Tail(fl), dn \/ Head(fl).own, lt)
         /\ st \notin {"READ_READY", "WRITE_READY", "SKB_READY"}
              => Follow(st, b, td, un, Tail(fl), dn, lt)
         /\ st = "SKB_READY" /\ b = Head(fl).skb
              => \A c : Follow("FINISHED", c, td, un, Tail(fl), dn \/ Head(fl).own, lt)
<1> DEFINE q == Tail(fl)
           x == Head(fl)
<1>1. /\ Len(fl) \in Nat /\ Len(fl) >= 1 /\ Len(q) = Len(fl) - 1
      /\ \A i \in 1..Len(q) : q[i] = fl[i + 1]
  BY TailOut
<1>2. /\ Own(fl) => x.own \/ Own(q)
      /\ Ahead(fl, b) => x.own \/ (x.skb # b /\ Ahead(q, b))
  BY OwnTail
<1> HIDE DEF q, x
<1>3. \A i \in 1..Len(q) : i + 1 \in 1..Len(fl)
  BY <1>1
<1>4. Apart(un, q)
  BY <1>1, <1>3 DEF Follow, Apart
<1>5. ASSUME st \in {"READ_READY", "WRITE_READY", "SKB_READY"}
      PROVE  Follow(st, b, td, un, q, dn \/ x.own, lt)
  <2>1. Owed(st, b, td, un, fl) => x.own \/ Owed(st, b, td, un, q)
    BY <1>2, <1>5 DEF Owed
  <2> QED
    BY <1>4, <2>1 DEF Follow
<1>6. ASSUME st \notin {"READ_READY", "WRITE_READY", "SKB_READY"}
      PROVE  Follow(st, b, td, un, q, dn, lt)
  <2>1. Owed(st, b, td, un, fl) => Owed(st, b, td, un, q)
    BY <1>6 DEF Owed
  <2> QED
    BY <1>4, <2>1 DEF Follow
<1>7. ASSUME st = "SKB_READY", b = x.skb, NEW c
      PROVE  Follow("FINISHED", c, td, un, q, dn \/ x.own, lt)
  <2>1. Owed(st, b, td, un, fl) => x.own
    BY <1>2, <1>7 DEF Owed
  <2> QED
    BY <1>4, <2>1 DEF Follow
<1> QED
  BY <1>5, <1>6, <1>7 DEF q, x

\* Two skbs are merged.
LEMMA FollowMerged ==
  ASSUME NEW st, NEW b, NEW td, NEW un \in Seq(Out), NEW fl \in Seq(Out), NEW dn, NEW lt,
         Follow(st, b, td, un, fl, dn, lt), Len(fl) >= 2
  PROVE  Follow(st, b, td, un, Merged(fl), dn, lt)
<1>1. Apart(un, Merged(fl))
  BY OwnMerged DEF Follow, Apart
<1>2. Owed(st, b, td, un, fl) => Owed(st, b, td, un, Merged(fl))
  BY OwnMerged DEF Owed
<1> QED
  BY <1>1, <1>2 DEF Follow

\* What other requests the server still answers does not matter.
LEMMA FollowOther ==
  ASSUME NEW st, NEW b, NEW td, NEW un, NEW fl, NEW dn, NEW lt, Follow(st, b, td, un, fl, dn, lt)
  PROVE  Follow(st, b, td \union {"other"}, un, fl, dn, lt)
<1>1. Owed(st, b, td, un, fl) => Owed(st, b, td \union {"other"}, un, fl)
  BY DEF Owed
<1> QED
  BY <1>1 DEF Follow

\* Read: the reply to the new request is the one to follow.
LEMMA FollowReady ==
  ASSUME NEW st, NEW b, NEW td, NEW un \in Seq(Out), NEW fl \in Seq(Out), NEW dn, NEW lt,
         Follow(st, b, td, un, fl, dn, lt), NEW c, NEW w, NEW e, NEW h, "own" \in w
  PROVE  Follow("READ_READY", c, w, Others(un), Others(fl), e, h)
<1>1. ASSUME NEW out \in Seq(Out)
      PROVE  Len(Others(out)) = Len(out)
             /\ \A i \in 1..Len(out) : Others(out)[i].skb = out[i].skb
  <2>1. Len(out) \in Nat /\ Others(out) = [i \in 1..Len(out) |-> [out[i] EXCEPT !.own = FALSE]]
    BY DEF Others
  <2>2. Others(out) \in Seq(Out) /\ DOMAIN Others(out) = 1..Len(out)
    BY <2>1, OthersType
  <2>3. Len(Others(out)) = Len(out)
    BY <2>1, <2>2
  <2>4. ASSUME NEW i \in 1..Len(out) PROVE Others(out)[i].skb = out[i].skb
    <3>1. out[i] \in Out /\ Others(out)[i] = [out[i] EXCEPT !.own = FALSE]
      BY <2>1
    <3> QED
      BY <3>1 DEF Out
  <2> QED
    BY <2>3, <2>4
<1>2. Apart(un, fl)
  BY DEF Follow
<1>3. PICK p, q : p = Others(un) /\ q = Others(fl)
  OBVIOUS
<1>4. /\ Len(p) = Len(un) /\ \A i \in 1..Len(un) : p[i].skb = un[i].skb
      /\ Len(q) = Len(fl) /\ \A i \in 1..Len(fl) : q[i].skb = fl[i].skb
  BY <1>1, <1>3
<1>5. /\ \A i, j \in 1..Len(p) : p[i].skb = p[j].skb => i = j
      /\ \A i \in 1..Len(p) : \A j \in 1..Len(q) : p[i].skb # q[j].skb
  BY <1>2, <1>4 DEF Apart
<1>6. Apart(Others(un), Others(fl))
  BY <1>3, <1>5 DEF Apart
<1> QED
  BY <1>6 DEF Follow, Owed

-----------------------------------------------------------------------------
(***************************************************************************)
(* The invariant behind NotTooShort: the reply of every sample of an open  *)
(* connection is followed, and nothing is on its way on a closed one.      *)
(***************************************************************************)
Traced(s) ==
  /\ Opened(s) => Follow(Status(s), samp[s].skb, todo[s], unsent[s], inflight[s],
                         hist[s].done, hist[s].late)
  /\ ~Opened(s) => /\ unsent[s] = <<>> /\ inflight[s] = <<>>
                   /\ Status(s) = "FINISHED" => hist[s].done \/ hist[s].late

Writing == \A f \in Fds : call[f] = "write" => "own" \notin todo[sockOf[f]]

Traces == Writing /\ \A s \in Socks : Traced(s)

\* An open connection after a step, from the values of its state.
LEMMA TracedNow ==
  ASSUME NEW t, NEW st, NEW b, NEW td, NEW un, NEW fl, NEW dn, NEW lt,
         Status(t)' = st, st = "SKB_READY" => samp'[t].skb = b, todo'[t] = td, unsent'[t] = un,
         inflight'[t] = fl, hist'[t].done = dn, hist'[t].late = lt, Opened(t)',
         Follow(st, b, td, un, fl, dn, lt)
  PROVE  Traced(t)'
<1>1. PICK c : c = samp'[t].skb
  OBVIOUS
<1>2. Owed(st, b, td, un, fl) => Owed(st, c, td, un, fl)
  BY <1>1 DEF Owed
<1>3. Follow(st, c, td, un, fl, dn, lt)
  BY <1>2 DEF Follow
<1> QED
  BY <1>1, <1>3 DEF Traced

\* A sock that a step leaves alone.
LEMMA TracedFrame ==
  ASSUME NEW s, Traced(s), Opened(s)' <=> Opened(s), Status(s)' = Status(s),
         Status(s) = "SKB_READY" => samp'[s].skb = samp[s].skb,
         todo'[s] = todo[s], unsent'[s] = unsent[s], inflight'[s] = inflight[s],
         hist'[s].done = hist[s].done, hist'[s].late = hist[s].late
  PROVE  Traced(s)'
<1>1. CASE Opened(s)
  <2>1. Follow(Status(s), samp[s].skb, todo[s], unsent[s], inflight[s], hist[s].done, hist[s].late)
    BY <1>1 DEF Traced
  <2> QED
    BY <1>1, <2>1, TracedNow
<1>2. CASE ~Opened(s)
  BY <1>2 DEF Traced
<1> QED
  BY <1>1, <1>2

\* A step that changes one sock t.
LEMMA OneTraced ==
  ASSUME NEW t \in Socks, \A s \in Socks : Traced(s), Traced(t)', UNCHANGED sockOf,
         \A s \in Socks : s # t => /\ samp'[s] = samp[s] /\ todo'[s] = todo[s]
                                   /\ unsent'[s] = unsent[s] /\ inflight'[s] = inflight[s]
                                   /\ hist'[s] = hist[s]
  PROVE  \A s \in Socks : Traced(s)'
<1> SUFFICES ASSUME NEW s \in Socks, s # t PROVE Traced(s)'
  OBVIOUS
<1>1. (Opened(s)' <=> Opened(s)) /\ Status(s)' = Status(s)
  BY DEF Opened, Status
<1> QED
  BY <1>1, TracedFrame

\* While write() is under way the reply is no longer to be written.
LEMMA NextWriting == IInv /\ Writing /\ [Next]_vars => Writing'
<1> SUFFICES ASSUME IInv, Writing, [Next]_vars, NEW g \in Fds, call'[g] = "write"
             PROVE  "own" \notin todo'[sockOf'[g]]
  BY DEF Writing
<1> USE KsliAssumption DEF streamVars
<1>a. KernelTypes /\ Calls
  BY DEF IInv
<1>b. \A f, h \in Fds : sockOf[f] # NULL /\ sockOf[f] = sockOf[h] => f = h
  BY <1>a DEF Calls
<1>c. call[g] = "write" => sockOf[g] \in Socks /\ "own" \notin todo[sockOf[g]]
  BY <1>a DEF Calls, KernelTypes, Writing
<1>1. ASSUME NEW f \in Fds, NEW s \in Socks, Accept(f, s) \/ AcceptOther(f, s)
      PROVE  "own" \notin todo'[sockOf'[g]]
  <2>1. UNCHANGED <<call, todo>> /\ sockOf' = [sockOf EXCEPT ![f] = s] /\ sockOf[f] = NULL
    BY <1>1 DEF Accept, AcceptOther
  <2>2. g # f
    BY <1>c, <2>1
  <2>3. sockOf'[g] = sockOf[g]
    BY <1>a, <2>1, <2>2 DEF KernelTypes
  <2> QED
    BY <1>c, <2>1, <2>3
<1>2. ASSUME NEW f \in Fds, CloseRelease(f) PROVE "own" \notin todo'[sockOf'[g]]
  <2>1. UNCHANGED call /\ sockOf' = [sockOf EXCEPT ![f] = NULL] /\ sockOf[f] # NULL
        /\ todo' = [todo EXCEPT ![sockOf[f]] = {}] /\ call[f] = "none"
    BY <1>2 DEF CloseRelease
  <2>2. g # f /\ sockOf[g] # sockOf[f]
    BY <1>b, <2>1
  <2>3. sockOf'[g] = sockOf[g] /\ todo'[sockOf[g]] = todo[sockOf[g]]
    BY <1>a, <1>c, <2>1, <2>2 DEF KernelTypes
  <2> QED
    BY <1>c, <2>1, <2>3
<1>3. ASSUME NEW f \in Fds, WriteEnter(f) \/ WriteMore(f) PROVE "own" \notin todo'[sockOf'[g]]
  <2>0. PICK t \in Socks, x \in Out, l \in BOOLEAN, w \in {{}, {"other"}} : Piece(f, t, x, l, w)
    BY <1>a, <1>3, OnePiece, Zenon
  <2>1. UNCHANGED sockOf /\ todo' = [todo EXCEPT ![sockOf[f]] = w] /\ t = sockOf[f]
        /\ call' = [call EXCEPT ![f] = "write"]
    BY <2>0 DEF Piece
  <2>2. sockOf[f] \in Socks /\ sockOf[f] # NULL /\ "own" \notin w
    BY <2>1
  <2>3. CASE g = f
    BY <1>a, <2>1, <2>2, <2>3 DEF KernelTypes
  <2>4. CASE g # f
    <3>1. call[g] = "write"
      BY <1>a, <2>1, <2>4 DEF KernelTypes
    <3> QED
      BY <1>a, <1>b, <1>c, <2>1, <2>4, <3>1 DEF KernelTypes
  <2> QED
    BY <2>3, <2>4
<1>4. ASSUME NEW f \in Fds, NotSampled(f) PROVE "own" \notin todo'[sockOf'[g]]
  <2>1. UNCHANGED sockOf /\ call[f] = "check" /\ call' = [call EXCEPT ![f] = "none"]
        /\ todo' = [todo EXCEPT ![sockOf[f]] = @ \union {"other"}]
    BY <1>4 DEF NotSampled
  <2>2. call[g] = "write" /\ g # f
    BY <1>a, <2>1 DEF KernelTypes
  <2>3. sockOf[g] # sockOf[f]
    BY <1>b, <1>c, <2>2
  <2>4. todo'[sockOf[g]] = todo[sockOf[g]]
    BY <1>a, <1>c, <2>1, <2>2, <2>3 DEF KernelTypes
  <2> QED
    BY <1>c, <2>1, <2>2, <2>4
<1>5. ASSUME NEW f \in Fds, ReadReady(f) PROVE "own" \notin todo'[sockOf'[g]]
  <2>1. PICK x : UNCHANGED sockOf /\ call[f] = "check" /\ call' = [call EXCEPT ![f] = "none"]
                 /\ todo' = [todo EXCEPT ![sockOf[f]] = x]
    BY <1>5 DEF ReadReady
  <2>2. call[g] = "write" /\ g # f
    BY <1>a, <2>1 DEF KernelTypes
  <2>3. sockOf[g] # sockOf[f]
    BY <1>b, <1>c, <2>2
  <2>4. todo'[sockOf[g]] = todo[sockOf[g]]
    BY <1>a, <1>c, <2>1, <2>2, <2>3 DEF KernelTypes
  <2> QED
    BY <1>c, <2>1, <2>2, <2>4
<1>6. ASSUME NEW f \in Fds, UNCHANGED <<sockOf, todo>>,
             NEW w \in {"none", "read", "check"}, call' = [call EXCEPT ![f] = w]
      PROVE  "own" \notin todo'[sockOf'[g]]
  <2>1. call[g] = "write"
    BY <1>a, <1>6 DEF KernelTypes
  <2> QED
    BY <1>c, <1>6, <2>1
<1>7. ASSUME NEW f \in Fds, ReadEnter(f) \/ ReadReturn(f) \/ WriteReturn(f)
      PROVE  "own" \notin todo'[sockOf'[g]]
  <2>1. PICK w \in {"none", "read", "check"} :
          UNCHANGED <<sockOf, todo>> /\ call' = [call EXCEPT ![f] = w]
    BY <1>7, Zenon DEF ReadEnter, ReadReturn, WriteReturn
  <2> QED
    BY <1>6, <2>1
<1>8. CASE UNCHANGED <<sockOf, todo, call>>
  BY <1>c, <1>8
<1> QED
  BY <1>1, <1>2, <1>3, <1>4, <1>5, <1>7, <1>8
     DEF Next, Server, Network, Read, ReadBusy, ReadUnknown, CloseRet, Arrive, Sent, Delivered,
         Collapse, Tick, vars

\* With one thread every step follows the reply.
LEMMA NextTraced ==
  ASSUME ~MultiThreaded
  PROVE  IInv /\ Maps /\ Traces /\ [Next]_vars => \A s \in Socks : Traced(s)'
<1> SUFFICES ASSUME IInv, Maps, Traces, [Next]_vars
             PROVE  \A s \in Socks : Traced(s)'
  OBVIOUS
<1> USE KsliAssumption DEF streamVars
<1>a. KernelTypes /\ ProbeTypes /\ HistTypes /\ Calls /\ OutTypes
  BY DEF IInv
<1>b. \A f \in Fds : call[f] # "none" => sockOf[f] \in Socks /\ f \notin closing
  BY <1>a DEF Calls, KernelTypes, Maps
<1>c. \A f \in Fds : call[f] # "none" /\ conn[f] # NULL => conn[f].sk = sockOf[f]
  BY <1>b DEF Maps
<1>d. \A f, g \in Fds : sockOf[f] # NULL /\ sockOf[f] = sockOf[g] => f = g
  BY <1>a DEF Calls
<1>e. \A s \in Socks : Traced(s)
  BY DEF Traces
<1>f. \A s \in Socks : unsent[s] \in Seq(Out) /\ inflight[s] \in Seq(Out)
  BY <1>a DEF OutTypes
<1>g. ASSUME NEW t \in Socks, Opened(t)
      PROVE  Follow(Status(t), samp[t].skb, todo[t], unsent[t], inflight[t],
                    hist[t].done, hist[t].late)
  BY <1>e, <1>g DEF Traced
<1>1. ASSUME NEW f \in Fds, NEW s \in Socks, Accept(f, s) \/ AcceptOther(f, s)
      PROVE  \A t \in Socks : Traced(t)'
  <2>1. UNCHANGED <<todo, unsent, inflight, hist>> /\ sockOf' = [sockOf EXCEPT ![f] = s]
        /\ sockOf[f] = NULL /\ (\A g \in Fds : sockOf[g] # s) /\ closing = {}
    BY <1>1 DEF Accept, AcceptOther, Opened, MayCall
  <2>2. \A t \in Socks : t # s => samp'[t] = samp[t]
    BY <1>a, <1>1 DEF Accept, AcceptOther, ProbeTypes
  <2>3. samp[s] = NULL
    BY <2>1 DEF Maps
  <2>4. Status(s)' \in {"none", "INIT"}
    BY <1>a, <1>1, <2>3 DEF Accept, AcceptOther, ProbeTypes, Status, Fresh
  <2>5. Opened(s)' /\ ~Opened(s)
    BY <1>a, <2>1 DEF Opened, KernelTypes
  <2>6. unsent[s] = <<>> /\ inflight[s] = <<>>
    BY <1>e, <2>5 DEF Traced
  <2>7. Apart(<<>>, <<>>)
    BY DEF Apart
  <2>8. Traced(s)'
    <3>1. PICK st, b, td, dn, lt : st = Status(s)' /\ b = samp'[s].skb /\ td = todo[s]
                                   /\ dn = hist[s].done /\ lt = hist[s].late
      OBVIOUS
    <3>2. Follow(st, b, td, <<>>, <<>>, dn, lt)
      BY <2>4, <2>7, <3>1, FollowIdle
    <3> QED
      BY <2>1, <2>5, <2>6, <3>1, <3>2, TracedNow
  <2>9. ASSUME NEW t \in Socks, t # s PROVE Traced(t)'
    <3>1. Opened(t)' <=> Opened(t)
      <4>1. ASSUME NEW g \in Fds PROVE sockOf'[g] = t <=> sockOf[g] = t
        BY <1>a, <2>1, <2>9 DEF KernelTypes
      <4> QED
        BY <4>1 DEF Opened
    <3>2. Status(t)' = Status(t) /\ samp'[t] = samp[t]
      BY <2>2, <2>9 DEF Status
    <3> QED
      BY <1>e, <2>1, <3>1, <3>2, TracedFrame
  <2> QED
    BY <2>8, <2>9
<1>2. ASSUME NEW f \in Fds, CloseRelease(f) PROVE \A t \in Socks : Traced(t)'
  <2>1. PICK s \in Socks : s = sockOf[f]
    BY <1>a, <1>2 DEF CloseRelease, KernelTypes
  <2>2. UNCHANGED <<hist, samp>> /\ sockOf' = [sockOf EXCEPT ![f] = NULL]
        /\ todo' = [todo EXCEPT ![s] = {}]
        /\ unsent' = [unsent EXCEPT ![s] = <<>>] /\ inflight' = [inflight EXCEPT ![s] = <<>>]
    BY <1>2, <2>1 DEF CloseRelease
  <2>3. ~Opened(s)' /\ Opened(s) /\ \A t \in Socks : t # s => (Opened(t)' <=> Opened(t))
    <3>1. \A g \in Fds : sockOf'[g] = IF g = f THEN NULL ELSE sockOf[g]
      BY <1>a, <2>2 DEF KernelTypes
    <3> QED
      BY <1>d, <2>1, <3>1 DEF Opened
  <2>4. unsent'[s] = <<>> /\ inflight'[s] = <<>>
        /\ \A t \in Socks : t # s => /\ unsent'[t] = unsent[t] /\ inflight'[t] = inflight[t]
                                     /\ todo'[t] = todo[t]
    BY <1>a, <2>2 DEF OutTypes, KernelTypes
  <2>5. Status(s) = "FINISHED" => hist[s].done \/ hist[s].late
    BY <1>e, <2>3 DEF Traced, Follow, Owed
  <2>6. \A t \in Socks : Status(t)' = Status(t)
    BY <2>2 DEF Status
  <2>7. Traced(s)'
    BY <2>2, <2>3, <2>4, <2>5, <2>6 DEF Traced
  <2>8. ASSUME NEW t \in Socks, t # s PROVE Traced(t)'
    BY <1>e, <2>2, <2>3, <2>4, <2>6, <2>8, TracedFrame
  <2> QED
    BY <2>7, <2>8
<1>3. ASSUME NEW f \in Fds, CloseRet(f) PROVE \A t \in Socks : Traced(t)'
  <2>1. PICK t \in Socks : conn[f] # NULL /\ t = conn[f].sk
    BY <1>a, <1>3 DEF CloseRet, Maps, ProbeTypes, ConnData
  <2>2. UNCHANGED <<sockOf, todo, unsent, inflight>> /\ samp' = [samp EXCEPT ![t] = NULL]
        /\ hist' = [hist EXCEPT ![t] = NoSample] /\ f \in closing
    BY <1>3, <2>1 DEF CloseRet
  <2>3. samp'[t] = NULL /\ \A s \in Socks : s # t => samp'[s] = samp[s] /\ hist'[s] = hist[s]
    BY <1>a, <2>2 DEF ProbeTypes, HistTypes
  <2>4. Status(t)' = "none" /\ (Opened(t)' <=> Opened(t))
    BY <2>2, <2>3 DEF Status, Opened
  <2>5. CASE ~Opened(t)
    <3>1. Traced(t)'
      BY <1>e, <2>2, <2>4, <2>5 DEF Traced
    <3> QED
      BY <1>e, <2>2, <2>3, <3>1, OneTraced
  <2>6. CASE Opened(t)
    <3>1. Apart(unsent[t], inflight[t])
      BY <1>e, <2>6 DEF Traced, Follow
    <3>2. PICK st, b, td, un, fl, dn, lt :
            /\ st = Status(t)' /\ b = samp'[t].skb /\ td = todo'[t] /\ un = unsent'[t]
            /\ fl = inflight'[t] /\ dn = hist'[t].done /\ lt = hist'[t].late
      OBVIOUS
    <3>3. Follow(st, b, td, un, fl, dn, lt)
      BY <2>2, <2>4, <3>1, <3>2, FollowIdle
    <3>4. Traced(t)'
      BY <2>4, <2>6, <3>2, <3>3, TracedNow
    <3> QED
      BY <1>e, <2>2, <2>3, <3>4, OneTraced
  <2> QED
    BY <2>5, <2>6
<1>4. ASSUME NEW f \in Fds, ReadEnter(f) PROVE \A s \in Socks : Traced(s)'
  <2>1. PICK t \in Socks : t = sockOf[f]
    BY <1>a, <1>4 DEF ReadEnter, KernelTypes
  <2>2. Recvmsg(t) /\ UNCHANGED <<sockOf, todo, unsent, inflight, hist>>
    BY <1>4, <2>1 DEF ReadEnter
  <2>3. \A s \in Socks : s # t => samp'[s] = samp[s]
    BY <1>a, <2>2 DEF Recvmsg, ProbeTypes
  <2>4. Status(t)' = Status(t) /\ (Status(t) = "SKB_READY" => samp' = samp)
    <3>1. CASE samp' = samp
      BY <3>1 DEF Status
    <3>2. CASE samp' # samp
      <4>1. PICK x \in Stamps(t) : samp' = [samp EXCEPT ![t].start = x]
        BY <2>2, <3>2 DEF Recvmsg
      <4>2. Status(t) \in {"INIT", "FINISHED"} /\ x \in Starts
        BY <1>a, <2>2, <3>2, StartKinds DEF Recvmsg, Stamps, KernelTypes
      <4>3. samp[t] \in SampData /\ samp[t].status = Status(t)
        BY <1>a, <4>2, StatusOf
      <4>4. samp'[t] = [samp[t] EXCEPT !.start = x]
        BY <1>a, <4>1 DEF ProbeTypes
      <4>5. samp'[t] \in SampData /\ samp'[t].status = samp[t].status
        BY <4>2, <4>3, <4>4 DEF SampData
      <4> QED
        BY <4>2, <4>3, <4>5 DEF Status
    <3> QED
      BY <3>1, <3>2
  <2>5. Traced(t)'
    <3>1. Opened(t)' <=> Opened(t)
      BY <2>2 DEF Opened
    <3> QED
      BY <1>e, <2>2, <2>4, <3>1, TracedFrame
  <2> QED
    BY <1>e, <2>2, <2>3, <2>5, OneTraced
<1>5. ASSUME NEW f \in Fds, ReadReturn(f) PROVE \A s \in Socks : Traced(s)'
  <2>1. PICK t \in Socks : t = sockOf[f]
    BY <1>b, <1>5 DEF ReadReturn
  <2>2. UNCHANGED <<sockOf, todo, unsent, inflight>> /\ call[f] = "read"
    BY <1>5 DEF ReadReturn
  <2>3. Opened(t) /\ Opened(t)'
    BY <2>1, <2>2 DEF Opened
  <2>4. CASE UNCHANGED <<samp, hist>>
    <3>1. Traced(t)'
      BY <1>e, <2>2, <2>3, <2>4, TracedFrame DEF Status
    <3> QED
      BY <1>e, <2>2, <2>4, <3>1, OneTraced
  <2>5. CASE ~UNCHANGED <<samp, hist>>
    <3>1. Known(f) /\ conn[f] \in ConnData
      BY <1>a, <1>5, <2>5 DEF ReadReturn, Known, ProbeTypes
    <3>2. Reported(conn[f]).sk = t
      BY <1>c, <2>1, <2>2, <3>1, ReportedType DEF Known
    <3>3. samp' = [samp EXCEPT ![t].status = "INIT"] /\ hist' = [hist EXCEPT ![t] = NoSample]
      BY <1>5, <2>5, <3>1, <3>2 DEF ReadReturn
    <3>4. samp[t] \in SampData
      BY <1>a, <1>c, <2>1, <2>2, <3>1 DEF Known, ProbeTypes
    <3>5. samp'[t].status = "INIT"
          /\ \A s \in Socks : s # t => samp'[s] = samp[s] /\ hist'[s] = hist[s]
      BY <1>a, <3>3, <3>4 DEF ProbeTypes, HistTypes, SampData
    <3>6. Status(t)' \in {"none", "INIT"}
      BY <3>5 DEF Status
    <3>7. Traced(t)'
      <4>1. PICK st, b, td, un, fl, dn, lt :
              /\ st = Status(t)' /\ b = samp'[t].skb /\ td = todo'[t] /\ un = unsent'[t]
              /\ fl = inflight'[t] /\ dn = hist'[t].done /\ lt = hist'[t].late
        OBVIOUS
      <4>2. Apart(un, fl)
        BY <1>g, <2>2, <2>3, <4>1 DEF Follow
      <4>3. Follow(st, b, td, un, fl, dn, lt)
        BY <3>6, <4>1, <4>2, FollowIdle
      <4> QED
        BY <2>3, <4>1, <4>3, TracedNow
    <3> QED
      BY <1>e, <2>2, <3>5, <3>7, OneTraced
  <2> QED
    BY <2>4, <2>5
<1>6. ASSUME NEW f \in Fds, ReadBusy(f) \/ ReadUnknown(f) PROVE \A s \in Socks : Traced(s)'
  <2>1. PICK t \in Socks : t = sockOf[f]
    BY <1>b, <1>6 DEF ReadBusy, ReadUnknown, NotSampled
  <2>2. UNCHANGED <<sockOf, unsent, inflight>> /\ call[f] = "check"
        /\ todo' = [todo EXCEPT ![t] = @ \union {"other"}]
    BY <1>6, <2>1 DEF ReadBusy, ReadUnknown, NotSampled
  <2>3. Opened(t) /\ Opened(t)'
    BY <2>1, <2>2 DEF Opened
  <2>4. todo'[t] = todo[t] \union {"other"} /\ \A s \in Socks : s # t => todo'[s] = todo[s]
    BY <1>a, <2>2 DEF KernelTypes
  <2>5. PICK st, b, td, un, fl, dn, lt :
          /\ st = Status(t) /\ b = samp[t].skb /\ td = todo[t] /\ un = unsent[t]
          /\ fl = inflight[t] /\ dn = hist[t].done /\ lt = hist[t].late
    OBVIOUS
  <2>6. Follow(st, b, td, un, fl, dn, lt)
    BY <1>g, <2>3, <2>5
  <2>7. Follow(st, b, td \union {"other"}, un, fl, dn, lt)
    BY <2>6, FollowOther
  <2>8. CASE UNCHANGED <<samp, hist>>
    <3>1. Status(t)' = st
      BY <2>5, <2>8 DEF Status
    <3>2. Traced(t)'
      BY <2>2, <2>3, <2>4, <2>5, <2>7, <2>8, <3>1, TracedNow
    <3> QED
      BY <1>e, <2>2, <2>4, <2>8, <3>2, OneTraced
  <2>9. CASE ~UNCHANGED <<samp, hist>>
    <3>1. Known(f) /\ conn[f].sk = t /\ samp[t] \in SampData
      BY <1>a, <1>c, <1>6, <2>1, <2>2, <2>9 DEF ReadBusy, ReadUnknown, Known, ProbeTypes
    <3>2. samp' = [samp EXCEPT ![t].status = "INIT", ![t].start = NULL]
          /\ hist' = [hist EXCEPT ![t] = NoSample]
      BY <1>6, <2>9, <3>1 DEF ReadBusy, ReadUnknown
    <3>3. samp'[t].status = "INIT"
          /\ \A s \in Socks : s # t => samp'[s] = samp[s] /\ hist'[s] = hist[s]
      BY <1>a, <3>1, <3>2 DEF ProbeTypes, HistTypes, SampData
    <3>4. Status(t)' \in {"none", "INIT"}
      BY <3>3 DEF Status
    <3>5. Traced(t)'
      <4>1. PICK v, c, e, h : /\ v = Status(t)' /\ c = samp'[t].skb
                              /\ e = hist'[t].done /\ h = hist'[t].late
        OBVIOUS
      <4>2. Apart(un, fl)
        BY <2>6 DEF Follow
      <4>3. Follow(v, c, td \union {"other"}, un, fl, e, h)
        BY <3>4, <4>1, <4>2, FollowIdle
      <4> QED
        BY <2>2, <2>3, <2>4, <2>5, <4>1, <4>3, TracedNow
    <3> QED
      BY <1>e, <2>2, <2>4, <3>3, <3>5, OneTraced
  <2> QED
    BY <2>8, <2>9
<1>7. ASSUME NEW f \in Fds, ReadReady(f) PROVE \A s \in Socks : Traced(s)'
  <2>1. PICK t \in Socks : t = sockOf[f]
    BY <1>b, <1>7 DEF ReadReady
  <2>2. UNCHANGED sockOf /\ call[f] = "check" /\ Known(f)
    BY <1>7 DEF ReadReady
  <2>3. Opened(t) /\ Opened(t)' /\ conn[f].sk = t /\ samp[t] \in SampData
    BY <1>a, <1>c, <2>1, <2>2 DEF Opened, Known, ProbeTypes
  <2>4. PICK x, w, h :
          /\ samp' = [samp EXCEPT ![t].status = "READ_READY", ![t].start = x]
          /\ todo' = [todo EXCEPT ![t] = w] /\ "own" \in w
          /\ unsent' = [unsent EXCEPT ![t] = Others(unsent[t])]
          /\ inflight' = [inflight EXCEPT ![t] = Others(inflight[t])]
          /\ hist' = [hist EXCEPT ![t] = h]
    <3>1. PICK x, w, h : /\ x = IF samp[t].start = NULL THEN 0 ELSE samp[t].start
                         /\ w = (IF todo[t] = {} THEN {} ELSE {"other"}) \union {"own"}
                         /\ h = [arr |-> got[t], rd |-> 0, late |-> unsent[t] # <<>>,
                                 done |-> FALSE]
      OBVIOUS
    <3>2. "own" \in w
      BY <3>1
    <3> QED
      BY <1>7, <2>1, <2>3, <3>1, <3>2 DEF ReadReady
  <2>5. samp'[t].status = "READ_READY" /\ todo'[t] = w
        /\ unsent'[t] = Others(unsent[t]) /\ inflight'[t] = Others(inflight[t])
        /\ \A s \in Socks : s # t => /\ samp'[s] = samp[s] /\ hist'[s] = hist[s]
                                     /\ todo'[s] = todo[s] /\ unsent'[s] = unsent[s]
                                     /\ inflight'[s] = inflight[s]
    BY <1>a, <2>3, <2>4 DEF ProbeTypes, HistTypes, SampData, OutTypes, KernelTypes
  <2>6. PICK st, b, td, un, fl, dn, lt :
          /\ st = Status(t) /\ b = samp[t].skb /\ td = todo[t] /\ un = unsent[t]
          /\ fl = inflight[t] /\ dn = hist[t].done /\ lt = hist[t].late
    OBVIOUS
  <2>7. Follow(st, b, td, un, fl, dn, lt) /\ un \in Seq(Out) /\ fl \in Seq(Out)
    BY <1>f, <1>g, <2>3, <2>6
  <2>8. PICK v, c, e, k : /\ v = Status(t)' /\ c = samp'[t].skb
                          /\ e = hist'[t].done /\ k = hist'[t].late
    OBVIOUS
  <2>9. v \in {"none", "READ_READY"}
    BY <2>5, <2>8 DEF Status
  <2>10. Follow("READ_READY", c, w, Others(un), Others(fl), e, k)
    BY <2>4, <2>7, FollowReady
  <2>11. Follow(v, c, w, Others(un), Others(fl), e, k)
    <3>1. Apart(Others(un), Others(fl))
      BY <2>10 DEF Follow
    <3> QED
      BY <2>9, <2>10, <3>1, FollowIdle
  <2>12. Traced(t)'
    BY <2>3, <2>5, <2>6, <2>8, <2>11, TracedNow
  <2> QED
    BY <1>e, <2>2, <2>5, <2>12, OneTraced
<1>8. ASSUME NEW f \in Fds, WriteEnter(f) \/ WriteMore(f) PROVE \A s \in Socks : Traced(s)'
  <2>0. PICK t \in Socks, x \in Out, l \in BOOLEAN, w \in {{}, {"other"}} : Piece(f, t, x, l, w)
    BY <1>a, <1>8, OnePiece, Zenon
  <2>1. /\ x.skb \notin SkbsOf(unsent[t]) /\ x.skb \notin SkbsOf(inflight[t])
        /\ UnderWay(t) /\ "own" \in todo[t] => x.own \/ l
    BY <2>0 DEF Piece
  <2>2. /\ unsent' = [unsent EXCEPT ![t] = Append(unsent[t], x)]
        /\ todo' = [todo EXCEPT ![t] = w]
        /\ hist' = [hist EXCEPT ![t].late = hist[t].late \/ l]
        /\ UNCHANGED <<sockOf, samp, inflight>> /\ t = sockOf[f]
    BY <2>0 DEF Piece
  <2>3. Opened(t) /\ Opened(t)'
    BY <2>2 DEF Opened
  <2>8. /\ \A i \in 1..Len(unsent[t]) : unsent[t][i].skb # x.skb
        /\ \A i \in 1..Len(inflight[t]) : inflight[t][i].skb # x.skb
    BY <1>f, <2>1 DEF SkbsOf
  <2>9. /\ unsent'[t] = Append(unsent[t], x) /\ todo'[t] = w
        /\ hist'[t].done = hist[t].done /\ hist'[t].late = (hist[t].late \/ l)
        /\ \A s \in Socks : s # t => /\ unsent'[s] = unsent[s] /\ todo'[s] = todo[s]
                                     /\ hist'[s] = hist[s]
    BY <1>a, <2>2 DEF OutTypes, KernelTypes, HistTypes
  <2>10. PICK st, b, td, un, fl, dn, lt :
           /\ st = Status(t) /\ b = samp[t].skb /\ td = todo[t] /\ un = unsent[t]
           /\ fl = inflight[t] /\ dn = hist[t].done /\ lt = hist[t].late
    OBVIOUS
  <2>11. Follow(st, b, td, un, fl, dn, lt) /\ un \in Seq(Out) /\ fl \in Seq(Out)
    BY <1>f, <1>g, <2>3, <2>10
  <2>12. PICK k : k = (lt \/ l)
    OBVIOUS
  <2>13. (lt => k) /\ (st = "READ_READY" /\ "own" \in td => x.own \/ k)
    BY <2>1, <2>10, <2>12 DEF UnderWay
  <2>14. Follow(st, b, w, Append(un, x), fl, dn, k)
    BY <2>8, <2>10, <2>11, <2>13, FollowEnter
  <2>15. Status(t)' = st /\ samp'[t].skb = b /\ inflight'[t] = fl
    BY <2>2, <2>10 DEF Status
  <2>16. hist'[t].done = dn /\ hist'[t].late = k
    BY <2>9, <2>10, <2>12
  <2>17. Traced(t)'
    BY <2>3, <2>9, <2>10, <2>14, <2>15, <2>16, TracedNow
  <2> QED
    BY <1>e, <2>2, <2>9, <2>17, OneTraced
<1>9. ASSUME NEW f \in Fds, WriteReturn(f) PROVE \A s \in Socks : Traced(s)'
  <2>1. PICK t \in Socks : t = sockOf[f]
    BY <1>b, <1>9 DEF WriteReturn
  <2>2. PICK l : /\ l = (UnderWay(t) /\ unsent[t] # <<>>) /\ call[f] = "write"
                 /\ UNCHANGED <<sockOf, todo, unsent, inflight>>
                 /\ hist' = [hist EXCEPT ![t].late = @ \/ l]
    BY <1>9, <2>1 DEF WriteReturn
  <2>3. Opened(t) /\ Opened(t)' /\ "own" \notin todo[t]
    BY <2>1, <2>2 DEF Opened, Traces, Writing
  <2>4. hist'[t].done = hist[t].done /\ hist'[t].late = (hist[t].late \/ l)
        /\ \A s \in Socks : s # t => hist'[s] = hist[s]
    BY <1>a, <2>2 DEF HistTypes
  <2>5. PICK st, b, td, un, fl, dn, lt :
          /\ st = Status(t) /\ b = samp[t].skb /\ td = todo[t] /\ un = unsent[t]
          /\ fl = inflight[t] /\ dn = hist[t].done /\ lt = hist[t].late
    OBVIOUS
  <2>6. Follow(st, b, td, un, fl, dn, lt) /\ un \in Seq(Out) /\ fl \in Seq(Out)
    BY <1>f, <1>g, <2>3, <2>5
  <2>7. CASE samp' = samp
    <3>1. Status(t)' = st
      BY <2>5, <2>7 DEF Status
    <3>2. PICK k : k = (lt \/ l)
      OBVIOUS
    <3>3. Follow(st, b, td, un, fl, dn, k)
      BY <2>6, <3>2 DEF Follow
    <3>4. Traced(t)'
      BY <2>2, <2>3, <2>4, <2>5, <2>7, <3>1, <3>2, <3>3, TracedNow
    <3> QED
      BY <1>e, <2>2, <2>4, <2>7, <3>4, OneTraced
  <2>8. CASE samp' # samp
    <3>1. Status(t) = "READ_READY" /\ samp' = [samp EXCEPT ![t].status = "WRITE_READY"]
      BY <1>c, <1>9, <2>1, <2>2, <2>8 DEF WriteReturn, Known
    <3>2. samp[t] \in SampData
      BY <1>a, <3>1, StatusOf
    <3>3. samp'[t].status = "WRITE_READY" /\ \A s \in Socks : s # t => samp'[s] = samp[s]
      BY <1>a, <3>1, <3>2 DEF ProbeTypes, SampData
    <3>4. PICK v, c, k : v = Status(t)' /\ c = samp'[t].skb /\ k = (lt \/ un # <<>>)
      OBVIOUS
    <3>5. v \in {"none", "WRITE_READY"}
      BY <3>3, <3>4 DEF Status
    <3>6. k = (lt \/ l)
      BY <2>2, <2>5, <3>1, <3>4 DEF UnderWay
    <3>7. Follow("WRITE_READY", b, td, un, fl, dn, k)
      BY <2>3, <2>5, <2>6, <3>1, <3>4, FollowReturn
    <3>8. Follow(v, c, td, un, fl, dn, k)
      BY <3>5, <3>7 DEF Follow, Owed
    <3>9. Traced(t)'
      BY <2>2, <2>3, <2>4, <2>5, <3>4, <3>6, <3>8, TracedNow
    <3> QED
      BY <1>e, <2>2, <2>4, <3>3, <3>9, OneTraced
  <2> QED
    BY <2>7, <2>8
<1>10. ASSUME NEW t \in Socks, Sent(t) PROVE \A s \in Socks : Traced(s)'
  <2>1. UNCHANGED <<sockOf, todo, hist>> /\ unsent[t] # <<>>
        /\ inflight' = [inflight EXCEPT ![t] = Append(@, Head(unsent[t]))]
        /\ unsent' = [unsent EXCEPT ![t] = Tail(@)]
    BY <1>10 DEF Sent
  <2>2. Opened(t) /\ Opened(t)'
    BY <1>e, <2>1 DEF Opened, Traced
  <2>3. unsent'[t] = Tail(unsent[t]) /\ inflight'[t] = Append(inflight[t], Head(unsent[t]))
        /\ \A s \in Socks : s # t => unsent'[s] = unsent[s] /\ inflight'[s] = inflight[s]
    BY <1>a, <2>1 DEF OutTypes
  <2>4. PICK st, b, td, un, fl, dn, lt :
          /\ st = Status(t) /\ b = samp[t].skb /\ td = todo[t] /\ un = unsent[t]
          /\ fl = inflight[t] /\ dn = hist[t].done /\ lt = hist[t].late
    OBVIOUS
  <2>5. Follow(st, b, td, un, fl, dn, lt) /\ un \in Seq(Out) /\ fl \in Seq(Out) /\ un # <<>>
    BY <1>f, <1>g, <2>1, <2>2, <2>4
  <2>6. CASE st # "WRITE_READY"
    <3>1. samp' = samp
      BY <1>10, <2>4, <2>6 DEF Sent
    <3>2. Status(t)' = st
      BY <2>4, <3>1 DEF Status
    <3>3. Follow(st, b, td, Tail(un), Append(fl, Head(un)), dn, lt)
      BY <2>5, <2>6, FollowSent
    <3>4. Traced(t)'
      BY <2>1, <2>2, <2>3, <2>4, <3>1, <3>2, <3>3, TracedNow
    <3> QED
      BY <1>e, <2>1, <2>3, <3>1, <3>4, OneTraced
  <2>7. CASE st = "WRITE_READY"
    <3>1. samp' = [samp EXCEPT ![t].status = "SKB_READY", ![t].skb = Head(unsent[t]).skb]
      BY <1>10, <2>4, <2>7 DEF Sent
    <3>2. samp[t] \in SampData
      BY <1>a, <2>4, <2>7, StatusOf
    <3>3. samp'[t].status = "SKB_READY" /\ samp'[t].skb = Head(unsent[t]).skb
          /\ \A s \in Socks : s # t => samp'[s] = samp[s]
      BY <1>a, <3>1, <3>2 DEF ProbeTypes, SampData
    <3>4. PICK v, c : v = Status(t)' /\ c = samp'[t].skb
      OBVIOUS
    <3>5. v \in {"none", "SKB_READY"} /\ c = Head(un).skb
      BY <2>4, <3>3, <3>4 DEF Status
    <3>6. Follow("SKB_READY", c, td, Tail(un), Append(fl, Head(un)), dn, lt)
      BY <2>5, <2>7, <3>5, FollowSent
    <3>7. Follow(v, c, td, Tail(un), Append(fl, Head(un)), dn, lt)
      BY <3>5, <3>6 DEF Follow, Owed
    <3>8. Traced(t)'
      BY <2>1, <2>2, <2>3, <2>4, <3>4, <3>7, TracedNow
    <3> QED
      BY <1>e, <2>1, <2>3, <3>3, <3>8, OneTraced
  <2> QED
    BY <2>6, <2>7
<1>11. ASSUME NEW t \in Socks, Delivered(t) PROVE \A s \in Socks : Traced(s)'
  <2>1. /\ UNCHANGED <<sockOf, todo, unsent>> /\ inflight[t] # <<>>
        /\ Finished(t, Head(inflight[t]).skb)
        /\ inflight' = [inflight EXCEPT ![t] = Tail(@)]
    BY <1>11 DEF Delivered
  <2>2. Opened(t) /\ Opened(t)'
    BY <1>e, <2>1 DEF Opened, Traced
  <2>3. inflight'[t] = Tail(inflight[t])
        /\ \A s \in Socks : s # t => hist'[s] = hist[s] /\ inflight'[s] = inflight[s]
    BY <1>a, <1>11, <2>1 DEF Delivered, OutTypes, HistTypes
  <2>4. PICK st, b, td, un, fl, dn, lt, d :
          /\ st = Status(t) /\ b = samp[t].skb /\ td = todo[t] /\ un = unsent[t]
          /\ fl = inflight[t] /\ dn = hist[t].done /\ lt = hist[t].late
          /\ d = (UnderWay(t) /\ Head(inflight[t]).own)
    OBVIOUS
  <2>5. Follow(st, b, td, un, fl, dn, lt) /\ un \in Seq(Out) /\ fl \in Seq(Out) /\ fl # <<>>
    BY <1>f, <1>g, <2>1, <2>2, <2>4
  <2>6. /\ st \in {"READ_READY", "WRITE_READY", "SKB_READY"} => d = Head(fl).own
        /\ st \notin {"READ_READY", "WRITE_READY", "SKB_READY"} => d = FALSE
    <3>1. Head(fl).own \in BOOLEAN
      BY <2>5, TailOut DEF Out
    <3> QED
      BY <2>4, <3>1 DEF UnderWay
  <2>7. ASSUME hist' = [hist EXCEPT ![t].done = @ \/ d]
        PROVE  hist'[t].late = hist[t].late /\ hist'[t].done = (hist[t].done \/ d)
    BY <1>a, <2>7 DEF HistTypes
  <2>8. CASE samp' = samp
    <3>1. Status(t)' = st /\ (UnderWay(t)' <=> UnderWay(t))
      BY <2>4, <2>8 DEF Status, UnderWay
    <3>2. PICK e : e = (dn \/ d)
      OBVIOUS
    <3>3. Follow(st, b, td, un, Tail(fl), e, lt)
      <4>1. CASE st \in {"READ_READY", "WRITE_READY", "SKB_READY"}
        <5>1. Follow(st, b, td, un, Tail(fl), dn \/ Head(fl).own, lt)
          BY <2>5, <4>1, FollowDelivered
        <5> QED
          BY <2>6, <3>2, <4>1, <5>1
      <4>2. CASE st \notin {"READ_READY", "WRITE_READY", "SKB_READY"}
        <5>1. Follow(st, b, td, un, Tail(fl), dn, lt)
          BY <2>5, <4>2, FollowDelivered
        <5> QED
          BY <2>6, <3>2, <4>2, <5>1 DEF Follow
      <4> QED
        BY <4>1, <4>2
    <3>4. hist' = [hist EXCEPT ![t].done = @ \/ d]
      BY <1>11, <2>4, <3>1 DEF Delivered
    <3>5. hist'[t].late = lt /\ hist'[t].done = e
      BY <2>4, <2>7, <3>2, <3>4
    <3>6. Traced(t)'
      BY <2>1, <2>2, <2>3, <2>4, <2>8, <3>1, <3>3, <3>5, TracedNow
    <3> QED
      BY <1>e, <2>1, <2>3, <2>8, <3>6, OneTraced
  <2>9. CASE samp' # samp
    <3>1. st = "SKB_READY" /\ b = Head(fl).skb /\ samp' = Ended(t)
      BY <2>1, <2>4, <2>9 DEF Finished
    <3>2. samp[t] \in SampData
      BY <1>a, <2>4, <3>1, StatusOf
    <3>3. /\ samp'[t].status = IF samp[t].start = FUTURE THEN "INIT" ELSE "FINISHED"
          /\ \A s \in Socks : s # t => samp'[s] = samp[s]
      BY <1>a, <3>1, <3>2 DEF Ended, ProbeTypes, SampData
    <3>4. CASE samp[t].start = FUTURE
      <4>1. Status(t)' \in {"none", "INIT"}
        BY <3>3, <3>4 DEF Status
      <4>2. PICK v, c, e, h : /\ v = Status(t)' /\ c = samp'[t].skb
                              /\ e = hist'[t].done /\ h = hist'[t].late
        OBVIOUS
      <4>3. Apart(un, Tail(fl))
        BY <2>5, <3>1, FollowDelivered DEF Follow
      <4>4. Follow(v, c, td, un, Tail(fl), e, h)
        BY <4>1, <4>2, <4>3, FollowIdle
      <4>5. Traced(t)'
        BY <2>1, <2>2, <2>3, <2>4, <4>2, <4>4, TracedNow
      <4> QED
        BY <1>e, <2>1, <2>3, <3>3, <4>5, OneTraced
    <3>5. CASE samp[t].start # FUTURE
      <4>1. PICK v, c, e : v = Status(t)' /\ c = samp'[t].skb /\ e = (dn \/ d)
        OBVIOUS
      <4>2. v \in {"none", "FINISHED"}
        BY <3>3, <3>5, <4>1 DEF Status
      <4>3. hist' = [hist EXCEPT ![t].done = @ \/ d]
        BY <1>11, <2>4, <3>5 DEF Delivered
      <4>4. hist'[t].late = lt /\ hist'[t].done = e
        BY <2>4, <2>7, <4>1, <4>3
      <4>5. Follow("FINISHED", c, td, un, Tail(fl), e, lt)
        <5>1. Follow("FINISHED", c, td, un, Tail(fl), dn \/ Head(fl).own, lt)
          BY <2>5, <3>1, FollowDelivered
        <5> QED
          BY <2>6, <3>1, <4>1, <5>1
      <4>6. Follow(v, c, td, un, Tail(fl), e, lt)
        BY <4>2, <4>5 DEF Follow, Owed
      <4>7. Traced(t)'
        BY <2>1, <2>2, <2>3, <2>4, <4>1, <4>4, <4>6, TracedNow
      <4> QED
        BY <1>e, <2>1, <2>3, <3>3, <4>7, OneTraced
    <3> QED
      BY <3>4, <3>5
  <2> QED
    BY <2>8, <2>9
<1>12. ASSUME NEW t \in Socks, Collapse(t) PROVE \A s \in Socks : Traced(s)'
  <2>1. UNCHANGED <<sockOf, samp, todo, unsent, hist>> /\ Len(inflight[t]) >= 2
        /\ inflight' = [inflight EXCEPT ![t] = Merged(inflight[t])]
    BY <1>12 DEF Collapse, Merged
  <2>2. inflight'[t] = Merged(inflight[t])
        /\ \A s \in Socks : s # t => inflight'[s] = inflight[s]
    BY <1>a, <2>1 DEF OutTypes
  <2>3. inflight[t] # <<>>
    BY <2>1
  <2>4. Opened(t) /\ Opened(t)'
    BY <1>e, <2>1, <2>3 DEF Opened, Traced
  <2>5. PICK st, b, td, un, fl, dn, lt :
          /\ st = Status(t) /\ b = samp[t].skb /\ td = todo[t] /\ un = unsent[t]
          /\ fl = inflight[t] /\ dn = hist[t].done /\ lt = hist[t].late
    OBVIOUS
  <2>6. Follow(st, b, td, un, fl, dn, lt) /\ un \in Seq(Out) /\ fl \in Seq(Out)
    BY <1>f, <1>g, <2>4, <2>5
  <2>7. Follow(st, b, td, un, Merged(fl), dn, lt)
    BY <2>1, <2>5, <2>6, FollowMerged
  <2>8. Status(t)' = st
    BY <2>1, <2>5 DEF Status
  <2>9. Traced(t)'
    BY <2>1, <2>2, <2>4, <2>5, <2>7, <2>8, TracedNow
  <2> QED
    BY <1>e, <2>1, <2>2, <2>9, OneTraced
<1>13. ASSUME Tick, NEW s \in Socks PROVE Traced(s)'
  <2>1. UNCHANGED <<sockOf, todo, unsent, inflight>>
    BY <1>13 DEF Tick
  <2>2. samp[s] = NULL => samp'[s] = NULL
    BY <1>13, Zenon DEF Tick
  <2>3. ASSUME samp[s] # NULL
        PROVE  samp'[s].status = samp[s].status /\ samp'[s].skb = samp[s].skb /\ samp'[s] # NULL
    <3>1. samp[s] \in SampData /\ samp'[s] = [samp[s] EXCEPT !.start = Older(samp[s].start)]
      BY <1>a, <1>13, <2>3 DEF Tick, ProbeTypes
    <3>2. samp[s].start \in Starts /\ Older(samp[s].start) \in Starts
      BY <3>1, OlderIsStart DEF SampData
    <3>3. samp'[s] \in SampData
      BY <3>1, <3>2 DEF SampData
    <3> QED
      BY <3>1, <3>3 DEF SampData
  <2>4. Status(s)' = Status(s) /\ (Status(s) = "SKB_READY" => samp'[s].skb = samp[s].skb)
    BY <2>2, <2>3 DEF Status
  <2>5. hist'[s].done = hist[s].done /\ hist'[s].late = hist[s].late
    <3>1. \/ hist'[s] = hist[s]
          \/ hist'[s] = [hist[s] EXCEPT !.arr = Older(@), !.rd = Older(@)]
      BY <1>13, Zenon DEF Tick
    <3> QED
      BY <1>a, <3>1 DEF HistTypes
  <2>6. Opened(s)' <=> Opened(s)
    BY <2>1 DEF Opened
  <2> QED
    BY <1>e, <2>1, <2>4, <2>5, <2>6, TracedFrame
<1>14. ASSUME UNCHANGED <<sockOf, samp, todo, unsent, inflight, hist>>, NEW s \in Socks
       PROVE  Traced(s)'
  <2>1. (Opened(s)' <=> Opened(s)) /\ Status(s)' = Status(s)
    BY <1>14 DEF Opened, Status
  <2> QED
    BY <1>e, <1>14, <2>1, TracedFrame
<1> QED
  BY <1>1, <1>2, <1>3, <1>4, <1>5, <1>6, <1>7, <1>8, <1>9, <1>10, <1>11, <1>12, <1>13, <1>14
     DEF Next, Server, Read, Network, Arrive, vars

(***************************************************************************)
(* For a server with one thread, and any number of connections and skbs: a *)
(* sample that is finished is not too short.  The skb that ends it is the  *)
(* one of the reply or a later one, also when skbs are merged and their    *)
(* addresses used again, unless something written had to wait or the reply *)
(* was in more than one skb.                                               *)
(***************************************************************************)
THEOREM SampleIsNotTooShort ==
  ASSUME ~MultiThreaded
  PROVE  Spec => []NotTooShort
<1>1. Init => Maps /\ Traces
  <2> SUFFICES ASSUME Init PROVE Traces
    BY DEF Init, Maps
  <2>1. \A s \in Socks : /\ unsent[s] = <<>> /\ inflight[s] = <<>>
                         /\ samp[s] = NULL
    BY DEF Init
  <2>2. \A s \in Socks : ~Opened(s)
    BY KsliAssumption DEF Init, Opened
  <2>3. \A s \in Socks : Status(s) = "none"
    BY <2>1 DEF Status
  <2>4. Writing
    BY DEF Init, Writing
  <2> QED
    BY <2>1, <2>2, <2>3, <2>4 DEF Traces, Traced
<1>2. IInv /\ Maps /\ [Next]_vars => Maps'
  BY NextMaps
<1>3. IInv /\ Maps /\ Traces /\ [Next]_vars => Traces'
  <2> SUFFICES ASSUME IInv, Maps, Traces, [Next]_vars PROVE Traces'
    OBVIOUS
  <2>1. \A s \in Socks : Traced(s)'
    BY NextTraced
  <2>2. Writing'
    BY NextWriting DEF Traces
  <2> QED
    BY <2>1, <2>2 DEF Traces
<1>4. Traces => NotTooShort
  <2> SUFFICES ASSUME NEW s \in Socks, Traced(s), Status(s) = "FINISHED"
               PROVE  hist[s].done \/ hist[s].late
    BY DEF Traces, NotTooShort
  <2> QED
    BY DEF Traced, Follow, Owed
<1> QED
  BY <1>1, <1>2, <1>3, <1>4, InductiveInvariant, PTL DEF Spec
=============================================================================
