-------------------------------- MODULE Ksli --------------------------------
(***************************************************************************)
(* ksliprobe.bpf.c: the latency of the requests of a Redis server, sampled *)
(* in the kernel.  Per connection the probe follows one request at a time  *)
(* through hooks on the socket: tcp_recvmsg and the return of read(), the  *)
(* return of write(), the first transmission of an skb and its delivery.   *)
(*                                                                         *)
(* The hooks on read() and write() run in the thread of the server, the    *)
(* ones on transmission and delivery also in softirqs, between any two     *)
(* steps of that thread.  A timestamp is modelled by its age, how long ago *)
(* it was taken, up to the period after which ages no longer matter; NULL  *)
(* stands for the timestamp 0.  What the request says is left out.         *)
(*                                                                         *)
(* Where no tc program stamps what arrives, the kernel may have done so    *)
(* with its real-time clock: that stamp lies in the future of              *)
(* bpf_ktime_get_ns and stays there.                                       *)
(***************************************************************************)
EXTENDS Integers, Sequences, FiniteSets

CONSTANTS
  Fds,            \* file descriptors
  Socks,          \* addresses of socks: used again after a close
  Skbs,           \* addresses of sk_buffs: used again after delivery
  Period,         \* __PERIOD
  MaxSamples,     \* bound: sample_num counts up to here and stays there
  MultiThreaded,  \* whether several threads of the server make system calls
  Blocking,       \* whether read() is called without data to read
  NULL

\* Ages and latencies, and the values of the two maps.
Ages == 0..Period
FUTURE == -1
Starts == Ages \union {FUTURE, NULL}
Rtts == Ages
ConnData == [sk : Socks, n : 0..MaxSamples, last : Ages, max : Rtts, min : Rtts, recent : Rtts]
SampData == [status : {"INIT", "READ_READY", "WRITE_READY", "SKB_READY", "FINISHED"},
             skb : Skbs \union {NULL}, start : Starts, rtt : Rtts]

ASSUME KsliAssumption ==
  /\ Period \in Nat \ {0} /\ MaxSamples \in Nat \ {0}
  /\ MultiThreaded \in BOOLEAN /\ Blocking \in BOOLEAN
  /\ NULL \notin Fds \union Socks \union Skbs \union Int
  /\ NULL \notin ConnData \union SampData

VARIABLES
  sockOf,    \* the kernel: per descriptor, the sock of its connection
  call,      \* per descriptor: how far the system call on it is
  closing,   \* descriptors that are released, with close() not yet returned
  conn,      \* conn_map
  samp,      \* conn_samp_map
  queue,     \* per sock: age of the first request in sk_receive_queue
  got,       \* per sock: age of the request that read() has returned
  todo,      \* per sock: replies the server has to write
  unsent,    \* per sock: written, not transmitted
  inflight,  \* per sock: transmitted, not delivered
  hist,      \* history, per sock, of the request that is sampled: the ages of its
             \* arrival and of its read; whether something written was waiting
             \* for transmission or the reply went into more than one skb (late);
             \* whether the skb with the whole reply was delivered (done)
  seen       \* history, per descriptor: the samples of this period

streamVars  == <<queue, got, todo, unsent, inflight>>
vars == <<sockOf, call, closing, conn, samp, streamVars, hist, seen>>

NoSample == [arr |-> 0, rd |-> 0, late |-> FALSE, done |-> FALSE]

Init ==
  /\ sockOf = [f \in Fds |-> NULL]
  /\ call = [f \in Fds |-> "none"]
  /\ closing = {}
  /\ conn = [f \in Fds |-> NULL]
  /\ samp = [s \in Socks |-> NULL]
  /\ queue = [s \in Socks |-> NULL]
  /\ got = [s \in Socks |-> NULL]
  /\ todo = [s \in Socks |-> {}]
  /\ unsent = [s \in Socks |-> <<>>]
  /\ inflight = [s \in Socks |-> <<>>]
  /\ hist = [s \in Socks |-> NoSample]
  /\ seen = [f \in Fds |-> {}]

-----------------------------------------------------------------------------
(***************************************************************************)
(* Connections: accept4() and close().                                     *)
(***************************************************************************)
MayCall == MultiThreaded \/ (closing = {} /\ \A f \in Fds : call[f] = "none")

Opened(s) == \E f \in Fds : sockOf[f] = s

Fresh == [status |-> "INIT", skb |-> NULL, start |-> NULL, rtt |-> 0]

\* The return of accept4(): last_report_ts is 0, long ago.
Accept(f, s) ==
  /\ MayCall
  /\ sockOf[f] = NULL /\ ~Opened(s)
  /\ sockOf' = [sockOf EXCEPT ![f] = s]
  /\ conn' = [conn EXCEPT ![f] = [sk |-> s, n |-> 0, last |-> Period,
                                  max |-> 0, min |-> 0, recent |-> 0]]
  /\ samp' = [samp EXCEPT ![s] = Fresh]
  /\ seen' = [seen EXCEPT ![f] = {}]
  /\ UNCHANGED <<call, closing, streamVars, hist>>

\* A connection of another family, or conn_map is full: it is not recorded.
AcceptOther(f, s) ==
  /\ MayCall
  /\ sockOf[f] = NULL /\ ~Opened(s)
  /\ sockOf' = [sockOf EXCEPT ![f] = s]
  /\ UNCHANGED <<call, closing, conn, samp, streamVars, hist, seen>>

\* __close_fd releases the descriptor.  The probe at its entry remembers the
\* call when the descriptor is in conn_map.
CloseRelease(f) ==
  LET s == sockOf[f] IN
  /\ MayCall
  /\ s # NULL /\ call[f] = "none"
  /\ sockOf' = [sockOf EXCEPT ![f] = NULL]
  /\ closing' = IF conn[f] = NULL THEN closing ELSE closing \union {f}
  /\ queue' = [queue EXCEPT ![s] = NULL] /\ got' = [got EXCEPT ![s] = NULL]
  /\ todo' = [todo EXCEPT ![s] = {}]
  /\ unsent' = [unsent EXCEPT ![s] = <<>>] /\ inflight' = [inflight EXCEPT ![s] = <<>>]
  /\ UNCHANGED <<call, conn, samp, hist, seen>>

\* Mutant of CloseRet: the sample stays in conn_samp_map.
CloseRet_KeepSample(f) ==
  /\ f \in closing
  /\ closing' = closing \ {f}
  /\ conn' = [conn EXCEPT ![f] = NULL]
  /\ UNCHANGED <<sockOf, call, samp, streamVars, hist, seen>>

\* The return of __close_fd, after the descriptor and the sock were released.
CloseRet(f) ==
  /\ f \in closing
  /\ closing' = closing \ {f}
  /\ IF conn[f] = NULL THEN UNCHANGED <<conn, samp, hist, seen>>
     ELSE /\ samp' = [samp EXCEPT ![conn[f].sk] = NULL]
          /\ conn' = [conn EXCEPT ![f] = NULL]
          /\ hist' = [hist EXCEPT ![conn[f].sk] = NoSample]
          /\ seen' = [seen EXCEPT ![f] = {}]
  /\ UNCHANGED <<sockOf, call, streamVars>>

-----------------------------------------------------------------------------
(***************************************************************************)
(* Reading a request.                                                      *)
(***************************************************************************)
Status(s) == IF samp[s] = NULL THEN "none" ELSE samp[s].status

UnderWay(s) == Status(s) \in {"READ_READY", "WRITE_READY", "SKB_READY"}

\* Data arrives; only the stamp of the first skb in the queue matters.
Arrive(s) ==
  /\ Opened(s) /\ queue[s] = NULL
  /\ queue' = [queue EXCEPT ![s] = 0]
  /\ UNCHANGED <<sockOf, call, closing, conn, samp, got, todo, unsent, inflight,
                 hist, seen>>

\* The tstamp of the first skb: that of tc, 0, or one of the real-time clock.
Stamps(s) == {queue[s], NULL, FUTURE}

\* Mutant of Recvmsg: a sample that is under way is stamped again.
Recvmsg_AnyStatus(s) ==
  IF Status(s) # "none" /\ queue[s] # NULL
  THEN \E stamp \in Stamps(s) : samp' = [samp EXCEPT ![s].start = stamp]
  ELSE UNCHANGED samp

\* tcp_recvmsg.
Recvmsg(s) ==
  IF Status(s) \in {"INIT", "FINISHED"} /\ queue[s] # NULL
  THEN \E stamp \in Stamps(s) : samp' = [samp EXCEPT ![s].start = stamp]
  ELSE UNCHANGED samp

ReadEnter(f) ==
  LET s == sockOf[f] IN
  /\ MayCall
  /\ s # NULL /\ call[f] = "none"
  /\ Blocking \/ queue[s] # NULL
  /\ Recvmsg(s)
  /\ call' = [call EXCEPT ![f] = "read"]
  /\ UNCHANGED <<sockOf, closing, conn, streamVars, hist, seen>>

\* periodic_report: the numbers of this period are sent and start again.
Reported(c) ==
  IF c.last >= Period THEN [c EXCEPT !.last = 0, !.n = 0] ELSE c

\* Mutant of Counted: max and min survive from an earlier period.
Counted_KeepOld(c, rtt) ==
  [c EXCEPT !.recent = rtt,
            !.max = IF rtt > c.max THEN rtt ELSE c.max,
            !.min = IF rtt > c.max \/ rtt >= c.min THEN c.min ELSE rtt,
            !.n = IF c.n = MaxSamples THEN c.n ELSE c.n + 1]

\* A finished sample becomes the most recent one, and the largest or smallest.
Counted(c, rtt) ==
  [c EXCEPT !.recent = rtt,
            !.max = IF c.n = 0 \/ rtt > c.max THEN rtt ELSE c.max,
            !.min = IF c.n = 0 \/ (rtt <= c.max /\ rtt < c.min) THEN rtt ELSE c.min,
            !.n = IF c.n = MaxSamples THEN c.n ELSE c.n + 1]

Known(f) == conn[f] # NULL /\ samp[conn[f].sk] # NULL

\* The return of read() with data, up to the second look at the status.
ReadReturn(f) ==
  LET s == sockOf[f] IN
  /\ call[f] = "read" /\ queue[s] # NULL
  /\ got' = [got EXCEPT ![s] = queue[s]] /\ queue' = [queue EXCEPT ![s] = NULL]
  /\ call' = [call EXCEPT ![f] = "check"]
  /\ IF ~Known(f) THEN UNCHANGED <<conn, samp, hist, seen>>
     ELSE LET c == Reported(conn[f])
              m == samp[c.sk]
              old == IF c.n = 0 THEN {} ELSE seen[f]
          IN IF m.status # "FINISHED"
             THEN /\ conn' = [conn EXCEPT ![f] = c]
                  /\ seen' = [seen EXCEPT ![f] = old]
                  /\ UNCHANGED <<samp, hist>>
             ELSE /\ conn' = [conn EXCEPT ![f] = Counted(c, m.rtt)]
                  /\ seen' = [seen EXCEPT ![f] = old \union {m.rtt}]
                  /\ samp' = [samp EXCEPT ![c.sk].status = "INIT"]
                  /\ hist' = [hist EXCEPT ![c.sk] = NoSample]
  /\ UNCHANGED <<sockOf, closing, todo, unsent, inflight>>

NotSampled(f) ==
  LET s == sockOf[f] IN
  /\ call[f] = "check"
  /\ call' = [call EXCEPT ![f] = "none"]
  /\ got' = [got EXCEPT ![s] = NULL]
  /\ todo' = [todo EXCEPT ![s] = @ \union {"other"}]
  /\ UNCHANGED <<sockOf, closing, conn, queue, unsent, inflight, seen>>

\* Mutant of ReadBusy: no time limit on a sample.
ReadBusy_NoReset(f) ==
  /\ Known(f)
  /\ LET s == conn[f].sk IN
       /\ Status(s) # "INIT"
       /\ UNCHANGED <<samp, hist>>
  /\ NotSampled(f)

\* A sample is under way.  One that is older than the period is given up; one
\* that starts in the future never is.
ReadBusy(f) ==
  /\ Known(f)
  /\ LET s == conn[f].sk IN
       /\ Status(s) # "INIT"
       /\ IF samp[s].start = NULL \/ samp[s].start >= Period
          THEN /\ samp' = [samp EXCEPT ![s].status = "INIT", ![s].start = NULL]
               /\ hist' = [hist EXCEPT ![s] = NoSample]
          ELSE UNCHANGED <<samp, hist>>
  /\ NotSampled(f)

\* The connection is not known, or the data is not a request of Redis.
ReadUnknown(f) ==
  /\ Known(f) => Status(conn[f].sk) = "INIT"
  /\ NotSampled(f)
  /\ UNCHANGED <<samp, hist>>

Others(out) == [i \in DOMAIN out |-> [out[i] EXCEPT !.own = FALSE]]

\* A request of Redis: its sample begins.
ReadReady(f) ==
  LET s == sockOf[f] IN
  /\ call[f] = "check"
  /\ Known(f)
  /\ LET m == conn[f].sk IN
       /\ Status(m) = "INIT"
       /\ samp' = [samp EXCEPT ![m].status = "READ_READY",
                               ![m].start = IF @ = NULL THEN 0 ELSE @]
  /\ call' = [call EXCEPT ![f] = "none"]
  /\ got' = [got EXCEPT ![s] = NULL]
  /\ todo' = [todo EXCEPT ![s] = (IF @ = {} THEN {} ELSE {"other"}) \union {"own"}]
  /\ unsent' = [unsent EXCEPT ![s] = Others(@)]
  /\ inflight' = [inflight EXCEPT ![s] = Others(@)]
  /\ hist' = [hist EXCEPT ![s] = [arr |-> got[s], rd |-> 0,
                                  late |-> unsent[s] # <<>>, done |-> FALSE]]
  /\ UNCHANGED <<sockOf, closing, conn, queue, seen>>

-----------------------------------------------------------------------------
(***************************************************************************)
(* The reply.                                                              *)
(***************************************************************************)
SkbsOf(out) == {out[i].skb : i \in DOMAIN out}

FreeSkbs == Skbs \ UNION {SkbsOf(unsent[x]) \union SkbsOf(inflight[x]) : x \in Socks}

\* An skb with everything that is to be written, or with the first part of it: then
\* no skb holds the whole reply any more.
Written(s) ==
  LET own == "own" \in todo[s] IN
  \E b \in FreeSkbs, all \in BOOLEAN :
    /\ all \/ todo[s] # {}
    /\ unsent' = [unsent EXCEPT ![s] = Append(@, [skb |-> b, own |-> own /\ all])]
    /\ todo' = [todo EXCEPT ![s] = IF all THEN {} ELSE {"other"}]
    /\ hist' = [hist EXCEPT ![s].late = @ \/ (UnderWay(s) /\ own /\ ~all)]

\* A reply may take several calls of write() ...
WriteEnter(f) ==
  /\ MayCall
  /\ sockOf[f] # NULL /\ call[f] = "none"
  /\ Written(sockOf[f])
  /\ call' = [call EXCEPT ![f] = "write"]
  /\ UNCHANGED <<sockOf, closing, conn, samp, queue, got, inflight, seen>>

\* ... and a call several skbs.
WriteMore(f) ==
  /\ call[f] = "write" /\ todo[sockOf[f]] # {}
  /\ Written(sockOf[f])
  /\ UNCHANGED <<sockOf, call, closing, conn, samp, queue, got, inflight, seen>>

\* tcp_event_new_data_sent: the first transmission, inside of write() or later.
Sent(s) ==
  /\ unsent[s] # <<>>
  /\ inflight' = [inflight EXCEPT ![s] = Append(@, Head(unsent[s]))]
  /\ unsent' = [unsent EXCEPT ![s] = Tail(@)]
  /\ samp' = IF Status(s) = "WRITE_READY"
             THEN [samp EXCEPT ![s].status = "SKB_READY", ![s].skb = Head(unsent[s]).skb]
             ELSE samp
  /\ UNCHANGED <<sockOf, call, closing, conn, queue, got, todo, hist, seen>>

\* The return of write().
WriteReturn(f) ==
  LET s == sockOf[f] IN
  /\ call[f] = "write"
  /\ call' = [call EXCEPT ![f] = "none"]
  /\ samp' = IF Known(f) /\ Status(conn[f].sk) = "READ_READY"
             THEN [samp EXCEPT ![conn[f].sk].status = "WRITE_READY"]
             ELSE samp
  /\ hist' = [hist EXCEPT ![s].late = @ \/ (UnderWay(s) /\ unsent[s] # <<>>)]
  /\ UNCHANGED <<sockOf, closing, conn, streamVars, seen>>

\* A sample ends, without a latency when its start is later than now.  (csd->skb
\* is stale from here on, and set again before it is looked at.)
Ended(s) ==
  IF samp[s].start = FUTURE
  THEN [samp EXCEPT ![s].status = "INIT", ![s].skb = NULL]
  ELSE [samp EXCEPT ![s].status = "FINISHED", ![s].start = NULL,
                    ![s].rtt = samp[s].start, ![s].skb = NULL]

\* Mutant of Finished: every delivery ends a sample, whatever the status.
Finished_AnyStatus(s, b) ==
  IF Status(s) # "none" THEN samp' = Ended(s) ELSE UNCHANGED samp

\* Mutant of Finished: any skb ends the sample.
Finished_AnySkb(s, b) ==
  IF Status(s) \in {"WRITE_READY", "SKB_READY"} THEN samp' = Ended(s) ELSE UNCHANGED samp

Finished(s, b) ==
  IF Status(s) = "SKB_READY" /\ samp[s].skb = b THEN samp' = Ended(s) ELSE UNCHANGED samp

\* tcp_rate_skb_delivered: skbs are acknowledged in order.
Delivered(s) ==
  /\ inflight[s] # <<>>
  /\ Finished(s, Head(inflight[s]).skb)
  /\ hist' = IF UnderWay(s) /\ ~UnderWay(s)' /\ samp[s].start = FUTURE
             THEN [hist EXCEPT ![s] = NoSample]
             ELSE [hist EXCEPT ![s].done = @ \/ (UnderWay(s) /\ Head(inflight[s]).own)]
  /\ inflight' = [inflight EXCEPT ![s] = Tail(@)]
  /\ UNCHANGED <<sockOf, call, closing, conn, queue, got, todo, unsent, seen>>

\* A retransmission merges two skbs; the second one is never delivered.
Collapse(s) ==
  /\ Len(inflight[s]) >= 2
  /\ LET a == inflight[s][1] b == inflight[s][2] IN
       inflight' = [inflight EXCEPT ![s] =
                      <<[a EXCEPT !.own = @ \/ b.own]>> \o Tail(Tail(@))]
  /\ UNCHANGED <<sockOf, call, closing, conn, samp, queue, got, todo, unsent, hist, seen>>

-----------------------------------------------------------------------------
Older(age) == IF age \in {NULL, FUTURE, Period} THEN age ELSE age + 1

Tick ==
  /\ conn' = [f \in Fds |-> IF conn[f] = NULL THEN NULL
                            ELSE [conn[f] EXCEPT !.last = Older(@)]]
  /\ samp' = [s \in Socks |-> IF samp[s] = NULL THEN NULL
                              ELSE [samp[s] EXCEPT !.start = Older(@)]]
  /\ queue' = [s \in Socks |-> Older(queue[s])] /\ got' = [s \in Socks |-> Older(got[s])]
  /\ hist' = [s \in Socks |-> IF UnderWay(s)
                              THEN [hist[s] EXCEPT !.arr = Older(@), !.rd = Older(@)]
                              ELSE hist[s]]
  /\ UNCHANGED <<sockOf, call, closing, todo, unsent, inflight, seen>>

Read(f) ==
  \/ ReadReturn(f)
  \/ ReadBusy(f)
  \/ ReadUnknown(f)
  \/ ReadReady(f)

Server(f) ==
  \/ \E s \in Socks : Accept(f, s) \/ AcceptOther(f, s)
  \/ CloseRelease(f)
  \/ CloseRet(f)
  \/ ReadEnter(f)
  \/ Read(f)
  \/ WriteEnter(f)
  \/ WriteMore(f)
  \/ WriteReturn(f)

Network(s) ==
  \/ Arrive(s)
  \/ Sent(s)
  \/ Delivered(s)
  \/ Collapse(s)

Next ==
  \/ \E f \in Fds : Server(f)
  \/ \E s \in Socks : Network(s)
  \/ Tick

Spec == Init /\ [][Next]_vars

\* Time passes, system calls return, requests keep coming and are read.
\* Nothing makes the server answer them, nor the network deliver.
Fairness ==
  /\ WF_vars(Tick)
  /\ \A s \in Socks : WF_vars(Arrive(s))
  /\ \A f \in Fds :
       /\ WF_vars(Read(f)) /\ WF_vars(WriteReturn(f)) /\ WF_vars(CloseRet(f))
       /\ SF_vars(ReadEnter(f))

FairSpec == Spec /\ Fairness
-----------------------------------------------------------------------------
(***************************************************************************)
(* Properties.                                                             *)
(***************************************************************************)
Out == [skb : Skbs, own : BOOLEAN]

\* Types; a sample that ends always has a start to count from.
TypeOK ==
  /\ sockOf \in [Fds -> Socks \union {NULL}]
  /\ call \in [Fds -> {"none", "read", "check", "write"}]
  /\ closing \subseteq Fds
  /\ conn \in [Fds -> ConnData \union {NULL}]
  /\ samp \in [Socks -> SampData \union {NULL}]
  /\ queue \in [Socks -> Ages \union {NULL}] /\ got \in [Socks -> Ages \union {NULL}]
  /\ todo \in [Socks -> SUBSET {"own", "other"}]
  /\ unsent \in [Socks -> Seq(Out)] /\ inflight \in [Socks -> Seq(Out)]
  /\ hist \in [Socks -> [arr : Ages, rd : Ages, late : BOOLEAN, done : BOOLEAN]]
  /\ seen \in [Fds -> SUBSET Rtts]

(***************************************************************************)
(* The two maps agree with the connections that are open: an entry of      *)
(* conn_map is for the sock of its descriptor, with one sample in          *)
(* conn_samp_map, and nothing is left of a connection after close() has    *)
(* returned.  (Only for a server that makes its system calls in one        *)
(* thread: with two, another one can be given the descriptor of a          *)
(* connection before the close() of the old one returns, and that return   *)
(* removes the new entries.)                                               *)
(***************************************************************************)
Tracked ==
  /\ \A f \in Fds : conn[f] # NULL =>
       \/ f \in closing
       \/ sockOf[f] = conn[f].sk /\ samp[conn[f].sk] # NULL
  /\ \A s \in Socks : samp[s] # NULL => \E f \in Fds : conn[f] # NULL /\ conn[f].sk = s

(***************************************************************************)
(* A sample starts between the arrival of its request and the return of    *)
(* the read() that got it, although tcp_recvmsg stamps the request before  *)
(* the status says that a sample is wanted, and a delivery in between may  *)
(* finish the previous one and erase the stamp.  Excepted are stamps of    *)
(* the real-time clock, which lie in the future.                           *)
(***************************************************************************)
StartIsArrival ==
  \A s \in Socks : UnderWay(s) =>
    /\ samp[s].start # NULL
    /\ samp[s].start # FUTURE =>
         hist[s].rd <= samp[s].start /\ samp[s].start <= hist[s].arr

(***************************************************************************)
(* A sample that is finished is not too short: the reply to its request    *)
(* was delivered, unless data written was waiting for its transmission or  *)
(* the reply was in more than one skb.  Both exceptions are in the code:   *)
(* the probe takes the first skb that is transmitted after a write() has   *)
(* returned, and that may be one before the end of the reply.              *)
(* (A sample can be too long: the skb of the reply is usually transmitted  *)
(* before write() returns, and the probe then takes the one of a later     *)
(* reply.)                                                                 *)
(***************************************************************************)
NotTooShort ==
  \A s \in Socks : Status(s) = "FINISHED" => hist[s].done \/ hist[s].late

(***************************************************************************)
(* What the next report will say is about the samples of this period: the  *)
(* largest and the smallest of them, and their number is not 0 when there  *)
(* are some.                                                               *)
(***************************************************************************)
PeriodStats ==
  \A f \in Fds : conn[f] # NULL =>
    LET c == conn[f] IN
    /\ c.n = 0 <=> seen[f] = {}
    /\ c.n > 0 => /\ {c.max, c.min, c.recent} \subseteq seen[f]
                  /\ \A x \in seen[f] : c.min <= x /\ x <= c.max

(***************************************************************************)
(* "so that the status does not stay where nothing leads out of it", says  *)
(* the comment on the time limit of a sample: as long as requests are      *)
(* read, a sample ends, also when the server never answers.  Excepted is a *)
(* start in the future: the limit needs a start that is earlier than now,  *)
(* and such a sample without an answer does stay.                          *)
(***************************************************************************)
NeverStuck ==
  \A s \in Socks : UnderWay(s) /\ samp[s].start # FUTURE ~> ~UnderWay(s)
=============================================================================
