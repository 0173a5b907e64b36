------------------------------ MODULE Pipeline ------------------------------
(***************************************************************************)
(* The path of a metric line through the daemon: threads of native probes, *)
(* their fifos and eventfds, the ingress thread, the egress fifo, the      *)
(* egress thread and the local queue of librdkafka.  Extend probes have    *)
(* other ways with their buffer: see module ExtendProbe.                   *)
(*                                                                         *)
(* A line lives in a malloc'ed buffer whose pointer travels through the    *)
(* queues; nobody counts references, so every step has to hand over or     *)
(* free exactly what it holds.  A put into a fifo is followed by a write   *)
(* to its eventfd, and the reader resets the eventfd before it drains the  *)
(* fifo; the two are not atomic.                                           *)
(*                                                                         *)
(* Fifos are the bounded queues that module Fifo is proved to implement.   *)
(* What a line says only matters when the ingress thread looks at it, so   *)
(* its outcome is chosen there.                                            *)
(***************************************************************************)
EXTENDS Integers, Sequences, FiniteSets

CONSTANTS
  Probes,          \* native probes that are switched on
  FifoSize,        \* MAX_FIFO_SIZE, of the fifos of the probes
  EgressSize,      \* MAX_FIFO_SIZE, of the fifo of the egress thread
  DataBufs,        \* addresses malloc can return to a probe
  JsonBufs,        \* addresses malloc can return to the ingress thread
  KafkaOn,         \* egressMgr->kafkaMgr # NULL
  KafkaQueue,      \* queue.buffering.max.messages
  RetryMax,        \* __RETRY_MAX
  TriggerMayFail,  \* whether write() to an eventfd may fail
  NULL

ASSUME PipelineAssumption ==
  /\ FifoSize \in Nat \ {0} /\ EgressSize \in Nat \ {0}
  /\ KafkaQueue \in Nat \ {0} /\ RetryMax \in Nat \ {0}
  /\ KafkaOn \in BOOLEAN /\ TriggerMayFail \in BOOLEAN
  /\ DataBufs \intersect JsonBufs = {}
  /\ NULL \notin DataBufs \union JsonBufs \union Probes

VARIABLES
  live,       \* buffers that are allocated
  pPc, pBuf,  \* per probe: what it does next, the line it holds
  fifo,       \* per probe: the lines waiting for the ingress thread
  trigger,    \* per probe: the eventfd counter is not zero
  missed,     \* per probe: write() failed and the fifo was not drained since
  iPc,        \* what the ingress thread does next
  iReady,     \* fifos of the last epoll_wait that are not drained yet
  iCur,       \* the fifo it drains
  iBuf,       \* dataStr
  iJson,      \* jsonStr
  eFifo, eTrigger, eMissed,  \* the same for the fifo of the egress thread
  ePc, eBuf,  \* the egress thread: what it does next, the message it holds
  retry,      \* retry_index of KafkaMsgProduce
  kafka       \* messages owned by librdkafka

probeVars   == <<pPc, pBuf>>
queueVars   == <<fifo, trigger, missed>>
ingressVars == <<iPc, iReady, iCur, iBuf, iJson>>
eQueueVars  == <<eFifo, eTrigger, eMissed>>
egressVars  == <<ePc, eBuf, retry, kafka>>
vars == <<live, probeVars, queueVars, ingressVars, eQueueVars, egressVars>>

Init ==
  /\ live = {}
  /\ pPc = [p \in Probes |-> "run"]
  /\ pBuf = [p \in Probes |-> NULL]
  /\ fifo = [p \in Probes |-> <<>>]
  /\ trigger = [p \in Probes |-> FALSE]
  /\ missed = [p \in Probes |-> FALSE]
  /\ iPc = "wait" /\ iReady = {} /\ iCur = NULL /\ iBuf = NULL /\ iJson = NULL
  /\ eFifo = <<>> /\ eTrigger = FALSE /\ eMissed = FALSE
  /\ ePc = "wait" /\ eBuf = NULL /\ retry = 0 /\ kafka = {}

-----------------------------------------------------------------------------
(***************************************************************************)
(* Probe threads: __wrap_fprintf in a native probe.                        *)
(***************************************************************************)
ProbeFormat(p) ==
  /\ pPc[p] = "run"
  /\ \E b \in DataBufs \ live :
       /\ live' = live \union {b}
       /\ pBuf' = [pBuf EXCEPT ![p] = b]
  /\ pPc' = [pPc EXCEPT ![p] = "put"]
  /\ UNCHANGED <<queueVars, ingressVars, eQueueVars, egressVars>>

\* Mutant of ProbePut: the eventfd is not written.
ProbePut_NoTrigger(p) ==
  /\ pPc[p] = "put"
  /\ Len(fifo[p]) < FifoSize
  /\ fifo' = [fifo EXCEPT ![p] = Append(@, pBuf[p])]
  /\ pBuf' = [pBuf EXCEPT ![p] = NULL]
  /\ pPc' = [pPc EXCEPT ![p] = "run"]
  /\ UNCHANGED <<live, trigger, missed, ingressVars, eQueueVars, egressVars>>

ProbePut(p) ==
  /\ pPc[p] = "put"
  /\ Len(fifo[p]) < FifoSize
  /\ fifo' = [fifo EXCEPT ![p] = Append(@, pBuf[p])]
  /\ pBuf' = [pBuf EXCEPT ![p] = NULL]
  /\ pPc' = [pPc EXCEPT ![p] = "trigger"]
  /\ UNCHANGED <<live, trigger, missed, ingressVars, eQueueVars, egressVars>>

\* Mutant of ProbePutFull: the dropped line is not freed.
ProbePutFull_Leak(p) ==
  /\ pPc[p] = "put"
  /\ Len(fifo[p]) = FifoSize
  /\ pBuf' = [pBuf EXCEPT ![p] = NULL]
  /\ pPc' = [pPc EXCEPT ![p] = "run"]
  /\ UNCHANGED <<live, queueVars, ingressVars, eQueueVars, egressVars>>

\* "fifo full": the line is dropped.
ProbePutFull(p) ==
  /\ pPc[p] = "put"
  /\ Len(fifo[p]) = FifoSize
  /\ live' = live \ {pBuf[p]}
  /\ pBuf' = [pBuf EXCEPT ![p] = NULL]
  /\ pPc' = [pPc EXCEPT ![p] = "run"]
  /\ UNCHANGED <<queueVars, ingressVars, eQueueVars, egressVars>>

ProbeTrigger(p) ==
  /\ pPc[p] = "trigger"
  /\ trigger' = [trigger EXCEPT ![p] = TRUE]
  /\ pPc' = [pPc EXCEPT ![p] = "run"]
  /\ UNCHANGED <<live, pBuf, fifo, missed, ingressVars, eQueueVars, egressVars>>

\* write() fails: the line stays in the fifo and nobody is told.
ProbeTriggerFails(p) ==
  /\ TriggerMayFail
  /\ pPc[p] = "trigger"
  /\ missed' = [missed EXCEPT ![p] = TRUE]
  /\ pPc' = [pPc EXCEPT ![p] = "run"]
  /\ UNCHANGED <<live, pBuf, fifo, trigger, ingressVars, eQueueVars, egressVars>>

-----------------------------------------------------------------------------
(***************************************************************************)
(* The ingress thread.                                                     *)
(***************************************************************************)

\* epoll_wait returns every fifo whose eventfd is readable.
IngressWait ==
  /\ iPc = "wait"
  /\ \E p \in Probes : trigger[p]
  /\ iReady' = {p \in Probes : trigger[p]}
  /\ iPc' = "dispatch"
  /\ UNCHANGED <<live, probeVars, queueVars, iCur, iBuf, iJson, eQueueVars, egressVars>>

\* read() of the eventfd resets it, before the fifo is looked at.
IngressRead(p) ==
  /\ iPc = "dispatch"
  /\ p \in iReady
  /\ trigger' = [trigger EXCEPT ![p] = FALSE]
  /\ iCur' = p
  /\ iPc' = "get"
  /\ UNCHANGED <<live, probeVars, fifo, missed, iReady, iBuf, iJson, eQueueVars, egressVars>>

IngressGet ==
  /\ iPc = "get"
  /\ fifo[iCur] # <<>>
  /\ iBuf' = Head(fifo[iCur])
  /\ fifo' = [fifo EXCEPT ![iCur] = Tail(@)]
  /\ iPc' = "parse"
  /\ UNCHANGED <<live, probeVars, trigger, missed, iReady, iCur, iJson, eQueueVars, egressVars>>

\* FifoGet fails: the fifo is drained, go on with the next one.
IngressGetEmpty ==
  /\ iPc = "get"
  /\ fifo[iCur] = <<>>
  /\ missed' = [missed EXCEPT ![iCur] = FALSE]
  /\ iReady' = iReady \ {iCur}
  /\ iCur' = NULL
  /\ iPc' = IF iReady = {iCur} THEN "wait" ELSE "dispatch"
  /\ UNCHANGED <<live, probeVars, fifo, trigger, iBuf, iJson, eQueueVars, egressVars>>

\* free(dataStr) at the end of the loop body.
FreeData ==
  /\ iBuf' = NULL
  /\ iPc' = "get"

\* Not a "|name|" line, no such table, refused by the IMDB, or no Kafka.
IngressDrop ==
  /\ iPc = "parse"
  /\ live' = live \ {iBuf}
  /\ FreeData
  /\ UNCHANGED <<probeVars, queueVars, iReady, iCur, iJson, eQueueVars, egressVars>>

\* The line is good, possibly stored in the IMDB: allocate the message.
IngressAccept ==
  /\ iPc = "parse"
  /\ KafkaOn
  /\ \E j \in JsonBufs \ live :
       /\ live' = live \union {j}
       /\ iJson' = j
  /\ iPc' = "json"
  /\ UNCHANGED <<probeVars, queueVars, iReady, iCur, iBuf, eQueueVars, egressVars>>

\* IMDB_Rec2Json succeeded and there is room in the fifo of the egress thread.
IngressPut ==
  /\ iPc = "json"
  /\ Len(eFifo) < EgressSize
  /\ eFifo' = Append(eFifo, iJson)
  /\ iJson' = NULL
  /\ iPc' = "trigger"
  /\ UNCHANGED <<live, probeVars, queueVars, iReady, iCur, iBuf, eTrigger, eMissed, egressVars>>

\* IMDB_Rec2Json failed, or "egress fifo full".
IngressPutFails ==
  /\ iPc = "json"
  /\ live' = live \ {iJson, iBuf}
  /\ iJson' = NULL
  /\ FreeData
  /\ UNCHANGED <<probeVars, queueVars, iReady, iCur, eQueueVars, egressVars>>

\* Mutant of IngressTrigger: the eventfd of the egress thread is not written.
IngressTrigger_NoWrite ==
  /\ iPc = "trigger"
  /\ live' = live \ {iBuf}
  /\ FreeData
  /\ UNCHANGED <<probeVars, queueVars, iReady, iCur, iJson, eQueueVars, egressVars>>

IngressTrigger ==
  /\ iPc = "trigger"
  /\ eTrigger' = TRUE
  /\ live' = live \ {iBuf}
  /\ FreeData
  /\ UNCHANGED <<probeVars, queueVars, iReady, iCur, iJson, eFifo, eMissed, egressVars>>

\* Mutant of IngressTriggerFails: the message is freed although it is queued.
IngressTriggerFails_FreeJson ==
  /\ TriggerMayFail
  /\ iPc = "trigger"
  /\ eMissed' = TRUE
  /\ live' = live \ {iBuf, eFifo[Len(eFifo)]}
  /\ FreeData
  /\ UNCHANGED <<probeVars, queueVars, iReady, iCur, iJson, eFifo, eTrigger, egressVars>>

IngressTriggerFails ==
  /\ TriggerMayFail
  /\ iPc = "trigger"
  /\ eMissed' = TRUE
  /\ live' = live \ {iBuf}
  /\ FreeData
  /\ UNCHANGED <<probeVars, queueVars, iReady, iCur, iJson, eFifo, eTrigger, egressVars>>

-----------------------------------------------------------------------------
(***************************************************************************)
(* The egress thread.                                                      *)
(***************************************************************************)

\* epoll_wait and the read() that resets the eventfd.
EgressWait ==
  /\ ePc = "wait"
  /\ eTrigger
  /\ eTrigger' = FALSE
  /\ ePc' = "get"
  /\ UNCHANGED <<live, probeVars, queueVars, ingressVars, eFifo, eMissed, eBuf, retry, kafka>>

\* kafkaMgr # NULL holds here: the ingress thread tests the same pointer.
EgressGet ==
  /\ ePc = "get"
  /\ eFifo # <<>>
  /\ eBuf' = Head(eFifo)
  /\ eFifo' = Tail(eFifo)
  /\ retry' = 0
  /\ ePc' = "produce"
  /\ UNCHANGED <<live, probeVars, queueVars, ingressVars, eTrigger, eMissed, kafka>>

EgressGetEmpty ==
  /\ ePc = "get"
  /\ eFifo = <<>>
  /\ eMissed' = FALSE
  /\ ePc' = "wait"
  /\ UNCHANGED <<live, probeVars, queueVars, ingressVars, eFifo, eTrigger, eBuf, retry, kafka>>

\* rd_kafka_poll serves the delivery reports that are ready; librdkafka
\* frees those messages (RD_KAFKA_MSG_F_FREE).
KafkaPoll(queued) ==
  \E done \in SUBSET queued :
    /\ kafka' = queued \ done
    /\ live' = live \ done

\* rd_kafka_produce takes the message, then poll(0).
KafkaProduce ==
  /\ ePc = "produce"
  /\ Cardinality(kafka) < KafkaQueue
  /\ KafkaPoll(kafka \union {eBuf})
  /\ eBuf' = NULL
  /\ ePc' = "get"
  /\ UNCHANGED <<probeVars, queueVars, ingressVars, eQueueVars, retry>>

\* Mutant of KafkaRetry: no limit on the tries.
KafkaRetry_NoLimit ==
  /\ ePc = "produce"
  /\ Cardinality(kafka) = KafkaQueue
  /\ retry' = retry + 1
  /\ KafkaPoll(kafka)
  /\ UNCHANGED <<probeVars, queueVars, ingressVars, eQueueVars, ePc, eBuf>>

\* QUEUE_FULL with tries left: poll(10) and try again.
KafkaRetry ==
  /\ ePc = "produce"
  /\ Cardinality(kafka) = KafkaQueue
  /\ retry' = retry + 1
  /\ retry' < RetryMax
  /\ KafkaPoll(kafka)
  /\ UNCHANGED <<probeVars, queueVars, ingressVars, eQueueVars, ePc, eBuf>>

\* QUEUE_FULL once too often: the message is dropped.
KafkaGiveUp ==
  /\ ePc = "produce"
  /\ Cardinality(kafka) = KafkaQueue
  /\ retry' = retry + 1
  /\ retry' >= RetryMax
  /\ live' = live \ {eBuf}
  /\ eBuf' = NULL
  /\ ePc' = "get"
  /\ UNCHANGED <<probeVars, queueVars, ingressVars, eQueueVars, kafka>>

\* Any other error of rd_kafka_produce: the message is dropped at once.
KafkaError ==
  /\ ePc = "produce"
  /\ retry' = retry + 1
  /\ live' = live \ {eBuf}
  /\ eBuf' = NULL
  /\ ePc' = "get"
  /\ UNCHANGED <<probeVars, queueVars, ingressVars, eQueueVars, kafka>>

-----------------------------------------------------------------------------
Probe(p) ==
  \/ ProbePut(p)
  \/ ProbePutFull(p)
  \/ ProbeTrigger(p)
  \/ ProbeTriggerFails(p)

IngressMain ==
  \/ IngressWait
  \/ \E p \in Probes : IngressRead(p)
  \/ IngressGet
  \/ IngressGetEmpty
  \/ IngressDrop
  \/ IngressAccept
  \/ IngressPut
  \/ IngressPutFails
  \/ IngressTrigger
  \/ IngressTriggerFails

EgressMain ==
  \/ EgressWait
  \/ EgressGet
  \/ EgressGetEmpty
  \/ KafkaProduce
  \/ KafkaRetry
  \/ KafkaGiveUp
  \/ KafkaError

Next ==
  \/ \E p \in Probes : ProbeFormat(p) \/ Probe(p)
  \/ IngressMain
  \/ EgressMain

Spec == Init /\ [][Next]_vars

\* Threads are scheduled; whether a probe has something to report is its own
\* affair, so ProbeFormat is not fair.
Fairness ==
  /\ \A p \in Probes : WF_vars(Probe(p))
  /\ WF_vars(IngressMain)
  /\ WF_vars(EgressMain)

FairSpec == Spec /\ Fairness
-----------------------------------------------------------------------------
(***************************************************************************)
(* Properties.                                                             *)
(***************************************************************************)
Bufs == DataBufs \union JsonBufs

\* Types and limits: no fifo exceeds MAX_FIFO_SIZE, librdkafka holds no more
\* than its queue takes, and KafkaMsgProduce tries at most __RETRY_MAX times.
TypeOK ==
  /\ live \subseteq Bufs
  /\ pPc \in [Probes -> {"run", "put", "trigger"}]
  /\ pBuf \in [Probes -> DataBufs \union {NULL}]
  /\ fifo \in [Probes -> Seq(DataBufs)]
  /\ \A p \in Probes : Len(fifo[p]) <= FifoSize
  /\ trigger \in [Probes -> BOOLEAN]
  /\ missed \in [Probes -> BOOLEAN]
  /\ iPc \in {"wait", "dispatch", "get", "parse", "json", "trigger"}
  /\ iReady \subseteq Probes
  /\ iCur \in Probes \union {NULL}
  /\ iBuf \in DataBufs \union {NULL}
  /\ iJson \in JsonBufs \union {NULL}
  /\ eFifo \in Seq(JsonBufs)
  /\ Len(eFifo) <= EgressSize
  /\ eTrigger \in BOOLEAN /\ eMissed \in BOOLEAN
  /\ ePc \in {"wait", "get", "produce"}
  /\ eBuf \in JsonBufs \union {NULL}
  /\ retry \in 0..RetryMax
  /\ kafka \subseteq JsonBufs
  /\ Cardinality(kafka) <= KafkaQueue

\* The places from which buffer b can be reached.
InThreads(b) ==
  {<<"probe", p, 0>> : p \in {q \in Probes : pBuf[q] = b}}
  \union (IF b \in {iBuf, iJson} THEN {<<"ingress", NULL, 0>>} ELSE {})
  \union (IF b = eBuf THEN {<<"egress", NULL, 0>>} ELSE {})
  \union (IF b \in kafka THEN {<<"kafka", NULL, 0>>} ELSE {})

InFifos(b) ==
  UNION {{<<"fifo", p, i>> : i \in {k \in DOMAIN fifo[p] : fifo[p][k] = b}} : p \in Probes}

InEgressFifo(b) ==
  {<<"egress fifo", NULL, i>> : i \in {k \in DOMAIN eFifo : eFifo[k] = b}}

Holders(b) == InThreads(b) \union InFifos(b) \union InEgressFifo(b)

(***************************************************************************)
(* Every allocated buffer is held in exactly one place and nothing else is *)
(* held: no thread uses or frees a buffer another one has freed, no buffer *)
(* is freed twice, and none leaks, on any of the paths where a fifo is     *)
(* full, a line is dirty, write() fails, or Kafka refuses.  This is about  *)
(* native probes.  (It is not so of extend probes: after a failed write()  *)
(* RunExtendProbe keeps dataStr, which is in the fifo by then, and when    *)
(* the child dies in the middle of a line its dataStr is not freed.)       *)
(***************************************************************************)
OneOwner ==
  \A b \in Bufs :
    /\ b \in live <=> Holders(b) # {}
    /\ \A h1, h2 \in Holders(b) : h1 = h2

(***************************************************************************)
(* A line in the fifo of a probe is never forgotten: its eventfd is set,   *)
(* or the probe is about to set it, or the ingress thread still has to     *)
(* drain the fifo - or the write() for one of its lines has failed, and    *)
(* then a later line of the same probe has to wake the ingress thread.     *)
(* The same for the fifo of the egress thread.                             *)
(***************************************************************************)
NoLostWakeup ==
  /\ \A p \in Probes : fifo[p] # <<>> =>
       trigger[p] \/ pPc[p] = "trigger" \/ p \in iReady \/ missed[p]
  /\ eFifo # <<>> =>
       eTrigger \/ iPc = "trigger" \/ ePc # "wait" \/ eMissed

\* What the proofs need besides: see Pipeline_proofs.
Phases ==
  /\ iPc = "wait" => iReady = {}
  /\ iPc \in {"get", "parse", "json", "trigger"} => iCur \in Probes
  /\ iPc \in {"parse", "json", "trigger"} => iBuf \in DataBufs
  /\ iPc = "json" => iJson \in JsonBufs
  /\ ePc = "produce" => eBuf \in JsonBufs /\ retry < RetryMax
  /\ \A p \in Probes : pPc[p] = "put" => pBuf[p] \in DataBufs
  /\ IsFiniteSet(kafka)

(***************************************************************************)
(* Every fifo with a line in it gets drained, as long as the ingress       *)
(* thread returns to epoll_wait again and again.  (It does not when one    *)
(* probe fills its fifo as fast as it is drained: the loop of              *)
(* IngressDataProcesssInput has no bound, and the other probes starve.)    *)
(***************************************************************************)
FifosAreDrained ==
  []<>(iPc = "wait") =>
    \A p \in Probes : (fifo[p] # <<>>) ~> (fifo[p] = <<>>)

(***************************************************************************)
(* Every message the ingress thread allocates leaves it and the egress     *)
(* thread: Kafka takes it or it is freed, however often the local queue of *)
(* librdkafka is full.                                                     *)
(***************************************************************************)
MessagesLeave ==
  \A j \in JsonBufs : (j \in live \ kafka) ~> (j \notin live \/ j \in kafka)
=============================================================================
