-------------------------- MODULE Pipeline_proofs --------------------------
(***************************************************************************)
(* Proofs about module Pipeline, for any number of probes and buffers and  *)
(* any size of the queues.                                                 *)
(***************************************************************************)
EXTENDS Pipeline, FiniteSetTheorems, SequenceTheorems, TLAPS

\* The inductive invariant: Phases says what the threads hold at each point.
Inv == TypeOK /\ Phases /\ NoLostWakeup

\* The invariant holds when the threads start.
LEMMA InitInv == Init => Inv
<1> SUFFICES ASSUME Init PROVE Inv
  OBVIOUS
<1>1. IsFiniteSet({}) /\ Cardinality({}) = 0
  BY FS_EmptySet
<1>2. /\ live \subseteq Bufs /\ iReady \subseteq Probes /\ kafka \subseteq JsonBufs
      /\ pPc \in [Probes -> {"run", "put", "trigger"}]
      /\ pBuf \in [Probes -> DataBufs \union {NULL}]
      /\ iCur \in Probes \union {NULL} /\ iBuf \in DataBufs \union {NULL}
      /\ iJson \in JsonBufs \union {NULL} /\ eBuf \in JsonBufs \union {NULL}
  BY DEF Init
<1>3. trigger \in [Probes -> BOOLEAN] /\ missed \in [Probes -> BOOLEAN]
  BY Zenon DEF Init
<1>4. eTrigger \in BOOLEAN /\ eMissed \in BOOLEAN
  BY Zenon DEF Init
<1>5. fifo \in [Probes -> Seq(DataBufs)]
  BY DEF Init
<1>6. \A p \in Probes : Len(fifo[p]) <= FifoSize
  BY PipelineAssumption DEF Init
<1>7. eFifo \in Seq(JsonBufs) /\ Len(eFifo) <= EgressSize
  BY PipelineAssumption DEF Init
<1>8. retry \in 0..RetryMax
  BY PipelineAssumption DEF Init
<1>9. Cardinality(kafka) <= KafkaQueue
  BY <1>1, PipelineAssumption DEF Init
<1>10. TypeOK
  BY <1>2, <1>3, <1>4, <1>5, <1>6, <1>7, <1>8, <1>9 DEF Init, TypeOK
<1> QED
  BY <1>1, <1>10, PipelineAssumption DEF Init, Inv, Phases, NoLostWakeup

\* What librdkafka holds stays finite and within the size of its queue.
LEMMA KafkaPollType ==
  ASSUME IsFiniteSet(kafka), kafka \subseteq JsonBufs, live \subseteq Bufs,
         NEW queued, IsFiniteSet(queued), queued \subseteq JsonBufs,
         Cardinality(queued) <= KafkaQueue,
         KafkaPoll(queued)
  PROVE  /\ IsFiniteSet(kafka') /\ kafka' \subseteq JsonBufs
         /\ Cardinality(kafka') <= KafkaQueue
         /\ live' \subseteq Bufs
<1>1. PICK done \in SUBSET queued : kafka' = queued \ done /\ live' = live \ done
  BY DEF KafkaPoll
<1>2. kafka' \in SUBSET queued
  BY <1>1
<1>3. IsFiniteSet(kafka') /\ Cardinality(kafka') <= Cardinality(queued)
  BY <1>2, FS_Subset
<1>4. Cardinality(kafka') \in Nat /\ Cardinality(queued) \in Nat
  BY <1>3, FS_CardinalityType
<1> QED BY <1>1, <1>3, <1>4, PipelineAssumption

\* A probe allocates a line: no queue is touched.
LEMMA ProbeFormatInv ==
  ASSUME Inv, NEW p \in Probes, ProbeFormat(p)
  PROVE  Inv'
<1>1. TypeOK'
  BY PipelineAssumption DEF ProbeFormat, Inv, TypeOK, Phases, Bufs, probeVars, queueVars, ingressVars, eQueueVars, egressVars
<1>2. Phases'
  BY PipelineAssumption DEF ProbeFormat, Inv, TypeOK, Phases, probeVars, queueVars, ingressVars, eQueueVars, egressVars
<1>3. NoLostWakeup'
  BY DEF ProbeFormat, Inv, TypeOK, Phases, NoLostWakeup, probeVars, queueVars, ingressVars, eQueueVars, egressVars
<1> QED BY <1>1, <1>2, <1>3 DEF Inv

\* FifoPut of a probe: the write() to its eventfd is still to come.
LEMMA ProbePutInv ==
  ASSUME Inv, NEW p \in Probes, ProbePut(p)
  PROVE  Inv'
<1>1. TypeOK'
  BY PipelineAssumption DEF ProbePut, Inv, TypeOK, Phases, Bufs, probeVars, queueVars, ingressVars, eQueueVars, egressVars
<1>2. Phases'
  BY PipelineAssumption DEF ProbePut, Inv, TypeOK, Phases, probeVars, queueVars, ingressVars, eQueueVars, egressVars
<1>3. NoLostWakeup'
  BY DEF ProbePut, Inv, TypeOK, Phases, NoLostWakeup, probeVars, queueVars, ingressVars, eQueueVars, egressVars
<1> QED BY <1>1, <1>2, <1>3 DEF Inv

\* "fifo full" in a probe: no queue is touched.
LEMMA ProbePutFullInv ==
  ASSUME Inv, NEW p \in Probes, ProbePutFull(p)
  PROVE  Inv'
<1>1. TypeOK'
  BY PipelineAssumption DEF ProbePutFull, Inv, TypeOK, Phases, Bufs, probeVars, queueVars, ingressVars, eQueueVars, egressVars
<1>2. Phases'
  BY PipelineAssumption DEF ProbePutFull, Inv, TypeOK, Phases, probeVars, queueVars, ingressVars, eQueueVars, egressVars
<1>3. NoLostWakeup'
  BY DEF ProbePutFull, Inv, TypeOK, Phases, NoLostWakeup, probeVars, queueVars, ingressVars, eQueueVars, egressVars
<1> QED BY <1>1, <1>2, <1>3 DEF Inv

\* write() to the eventfd of a probe: the wakeup that was owed is there.
LEMMA ProbeTriggerInv ==
  ASSUME Inv, NEW p \in Probes, ProbeTrigger(p)
  PROVE  Inv'
<1>1. TypeOK'
  BY PipelineAssumption DEF ProbeTrigger, Inv, TypeOK, Phases, Bufs, probeVars, queueVars, ingressVars, eQueueVars, egressVars
<1>2. Phases'
  BY PipelineAssumption DEF ProbeTrigger, Inv, TypeOK, Phases, probeVars, queueVars, ingressVars, eQueueVars, egressVars
<1>3. NoLostWakeup'
  BY DEF ProbeTrigger, Inv, TypeOK, Phases, NoLostWakeup, probeVars, queueVars, ingressVars, eQueueVars, egressVars
<1> QED BY <1>1, <1>2, <1>3 DEF Inv

\* A failed write() is remembered in "missed".
LEMMA ProbeTriggerFailsInv ==
  ASSUME Inv, NEW p \in Probes, ProbeTriggerFails(p)
  PROVE  Inv'
<1>1. TypeOK'
  BY PipelineAssumption DEF ProbeTriggerFails, Inv, TypeOK, Phases, Bufs, probeVars, queueVars, ingressVars, eQueueVars, egressVars
<1>2. Phases'
  BY PipelineAssumption DEF ProbeTriggerFails, Inv, TypeOK, Phases, probeVars, queueVars, ingressVars, eQueueVars, egressVars
<1>3. NoLostWakeup'
  BY DEF ProbeTriggerFails, Inv, TypeOK, Phases, NoLostWakeup, probeVars, queueVars, ingressVars, eQueueVars, egressVars
<1> QED BY <1>1, <1>2, <1>3 DEF Inv

\* read() of an eventfd: the fifo is still in iReady.
LEMMA IngressReadInv ==
  ASSUME Inv, NEW p \in Probes, IngressRead(p)
  PROVE  Inv'
<1>1. TypeOK'
  BY PipelineAssumption DEF IngressRead, Inv, TypeOK, Phases, Bufs, probeVars, queueVars, ingressVars, eQueueVars, egressVars
<1>2. Phases'
  BY PipelineAssumption DEF IngressRead, Inv, TypeOK, Phases, probeVars, queueVars, ingressVars, eQueueVars, egressVars
<1>3. NoLostWakeup'
  BY DEF IngressRead, Inv, TypeOK, Phases, NoLostWakeup, probeVars, queueVars, ingressVars, eQueueVars, egressVars
<1> QED BY <1>1, <1>2, <1>3 DEF Inv

\* epoll_wait puts every fifo that has a wakeup into iReady.
LEMMA IngressWaitInv ==
  ASSUME Inv, IngressWait
  PROVE  Inv'
<1>1. TypeOK'
  BY PipelineAssumption DEF IngressWait, Inv, TypeOK, Phases, Bufs, probeVars, queueVars, ingressVars, eQueueVars, egressVars
<1>2. Phases'
  BY PipelineAssumption DEF IngressWait, Inv, TypeOK, Phases, probeVars, queueVars, ingressVars, eQueueVars, egressVars
<1>3. NoLostWakeup'
  BY DEF IngressWait, Inv, TypeOK, Phases, NoLostWakeup, probeVars, queueVars, ingressVars, eQueueVars, egressVars
<1> QED BY <1>1, <1>2, <1>3 DEF Inv

\* FifoGet of the ingress thread: the fifo stays in iReady.
LEMMA IngressGetInv ==
  ASSUME Inv, IngressGet
  PROVE  Inv'
<1>1. TypeOK'
  BY PipelineAssumption DEF IngressGet, Inv, TypeOK, Phases, Bufs, probeVars, queueVars, ingressVars, eQueueVars, egressVars
<1>2. Phases'
  BY PipelineAssumption DEF IngressGet, Inv, TypeOK, Phases, probeVars, queueVars, ingressVars, eQueueVars, egressVars
<1>3. NoLostWakeup'
  BY DEF IngressGet, Inv, TypeOK, Phases, NoLostWakeup, probeVars, queueVars, ingressVars, eQueueVars, egressVars
<1> QED BY <1>1, <1>2, <1>3 DEF Inv

\* A fifo leaves iReady when it is empty.
LEMMA IngressGetEmptyInv ==
  ASSUME Inv, IngressGetEmpty
  PROVE  Inv'
<1>1. TypeOK'
  BY PipelineAssumption DEF IngressGetEmpty, Inv, TypeOK, Phases, Bufs, probeVars, queueVars, ingressVars, eQueueVars, egressVars
<1>2. Phases'
  BY PipelineAssumption DEF IngressGetEmpty, Inv, TypeOK, Phases, probeVars, queueVars, ingressVars, eQueueVars, egressVars
<1>3. NoLostWakeup'
  BY DEF IngressGetEmpty, Inv, TypeOK, Phases, NoLostWakeup, probeVars, queueVars, ingressVars, eQueueVars, egressVars
<1> QED BY <1>1, <1>2, <1>3 DEF Inv

\* A dropped line: the loop goes on with the same fifo.
LEMMA IngressDropInv ==
  ASSUME Inv, IngressDrop
  PROVE  Inv'
<1>1. TypeOK'
  BY PipelineAssumption DEF IngressDrop, FreeData, Inv, TypeOK, Phases, Bufs, probeVars, queueVars, ingressVars, eQueueVars, egressVars
<1>2. Phases'
  BY PipelineAssumption DEF IngressDrop, FreeData, Inv, TypeOK, Phases, probeVars, queueVars, ingressVars, eQueueVars, egressVars
<1>3. NoLostWakeup'
  BY DEF IngressDrop, FreeData, Inv, TypeOK, Phases, NoLostWakeup, probeVars, queueVars, ingressVars, eQueueVars, egressVars
<1> QED BY <1>1, <1>2, <1>3 DEF Inv

\* The message is allocated: no queue is touched.
LEMMA IngressAcceptInv ==
  ASSUME Inv, IngressAccept
  PROVE  Inv'
<1>1. TypeOK'
  BY PipelineAssumption DEF IngressAccept, Inv, TypeOK, Phases, Bufs, probeVars, queueVars, ingressVars, eQueueVars, egressVars
<1>2. Phases'
  BY PipelineAssumption DEF IngressAccept, Inv, TypeOK, Phases, probeVars, queueVars, ingressVars, eQueueVars, egressVars
<1>3. NoLostWakeup'
  BY DEF IngressAccept, Inv, TypeOK, Phases, NoLostWakeup, probeVars, queueVars, ingressVars, eQueueVars, egressVars
<1> QED BY <1>1, <1>2, <1>3 DEF Inv

\* FifoPut to the egress thread: the write() is still to come.
LEMMA IngressPutInv ==
  ASSUME Inv, IngressPut
  PROVE  Inv'
<1>1. TypeOK'
  BY PipelineAssumption DEF IngressPut, Inv, TypeOK, Phases, Bufs, probeVars, queueVars, ingressVars, eQueueVars, egressVars
<1>2. Phases'
  BY PipelineAssumption DEF IngressPut, Inv, TypeOK, Phases, probeVars, queueVars, ingressVars, eQueueVars, egressVars
<1>3. NoLostWakeup'
  BY DEF IngressPut, Inv, TypeOK, Phases, NoLostWakeup, probeVars, queueVars, ingressVars, eQueueVars, egressVars
<1> QED BY <1>1, <1>2, <1>3 DEF Inv

\* "egress fifo full": no queue is touched.
LEMMA IngressPutFailsInv ==
  ASSUME Inv, IngressPutFails
  PROVE  Inv'
<1>1. TypeOK'
  BY PipelineAssumption DEF IngressPutFails, FreeData, Inv, TypeOK, Phases, Bufs, probeVars, queueVars, ingressVars, eQueueVars, egressVars
<1>2. Phases'
  BY PipelineAssumption DEF IngressPutFails, FreeData, Inv, TypeOK, Phases, probeVars, queueVars, ingressVars, eQueueVars, egressVars
<1>3. NoLostWakeup'
  BY DEF IngressPutFails, FreeData, Inv, TypeOK, Phases, NoLostWakeup, probeVars, queueVars, ingressVars, eQueueVars, egressVars
<1> QED BY <1>1, <1>2, <1>3 DEF Inv

\* write() to the eventfd of the egress thread.
LEMMA IngressTriggerInv ==
  ASSUME Inv, IngressTrigger
  PROVE  Inv'
<1>1. TypeOK'
  BY PipelineAssumption DEF IngressTrigger, FreeData, Inv, TypeOK, Phases, Bufs, probeVars, queueVars, ingressVars, eQueueVars, egressVars
<1>2. Phases'
  BY PipelineAssumption DEF IngressTrigger, FreeData, Inv, TypeOK, Phases, probeVars, queueVars, ingressVars, eQueueVars, egressVars
<1>3. NoLostWakeup'
  BY DEF IngressTrigger, FreeData, Inv, TypeOK, Phases, NoLostWakeup, probeVars, queueVars, ingressVars, eQueueVars, egressVars
<1> QED BY <1>1, <1>2, <1>3 DEF Inv

\* A failed write() is remembered in "eMissed".
LEMMA IngressTriggerFailsInv ==
  ASSUME Inv, IngressTriggerFails
  PROVE  Inv'
<1>1. TypeOK'
  BY PipelineAssumption DEF IngressTriggerFails, FreeData, Inv, TypeOK, Phases, Bufs, probeVars, queueVars, ingressVars, eQueueVars, egressVars
<1>2. Phases'
  BY PipelineAssumption DEF IngressTriggerFails, FreeData, Inv, TypeOK, Phases, probeVars, queueVars, ingressVars, eQueueVars, egressVars
<1>3. NoLostWakeup'
  BY DEF IngressTriggerFails, FreeData, Inv, TypeOK, Phases, NoLostWakeup, probeVars, queueVars, ingressVars, eQueueVars, egressVars
<1> QED BY <1>1, <1>2, <1>3 DEF Inv

\* The egress thread takes the wakeup and is going to drain its fifo.
LEMMA EgressWaitInv ==
  ASSUME Inv, EgressWait
  PROVE  Inv'
<1>1. TypeOK'
  BY PipelineAssumption DEF EgressWait, Inv, TypeOK, Phases, Bufs, probeVars, queueVars, ingressVars, eQueueVars, egressVars
<1>2. Phases'
  BY PipelineAssumption DEF EgressWait, Inv, TypeOK, Phases, probeVars, queueVars, ingressVars, eQueueVars, egressVars
<1>3. NoLostWakeup'
  BY DEF EgressWait, Inv, TypeOK, Phases, NoLostWakeup, probeVars, queueVars, ingressVars, eQueueVars, egressVars
<1> QED BY <1>1, <1>2, <1>3 DEF Inv

\* FifoGet of the egress thread.
LEMMA EgressGetInv ==
  ASSUME Inv, EgressGet
  PROVE  Inv'
<1>1. TypeOK'
  BY PipelineAssumption DEF EgressGet, Inv, TypeOK, Phases, Bufs, probeVars, queueVars, ingressVars, eQueueVars, egressVars
<1>2. Phases'
  BY PipelineAssumption DEF EgressGet, Inv, TypeOK, Phases, probeVars, queueVars, ingressVars, eQueueVars, egressVars
<1>3. NoLostWakeup'
  BY DEF EgressGet, Inv, TypeOK, Phases, NoLostWakeup, probeVars, queueVars, ingressVars, eQueueVars, egressVars
<1> QED BY <1>1, <1>2, <1>3 DEF Inv

\* The egress thread goes back to epoll_wait when its fifo is empty.
LEMMA EgressGetEmptyInv ==
  ASSUME Inv, EgressGetEmpty
  PROVE  Inv'
<1>1. TypeOK'
  BY PipelineAssumption DEF EgressGetEmpty, Inv, TypeOK, Phases, Bufs, probeVars, queueVars, ingressVars, eQueueVars, egressVars
<1>2. Phases'
  BY PipelineAssumption DEF EgressGetEmpty, Inv, TypeOK, Phases, probeVars, queueVars, ingressVars, eQueueVars, egressVars
<1>3. NoLostWakeup'
  BY DEF EgressGetEmpty, Inv, TypeOK, Phases, NoLostWakeup, probeVars, queueVars, ingressVars, eQueueVars, egressVars
<1> QED BY <1>1, <1>2, <1>3 DEF Inv

\* The message is dropped after the last try.
LEMMA KafkaGiveUpInv ==
  ASSUME Inv, KafkaGiveUp
  PROVE  Inv'
<1>1. TypeOK'
  BY PipelineAssumption DEF KafkaGiveUp, Inv, TypeOK, Phases, Bufs, probeVars, queueVars, ingressVars, eQueueVars, egressVars
<1>2. Phases'
  BY PipelineAssumption DEF KafkaGiveUp, Inv, TypeOK, Phases, probeVars, queueVars, ingressVars, eQueueVars, egressVars
<1>3. NoLostWakeup'
  BY DEF KafkaGiveUp, Inv, TypeOK, Phases, NoLostWakeup, probeVars, queueVars, ingressVars, eQueueVars, egressVars
<1> QED BY <1>1, <1>2, <1>3 DEF Inv

\* The message is dropped because librdkafka refuses it.
LEMMA KafkaErrorInv ==
  ASSUME Inv, KafkaError
  PROVE  Inv'
<1>1. TypeOK'
  BY PipelineAssumption DEF KafkaError, Inv, TypeOK, Phases, Bufs, probeVars, queueVars, ingressVars, eQueueVars, egressVars
<1>2. Phases'
  BY PipelineAssumption DEF KafkaError, Inv, TypeOK, Phases, probeVars, queueVars, ingressVars, eQueueVars, egressVars
<1>3. NoLostWakeup'
  BY DEF KafkaError, Inv, TypeOK, Phases, NoLostWakeup, probeVars, queueVars, ingressVars, eQueueVars, egressVars
<1> QED BY <1>1, <1>2, <1>3 DEF Inv

\* librdkafka takes the message: its queue had room.
LEMMA KafkaProduceInv ==
  ASSUME Inv, KafkaProduce
  PROVE  Inv'
<1>1. /\ IsFiniteSet(kafka \union {eBuf})
      /\ Cardinality(kafka \union {eBuf}) <= KafkaQueue
  <2>1. IsFiniteSet(kafka) /\ Cardinality(kafka) < KafkaQueue
    BY DEF Inv, Phases, KafkaProduce
  <2>2. Cardinality(kafka) \in Nat
    BY <2>1, FS_CardinalityType
  <2>3. /\ IsFiniteSet(kafka \union {eBuf})
        /\ Cardinality(kafka \union {eBuf}) =
             IF eBuf \in kafka THEN Cardinality(kafka) ELSE Cardinality(kafka) + 1
    BY <2>1, FS_AddElement
  <2> QED BY <2>1, <2>2, <2>3, PipelineAssumption
<1>2. /\ IsFiniteSet(kafka') /\ kafka' \subseteq JsonBufs
      /\ Cardinality(kafka') <= KafkaQueue /\ live' \subseteq Bufs
  <2>1. eBuf \in JsonBufs /\ kafka \subseteq JsonBufs /\ live \subseteq Bufs /\ IsFiniteSet(kafka)
    BY DEF Inv, TypeOK, Phases, KafkaProduce
  <2>2. KafkaPoll(kafka \union {eBuf})
    BY DEF KafkaProduce
  <2> QED BY <1>1, <2>1, <2>2, KafkaPollType
<1>3. TypeOK'
  BY <1>2 DEF KafkaProduce, Inv, TypeOK, Bufs, probeVars, queueVars, ingressVars, eQueueVars
<1>4. Phases'
  BY <1>2 DEF KafkaProduce, Inv, TypeOK, Phases, probeVars, queueVars, ingressVars, eQueueVars
<1>5. NoLostWakeup'
  BY DEF KafkaProduce, Inv, NoLostWakeup, probeVars, queueVars, ingressVars, eQueueVars
<1> QED BY <1>3, <1>4, <1>5 DEF Inv

\* One more try: the limit is not reached.
LEMMA KafkaRetryInv ==
  ASSUME Inv, KafkaRetry
  PROVE  Inv'
<1>2. /\ IsFiniteSet(kafka') /\ kafka' \subseteq JsonBufs
      /\ Cardinality(kafka') <= KafkaQueue /\ live' \subseteq Bufs
  <2>1. /\ kafka \subseteq JsonBufs /\ live \subseteq Bufs /\ IsFiniteSet(kafka)
        /\ Cardinality(kafka) <= KafkaQueue /\ KafkaPoll(kafka)
    BY DEF Inv, TypeOK, Phases, KafkaRetry
  <2> QED BY <2>1, KafkaPollType
<1>3. TypeOK'
  BY <1>2, PipelineAssumption
  DEF KafkaRetry, Inv, TypeOK, Phases, Bufs, probeVars, queueVars, ingressVars, eQueueVars
<1>4. Phases'
  BY <1>2, PipelineAssumption
  DEF KafkaRetry, Inv, TypeOK, Phases, probeVars, queueVars, ingressVars, eQueueVars
<1>5. NoLostWakeup'
  BY DEF KafkaRetry, Inv, NoLostWakeup, probeVars, queueVars, ingressVars, eQueueVars
<1> QED BY <1>3, <1>4, <1>5 DEF Inv

\* Every step of every thread keeps the invariant.
LEMMA NextInv == Inv /\ [Next]_vars => Inv'
<1> SUFFICES ASSUME Inv, [Next]_vars PROVE Inv'
  OBVIOUS
<1>1. CASE UNCHANGED vars
  BY <1>1
  DEF Inv, TypeOK, Phases, NoLostWakeup, Bufs, vars,
      probeVars, queueVars, ingressVars, eQueueVars, egressVars
<1>2. ASSUME NEW p \in Probes, ProbeFormat(p) \/ Probe(p) PROVE Inv'
  BY <1>2, ProbeFormatInv, ProbePutInv, ProbePutFullInv, ProbeTriggerInv, ProbeTriggerFailsInv
  DEF Probe
<1>3. CASE IngressMain
  BY <1>3, IngressWaitInv, IngressReadInv, IngressGetInv, IngressGetEmptyInv, IngressDropInv,
     IngressAcceptInv, IngressPutInv, IngressPutFailsInv, IngressTriggerInv,
     IngressTriggerFailsInv
  DEF IngressMain
<1>4. CASE EgressMain
  BY <1>4, EgressWaitInv, EgressGetInv, EgressGetEmptyInv, KafkaProduceInv, KafkaRetryInv,
     KafkaGiveUpInv, KafkaErrorInv
  DEF EgressMain
<1> QED BY <1>1, <1>2, <1>3, <1>4 DEF Next

(***************************************************************************)
(* TypeOK, with the bounds of all queues and of the retries, holds for     *)
(* every number of probes and every size.                                  *)
(***************************************************************************)
THEOREM TypeCorrect == Spec => []TypeOK
<1>1. Inv => TypeOK
  BY DEF Inv
<1> QED BY <1>1, InitInv, NextInv, PTL DEF Spec

(***************************************************************************)
(* No line and no message is forgotten in a fifo: the handshake of FifoPut,*)
(* write(eventfd), read(eventfd) and the drain loop loses no wakeup.       *)
(***************************************************************************)
THEOREM WakeupsAreNotLost == Spec => []NoLostWakeup
<1>1. Inv => NoLostWakeup
  BY DEF Inv
<1> QED BY <1>1, InitInv, NextInv, PTL DEF Spec

-----------------------------------------------------------------------------
(***************************************************************************)
(* Ownership.  OneOwner counts the places of a buffer; the invariant below *)
(* says the same place by place, for the lines (buffers of the probes) and *)
(* for the messages, and that a thread holds nothing between two lines.    *)
(***************************************************************************)
HandsEmpty ==
  /\ \A p \in Probes : pBuf[p] # NULL => pPc[p] = "put"
  /\ iBuf # NULL => iPc \in {"parse", "json", "trigger"}
  /\ iJson # NULL => iPc = "json"
  /\ eBuf # NULL => ePc = "produce"

\* What is held is allocated.
DataLive ==
  /\ \A p \in Probes : pBuf[p] # NULL => pBuf[p] \in live
  /\ \A p \in Probes : \A i \in 1..Len(fifo[p]) : fifo[p][i] \in live
  /\ iBuf # NULL => iBuf \in live

JsonLive ==
  /\ iJson # NULL => iJson \in live
  /\ \A i \in 1..Len(eFifo) : eFifo[i] \in live
  /\ eBuf # NULL => eBuf \in live
  /\ kafka \subseteq live

\* No two places hold the same buffer.
DataOnce ==
  /\ \A p, q \in Probes : pBuf[p] # NULL /\ pBuf[p] = pBuf[q] => p = q
  /\ \A p, q \in Probes : \A i \in 1..Len(fifo[p]) : fifo[p][i] # pBuf[q]
  /\ \A p, q \in Probes : \A i \in 1..Len(fifo[p]) : \A j \in 1..Len(fifo[q]) :
       fifo[p][i] = fifo[q][j] => p = q /\ i = j
  /\ \A p \in Probes : iBuf # NULL => pBuf[p] # iBuf
  /\ \A p \in Probes : \A i \in 1..Len(fifo[p]) : fifo[p][i] # iBuf

JsonOnce ==
  /\ iJson # NULL => iJson # eBuf /\ iJson \notin kafka
  /\ eBuf \notin kafka
  /\ \A i \in 1..Len(eFifo) : eFifo[i] # iJson /\ eFifo[i] # eBuf /\ eFifo[i] \notin kafka
  /\ \A i, j \in 1..Len(eFifo) : eFifo[i] = eFifo[j] => i = j

\* What is allocated is held.
DataFound ==
  \A b \in DataBufs : b \in live =>
    \/ \E p \in Probes : pBuf[p] = b
    \/ \E p \in Probes : \E i \in 1..Len(fifo[p]) : fifo[p][i] = b
    \/ iBuf = b

JsonFound ==
  \A b \in JsonBufs : b \in live =>
    \/ iJson = b
    \/ \E i \in 1..Len(eFifo) : eFifo[i] = b
    \/ eBuf = b
    \/ b \in kafka

DataOwned == DataLive /\ DataOnce /\ DataFound
JsonOwned == JsonLive /\ JsonOnce /\ JsonFound

\* The places of a buffer, one by one.
LEMMA HoldersAre ==
  ASSUME TypeOK, NEW b \in Bufs
  PROVE  \A h : h \in Holders(b) <=>
           \/ \E p \in Probes : pBuf[p] = b /\ h = <<"probe", p, 0>>
           \/ \E p \in Probes : \E i \in 1..Len(fifo[p]) : fifo[p][i] = b /\ h = <<"fifo", p, i>>
           \/ (iBuf = b \/ iJson = b) /\ h = <<"ingress", NULL, 0>>
           \/ \E i \in 1..Len(eFifo) : eFifo[i] = b /\ h = <<"egress fifo", NULL, i>>
           \/ eBuf = b /\ h = <<"egress", NULL, 0>>
           \/ b \in kafka /\ h = <<"kafka", NULL, 0>>
<1>1. \A p \in Probes : DOMAIN fifo[p] = 1..Len(fifo[p])
  BY DEF TypeOK
<1>2. DOMAIN eFifo = 1..Len(eFifo)
  BY DEF TypeOK
<1>3. \A h : h \in InFifos(b) <=> \E p \in Probes : \E i \in 1..Len(fifo[p]) :
                                  fifo[p][i] = b /\ h = <<"fifo", p, i>>
  BY <1>1 DEF InFifos
<1>4. \A h : h \in InEgressFifo(b) <=>
        \E i \in 1..Len(eFifo) : eFifo[i] = b /\ h = <<"egress fifo", NULL, i>>
  BY <1>2 DEF InEgressFifo
<1>5. \A h : h \in InThreads(b) <=>
        \/ \E p \in Probes : pBuf[p] = b /\ h = <<"probe", p, 0>>
        \/ (iBuf = b \/ iJson = b) /\ h = <<"ingress", NULL, 0>>
        \/ eBuf = b /\ h = <<"egress", NULL, 0>>
        \/ b \in kafka /\ h = <<"kafka", NULL, 0>>
  BY DEF InThreads
<1>6. \A h : h \in Holders(b) <=> h \in InThreads(b) \/ h \in InFifos(b) \/ h \in InEgressFifo(b)
  BY DEF Holders
<1> QED
  BY <1>3, <1>4, <1>5, <1>6, Zenon

\* Seen place by place, every buffer has one owner.
LEMMA OwnedOnce ==
  ASSUME TypeOK, DataOwned, JsonOwned
  PROVE  OneOwner
<1>1. ASSUME NEW b \in DataBufs
      PROVE  /\ b \in live <=> Holders(b) # {}
             /\ \A h1, h2 \in Holders(b) : h1 = h2
  <2>1. b \in Bufs /\ b # NULL /\ iJson # b /\ eBuf # b /\ b \notin kafka
        /\ \A i \in 1..Len(eFifo) : eFifo[i] # b
    BY PipelineAssumption DEF TypeOK, Bufs
  <2>2. \A h : h \in Holders(b) <=>
          \/ \E p \in Probes : pBuf[p] = b /\ h = <<"probe", p, 0>>
          \/ \E p \in Probes : \E i \in 1..Len(fifo[p]) : fifo[p][i] = b /\ h = <<"fifo", p, i>>
          \/ iBuf = b /\ h = <<"ingress", NULL, 0>>
    BY <2>1, HoldersAre
  <2>3. b \in live => Holders(b) # {}
    BY ZenonT(40), <2>2 DEF DataOwned, DataFound
  <2>4. Holders(b) # {} => b \in live
    BY <2>1, <2>2 DEF DataOwned, DataLive
  <2>5. ASSUME NEW h1, NEW h2, h1 \in Holders(b), h2 \in Holders(b) PROVE h1 = h2
    BY <2>1, <2>2, <2>5 DEF DataOwned, DataOnce
  <2> QED
    BY <2>3, <2>4, <2>5
<1>2. ASSUME NEW b \in JsonBufs
      PROVE  /\ b \in live <=> Holders(b) # {}
             /\ \A h1, h2 \in Holders(b) : h1 = h2
  <2>1. b \in Bufs /\ b # NULL /\ iBuf # b /\ (\A p \in Probes : pBuf[p] # b)
        /\ \A p \in Probes : \A i \in 1..Len(fifo[p]) : fifo[p][i] # b
    BY PipelineAssumption DEF TypeOK, Bufs
  <2>2. \A h : h \in Holders(b) <=>
          \/ iJson = b /\ h = <<"ingress", NULL, 0>>
          \/ \E i \in 1..Len(eFifo) : eFifo[i] = b /\ h = <<"egress fifo", NULL, i>>
          \/ eBuf = b /\ h = <<"egress", NULL, 0>>
          \/ b \in kafka /\ h = <<"kafka", NULL, 0>>
    BY ZenonT(40), <2>1, HoldersAre
  <2>3. b \in live => Holders(b) # {}
    BY <2>2 DEF JsonOwned, JsonFound
  <2>4. ASSUME NEW h, h \in Holders(b) PROVE b \in live
    <3>1. iJson = b \/ (\E i \in 1..Len(eFifo) : eFifo[i] = b) \/ eBuf = b \/ b \in kafka
      BY <2>2, <2>4
    <3> QED
      BY <2>1, <3>1 DEF JsonOwned, JsonLive
  <2>5. ASSUME NEW h1, NEW h2, h1 \in Holders(b), h2 \in Holders(b) PROVE h1 = h2
    <3> DEFINE At(h) == \/ iJson = b /\ h = <<"ingress", NULL, 0>>
                        \/ \E i \in 1..Len(eFifo) : eFifo[i] = b /\ h = <<"egress fifo", NULL, i>>
                        \/ eBuf = b /\ h = <<"egress", NULL, 0>>
                        \/ b \in kafka /\ h = <<"kafka", NULL, 0>>
    <3>1. At(h1) /\ At(h2)
      BY <2>2, <2>5, Zenon
    <3>2. CASE iJson = b
      BY <2>1, <3>1, <3>2 DEF JsonOwned, JsonOnce
    <3>3. CASE \E i \in 1..Len(eFifo) : eFifo[i] = b
      <4>1. iJson # b /\ eBuf # b /\ b \notin kafka
        BY <3>3 DEF JsonOwned, JsonOnce
      <4>2. \A i, j \in 1..Len(eFifo) : eFifo[i] = b /\ eFifo[j] = b => i = j
        BY DEF JsonOwned, JsonOnce
      <4> QED
        BY <3>1, <4>1, <4>2
    <3>4. CASE eBuf = b
      BY <2>1, <3>1, <3>4 DEF JsonOwned, JsonOnce
    <3>5. CASE b \in kafka
      <4>1. iJson # b /\ eBuf # b /\ \A i \in 1..Len(eFifo) : eFifo[i] # b
        BY <2>1, <3>5 DEF JsonOwned, JsonOnce
      <4> QED
        BY <3>1, <4>1
    <3> QED
      BY <3>1, <3>2, <3>3, <3>4, <3>5
  <2> QED
    BY <2>3, <2>4, <2>5
<1> QED
  BY <1>1, <1>2 DEF OneOwner, Bufs

\* Every step leaves the hands of a thread empty between two lines.
LEMMA NextHands == Inv /\ HandsEmpty /\ [Next]_vars => HandsEmpty'
<1> SUFFICES ASSUME Inv, HandsEmpty, [Next]_vars PROVE HandsEmpty'
  OBVIOUS
<1> USE PipelineAssumption DEF Inv, HandsEmpty, probeVars, queueVars, ingressVars, eQueueVars, egressVars
<1>1. ASSUME NEW p \in Probes, ProbeFormat(p) \/ Probe(p) PROVE HandsEmpty'
  BY <1>1 DEF Probe, ProbeFormat, ProbePut, ProbePutFull, ProbeTrigger, ProbeTriggerFails, TypeOK
<1>2. CASE IngressMain
  BY <1>2 DEF IngressMain, IngressWait, IngressRead, IngressGet, IngressGetEmpty, IngressDrop,
              IngressAccept, IngressPut, IngressPutFails, IngressTrigger, IngressTriggerFails, FreeData
<1>3. CASE EgressMain
  BY <1>3 DEF EgressMain, EgressWait, EgressGet, EgressGetEmpty, KafkaProduce, KafkaRetry,
              KafkaGiveUp, KafkaError
<1>4. CASE UNCHANGED vars
  BY <1>4 DEF vars
<1> QED
  BY <1>1, <1>2, <1>3, <1>4 DEF Next

\* A step that moves no line keeps the ownership of the lines.
LEMMA DataFrame ==
  ASSUME DataOwned, TypeOK, UNCHANGED <<pBuf, fifo, iBuf>>,
         \A b \in DataBufs : b \in live' <=> b \in live
  PROVE  DataOwned'
<1>1. DataLive'
  BY PipelineAssumption DEF DataOwned, DataLive, TypeOK
<1>2. DataOnce' /\ DataFound'
  BY DEF DataOwned, DataOnce, DataFound
<1> QED
  BY <1>1, <1>2 DEF DataOwned

\* Every step keeps the ownership of the lines.
LEMMA NextData == Inv /\ HandsEmpty /\ DataOwned /\ [Next]_vars => DataOwned'
<1> SUFFICES ASSUME Inv, HandsEmpty, DataOwned, [Next]_vars PROVE DataOwned'
  OBVIOUS
<1> USE DEF Inv, probeVars, queueVars, ingressVars, eQueueVars, egressVars
<1>a. /\ pBuf \in [Probes -> DataBufs \union {NULL}] /\ fifo \in [Probes -> Seq(DataBufs)]
      /\ iBuf \in DataBufs \union {NULL} /\ iJson \in JsonBufs \union {NULL}
      /\ eBuf \in JsonBufs \union {NULL} /\ kafka \subseteq JsonBufs
      /\ NULL \notin DataBufs \union JsonBufs /\ DataBufs \intersect JsonBufs = {}
  BY PipelineAssumption DEF TypeOK
<1>b. \A p \in Probes : \A i \in 1..Len(fifo[p]) : fifo[p][i] \in DataBufs
  BY <1>a
<1>1. ASSUME NEW p \in Probes, ProbeFormat(p) PROVE DataOwned'
  <2>1. PICK b \in DataBufs : /\ b \notin live /\ live' = live \union {b}
                              /\ pBuf' = [pBuf EXCEPT ![p] = b] /\ UNCHANGED <<fifo, iBuf>>
    BY <1>1 DEF ProbeFormat
  <2>2. pBuf[p] = NULL /\ pBuf'[p] = b /\ \A q \in Probes : q # p => pBuf'[q] = pBuf[q]
    BY <1>1, <1>a, <2>1 DEF HandsEmpty, ProbeFormat
  <2>3. b # NULL /\ b # iBuf /\ (\A q \in Probes : pBuf[q] # b)
        /\ \A q \in Probes : \A i \in 1..Len(fifo[q]) : fifo[q][i] # b
    BY <1>a, <2>1 DEF DataOwned, DataLive
  <2>4. DataLive'
    BY <2>1, <2>2 DEF DataOwned, DataLive
  <2>5. DataOnce'
    BY <2>1, <2>2, <2>3 DEF DataOwned, DataOnce
  <2>6. DataFound'
    BY <2>1, <2>2, <1>a DEF DataOwned, DataFound
  <2> QED
    BY <2>4, <2>5, <2>6 DEF DataOwned
<1>2. ASSUME NEW p \in Probes, ProbePut(p) PROVE DataOwned'
  <2>1. pBuf[p] \in DataBufs /\ fifo' = [fifo EXCEPT ![p] = Append(fifo[p], pBuf[p])]
        /\ pBuf' = [pBuf EXCEPT ![p] = NULL] /\ UNCHANGED <<live, iBuf>>
    BY <1>2, <1>a DEF ProbePut, Phases
  <2>2. pBuf'[p] = NULL /\ \A q \in Probes : q # p => pBuf'[q] = pBuf[q] /\ fifo'[q] = fifo[q]
    BY <1>a, <2>1
  <2>3. PICK n \in Nat : /\ n = Len(fifo[p]) /\ Len(fifo'[p]) = n + 1
                         /\ fifo'[p][n + 1] = pBuf[p]
                         /\ \A i \in 1..n : fifo'[p][i] = fifo[p][i]
    BY <1>a, <2>1, AppendProperties
  <2>4. \A i \in 1..(n + 1) : i \in 1..n \/ i = n + 1
    OBVIOUS
  <2>5. DataLive'
    BY <1>a, <2>1, <2>2, <2>3, <2>4 DEF DataOwned, DataLive
  <2>6. DataOnce'
    <3>1. \A q \in Probes : pBuf[p] # iBuf /\ (q # p => pBuf[q] # pBuf[p])
      BY <1>a, <2>1 DEF DataOwned, DataOnce
    <3>2. \A q, r \in Probes : \A i \in 1..Len(fifo'[q]) : fifo'[q][i] # pBuf'[r]
      BY <1>a, <1>b, <2>1, <2>2, <2>3, <2>4, <3>1 DEF DataOwned, DataOnce
    <3>3. \A q \in Probes : \A i \in 1..Len(fifo'[q]) : fifo'[q][i] # iBuf
      BY <2>1, <2>2, <2>3, <2>4, <3>1 DEF DataOwned, DataOnce
    <3>4. ASSUME NEW q \in Probes, NEW r \in Probes,
                 NEW i \in 1..Len(fifo'[q]), NEW j \in 1..Len(fifo'[r]),
                 fifo'[q][i] = fifo'[r][j]
          PROVE  q = r /\ i = j
      BY <2>1, <2>2, <2>3, <2>4, <3>4 DEF DataOwned, DataOnce
    <3> QED
      BY <2>1, <2>2, <3>1, <3>2, <3>3, <3>4 DEF DataOwned, DataOnce
  <2>7. ASSUME NEW b \in DataBufs, b \in live'
        PROVE  \/ \E q \in Probes : pBuf'[q] = b
               \/ \E q \in Probes : \E i \in 1..Len(fifo'[q]) : fifo'[q][i] = b
               \/ iBuf' = b
    <3>1. CASE \E q \in Probes : pBuf[q] = b
      <4>1. PICK q \in Probes : pBuf[q] = b
        BY <3>1
      <4>2. CASE q = p
        <5>1. n + 1 \in 1..Len(fifo'[p]) /\ fifo'[p][n + 1] = b
          BY <2>3, <4>1, <4>2
        <5> QED
          BY <5>1
      <4> QED
        BY <2>2, <4>1, <4>2
    <3>2. CASE \E q \in Probes : \E i \in 1..Len(fifo[q]) : fifo[q][i] = b
      <4>0. PICK q \in Probes : \E i \in 1..Len(fifo[q]) : fifo[q][i] = b
        BY <3>2
      <4>1. PICK i \in 1..Len(fifo[q]) : fifo[q][i] = b
        BY <4>0
      <4>2. i \in 1..Len(fifo'[q]) /\ fifo'[q][i] = b
        <5>1. CASE q = p
          BY <2>3, <4>1, <5>1
        <5>2. CASE q # p
          BY <2>2, <4>1, <5>2
        <5> QED
          BY <5>1, <5>2
      <4> QED
        BY <4>2
    <3>3. CASE iBuf = b
      BY <2>1, <3>3
    <3> QED
      BY <2>1, <2>7, <3>1, <3>2, <3>3 DEF DataOwned, DataFound
  <2> QED
    BY <2>5, <2>6, <2>7 DEF DataOwned, DataFound
<1>3. ASSUME NEW p \in Probes, ProbePutFull(p) PROVE DataOwned'
  <2>1. pBuf[p] \in DataBufs /\ live' = live \ {pBuf[p]}
        /\ pBuf' = [pBuf EXCEPT ![p] = NULL] /\ UNCHANGED <<fifo, iBuf>>
    BY <1>3, <1>a DEF ProbePutFull, Phases
  <2>2. pBuf'[p] = NULL /\ \A q \in Probes : q # p => pBuf'[q] = pBuf[q]
    BY <1>a, <2>1
  <2>3. DataLive'
    <3>1. ASSUME NEW q \in Probes, pBuf'[q] # NULL PROVE pBuf'[q] \in live'
      <4>1. q # p /\ pBuf'[q] = pBuf[q]
        BY <2>2, <3>1
      <4>2. pBuf[q] # pBuf[p]
        BY <1>a, <2>1, <4>1 DEF DataOwned, DataOnce
      <4> QED
        BY <2>1, <3>1, <4>1, <4>2 DEF DataOwned, DataLive
    <3>2. \A q \in Probes : \A i \in 1..Len(fifo[q]) : fifo[q][i] # pBuf[p] /\ fifo[q][i] \in live
      BY DEF DataOwned, DataOnce, DataLive
    <3>3. iBuf # NULL => iBuf # pBuf[p] /\ iBuf \in live
      BY DEF DataOwned, DataOnce, DataLive
    <3> QED
      BY <2>1, <3>1, <3>2, <3>3 DEF DataLive
  <2>4. DataOnce'
    <3>1. \A q, r \in Probes : pBuf'[q] # NULL /\ pBuf'[q] = pBuf'[r] => q = r
      BY <2>2 DEF DataOwned, DataOnce
    <3>2. ASSUME NEW q \in Probes, NEW r \in Probes, NEW i \in 1..Len(fifo[q])
          PROVE  fifo[q][i] # pBuf'[r]
      <4>1. fifo[q][i] # NULL
        BY <1>a, <1>b
      <4>2. fifo[q][i] # pBuf[r]
        BY DEF DataOwned, DataOnce
      <4> QED
        BY <2>2, <4>1, <4>2
    <3>3. \A q \in Probes : iBuf # NULL => pBuf'[q] # iBuf
      BY <2>2 DEF DataOwned, DataOnce
    <3> QED
      BY <2>1, <3>1, <3>2, <3>3 DEF DataOwned, DataOnce
  <2>5. DataFound'
    BY <2>1, <2>2 DEF DataOwned, DataFound
  <2> QED
    BY <2>3, <2>4, <2>5 DEF DataOwned
<1>4. ASSUME IngressGet PROVE DataOwned'
  <2>1. iCur \in Probes /\ fifo[iCur] # <<>> /\ iBuf = NULL /\ UNCHANGED <<live, pBuf>>
    BY <1>4 DEF IngressGet, Phases, HandsEmpty
  <2>2. PICK p \in Probes : p = iCur
    BY <2>1
  <2>3. fifo' = [fifo EXCEPT ![p] = Tail(fifo[p])] /\ iBuf' = Head(fifo[p])
    BY <1>4, <2>2 DEF IngressGet
  <2>4. PICK n \in Nat : /\ n = Len(fifo'[p]) /\ Len(fifo[p]) = n + 1 /\ iBuf' = fifo[p][1]
                         /\ \A i \in 1..n : fifo'[p][i] = fifo[p][i + 1]
    <3>1. fifo'[p] = Tail(fifo[p]) /\ fifo[p] \in Seq(DataBufs) /\ fifo[p] # <<>>
      BY <1>a, <2>1, <2>2, <2>3
    <3>2. /\ Len(Tail(fifo[p])) = Len(fifo[p]) - 1 /\ Tail(fifo[p]) \in Seq(DataBufs)
          /\ \A i \in 1..Len(Tail(fifo[p])) : Tail(fifo[p])[i] = fifo[p][i + 1]
      BY <3>1, HeadTailProperties
    <3>3. Len(fifo[p]) \in Nat /\ Len(Tail(fifo[p])) \in Nat
      BY <3>1, <3>2
    <3>a. Len(fifo[p]) = Len(fifo'[p]) + 1
      BY <3>1, <3>2, <3>3
    <3>b. Head(fifo[p]) = fifo[p][1]
      BY <3>1
    <3>4. Len(fifo[p]) = Len(fifo'[p]) + 1 /\ iBuf' = fifo[p][1]
      BY <2>3, <3>a, <3>b
    <3>5. \A i \in 1..Len(fifo'[p]) : fifo'[p][i] = fifo[p][i + 1]
      BY <3>1, <3>2
    <3>6. Len(fifo'[p]) \in Nat
      BY <3>1, <3>3
    <3> QED
      BY <3>4, <3>5, <3>6
  <2>5. \A q \in Probes : q # p => fifo'[q] = fifo[q]
    BY <1>a, <2>3
  <2>6. iBuf' \in DataBufs /\ 1 \in 1..(n + 1) /\ \A i \in 1..n : i + 1 \in 1..(n + 1)
    BY <1>b, <2>4
  <2>7. DataLive'
    BY ZenonT(40), <2>1, <2>4, <2>5, <2>6 DEF DataOwned, DataLive
  <2>8. DataOnce'
    <3>1. \A q \in Probes : pBuf'[q] # iBuf'
      BY <2>1, <2>4, <2>6 DEF DataOwned, DataOnce
    <3>2. \A q, r \in Probes : \A i \in 1..Len(fifo'[q]) : fifo'[q][i] # pBuf'[r]
      BY <2>1, <2>4, <2>5, <2>6 DEF DataOwned, DataOnce
    <3> DEFINE was(q, i) == IF q = p THEN i + 1 ELSE i
    <3>a. \A q \in Probes : \A i \in 1..Len(fifo'[q]) :
            was(q, i) \in 1..Len(fifo[q]) /\ fifo'[q][i] = fifo[q][was(q, i)]
      BY <2>4, <2>5, <2>6
    <3>b. \A q, r \in Probes : \A i \in 1..Len(fifo[q]) : \A j \in 1..Len(fifo[r]) :
            fifo[q][i] = fifo[r][j] => q = r /\ i = j
      BY DEF DataOwned, DataOnce
    <3>3. ASSUME NEW q \in Probes, NEW i \in 1..Len(fifo'[q]) PROVE fifo'[q][i] # iBuf'
      <4>1. fifo[q][was(q, i)] = fifo[p][1] => q = p /\ was(q, i) = 1
        BY <2>4, <2>6, <3>a, <3>b
      <4>2. ~(q = p /\ was(q, i) = 1)
        OBVIOUS
      <4> QED
        BY <2>4, <3>a, <4>1, <4>2
    <3>4. ASSUME NEW q \in Probes, NEW r \in Probes,
                 NEW i \in 1..Len(fifo'[q]), NEW j \in 1..Len(fifo'[r]),
                 fifo'[q][i] = fifo'[r][j]
          PROVE  q = r /\ i = j
      <4>1. PICK k \in 1..Len(fifo[q]) : k = was(q, i) /\ fifo'[q][i] = fifo[q][k]
        BY <3>a
      <4>2. PICK l \in 1..Len(fifo[r]) : l = was(r, j) /\ fifo'[r][j] = fifo[r][l]
        BY <3>a
      <4>3. q = r /\ k = l
        <5>1. fifo[q][k] = fifo[r][l]
          BY <3>4, <4>1, <4>2
        <5> QED
          BY <3>b, <5>1
      <4>4. i \in Int /\ j \in Int
        <5>1. Len(fifo'[q]) \in Nat /\ Len(fifo'[r]) \in Nat
          BY <1>a, <2>4, <2>5
        <5> QED
          BY <5>1
      <4>5. k = (IF q = p THEN i + 1 ELSE i) /\ l = (IF q = p THEN j + 1 ELSE j)
        BY <4>1, <4>2, <4>3
      <4>6. CASE q = p
        <5>1. i + 1 = j + 1
          BY <4>3, <4>5, <4>6, Zenon
        <5>2. \A x, y \in Int : x + 1 = y + 1 => x = y
          OBVIOUS
        <5> QED
          BY <4>3, <4>4, <5>1, <5>2, Zenon
      <4>7. CASE q # p
        BY <4>3, <4>5, <4>7
      <4> QED
        BY <4>6, <4>7
    <3> QED
      BY <2>1, <3>1, <3>2, <3>3, <3>4 DEF DataOwned, DataOnce
  <2>9. ASSUME NEW b \in DataBufs, b \in live'
        PROVE  \/ \E q \in Probes : pBuf'[q] = b
               \/ \E q \in Probes : \E i \in 1..Len(fifo'[q]) : fifo'[q][i] = b
               \/ iBuf' = b
    <3>1. CASE \E q \in Probes : pBuf[q] = b
      BY <2>1, <3>1
    <3>2. CASE \E q \in Probes : \E i \in 1..Len(fifo[q]) : fifo[q][i] = b
      <4>0. PICK q \in Probes : \E i \in 1..Len(fifo[q]) : fifo[q][i] = b
        BY <3>2
      <4>1. PICK i \in 1..Len(fifo[q]) : fifo[q][i] = b
        BY <4>0
      <4>2. CASE q = p /\ i # 1
        <5>1. i - 1 \in 1..n /\ fifo'[p][i - 1] = fifo[p][(i - 1) + 1] /\ (i - 1) + 1 = i
          BY SMTT(30), <2>4, <4>1, <4>2
        <5> QED
          BY <2>4, <4>1, <4>2, <5>1
      <4> QED
        BY <2>4, <2>5, <4>1, <4>2
    <3> QED
      BY <1>a, <2>1, <2>9, <3>1, <3>2 DEF DataOwned, DataFound
  <2> QED
    BY <2>7, <2>8, <2>9 DEF DataOwned, DataFound
<1>5. ASSUME IngressDrop \/ IngressPutFails \/ IngressTrigger \/ IngressTriggerFails PROVE DataOwned'
  <2>1. iBuf \in DataBufs /\ iBuf' = NULL /\ UNCHANGED <<pBuf, fifo>>
        /\ (live' = live \ {iBuf} \/ live' = live \ {iJson, iBuf})
    BY <1>5 DEF IngressDrop, IngressPutFails, IngressTrigger, IngressTriggerFails, FreeData, Phases
  <2>2. \A b \in DataBufs : b \in live' <=> b \in live /\ b # iBuf
    BY <1>a, <2>1
  <2>3. DataLive'
    BY <1>a, <1>b, <2>1, <2>2 DEF DataOwned, DataLive, DataOnce
  <2>4. DataOnce'
    BY <1>a, <1>b, <2>1 DEF DataOwned, DataOnce
  <2>5. DataFound'
    BY <2>1, <2>2 DEF DataOwned, DataFound
  <2> QED
    BY <2>3, <2>4, <2>5 DEF DataOwned
<1>6. CASE UNCHANGED <<pBuf, fifo, iBuf>> /\ \A b \in DataBufs : b \in live' <=> b \in live
  BY <1>6, DataFrame
<1>7. ASSUME NEW p \in Probes, ProbeTrigger(p) \/ ProbeTriggerFails(p) PROVE DataOwned'
  BY <1>6, <1>7 DEF ProbeTrigger, ProbeTriggerFails
<1>8. ASSUME IngressWait \/ (\E p \in Probes : IngressRead(p)) \/ IngressGetEmpty \/ IngressPut
      PROVE  DataOwned'
  BY <1>6, <1>8 DEF IngressWait, IngressRead, IngressGetEmpty, IngressPut
<1>9. ASSUME IngressAccept PROVE DataOwned'
  BY <1>6, <1>9, <1>a DEF IngressAccept
<1>10. ASSUME EgressMain PROVE DataOwned'
  <2>1. UNCHANGED <<pBuf, fifo, iBuf>>
    BY <1>10 DEF EgressMain, EgressWait, EgressGet, EgressGetEmpty, KafkaProduce, KafkaRetry,
                 KafkaGiveUp, KafkaError
  <2>2. \E gone \in SUBSET (JsonBufs \union {NULL}) : live' = live \ gone
    <3>1. CASE KafkaProduce \/ KafkaRetry
      <4>1. PICK done \in SUBSET (JsonBufs \union {NULL}) : live' = live \ done
        BY <1>a, <3>1 DEF KafkaProduce, KafkaRetry, KafkaPoll
      <4> QED
        BY <4>1
    <3>2. CASE KafkaGiveUp \/ KafkaError
      <4>1. {eBuf} \in SUBSET (JsonBufs \union {NULL}) /\ live' = live \ {eBuf}
        BY <1>a, <3>2 DEF KafkaGiveUp, KafkaError
      <4> QED
        BY <4>1
    <3>3. CASE UNCHANGED live
      <4>1. {} \in SUBSET (JsonBufs \union {NULL}) /\ live' = live \ {}
        BY <3>3
      <4> QED
        BY <4>1
    <3> QED
      BY <1>10, <3>1, <3>2, <3>3 DEF EgressMain, EgressWait, EgressGet, EgressGetEmpty
  <2> QED
    BY <1>6, <1>a, <2>1, <2>2
<1>11. CASE UNCHANGED vars
  BY <1>6, <1>11 DEF vars
<1> QED
  BY <1>1, <1>2, <1>3, <1>4, <1>5, <1>7, <1>8, <1>9, <1>10, <1>11 DEF Next, Probe, IngressMain

\* A step that moves no message keeps the ownership of the messages.
LEMMA JsonFrame ==
  ASSUME JsonOwned, TypeOK, UNCHANGED <<iJson, eFifo, eBuf, kafka>>,
         \A b \in JsonBufs : b \in live' <=> b \in live
  PROVE  JsonOwned'
<1>1. JsonLive'
  BY PipelineAssumption DEF JsonOwned, JsonLive, TypeOK
<1>2. JsonOnce' /\ JsonFound'
  BY DEF JsonOwned, JsonOnce, JsonFound
<1> QED
  BY <1>1, <1>2 DEF JsonOwned

\* The egress thread lets its message go: librdkafka takes it, or it is freed.
LEMMA JsonLeaves ==
  ASSUME JsonOwned, TypeOK, UNCHANGED <<iJson, eFifo>>,
         NEW done, done \subseteq kafka \union {eBuf}, eBuf \in JsonBufs \/ eBuf \notin done,
         live' = live \ done, kafka' \subseteq kafka \union {eBuf},
         eBuf' = NULL \/ (eBuf' = eBuf /\ eBuf \notin kafka' \union done),
         \A b \in kafka \union {eBuf} : b \in JsonBufs =>
           (b \in done \/ b \in kafka' \/ b = eBuf'),
         kafka' \intersect done = {}, eBuf \in kafka' => eBuf \in JsonBufs
  PROVE  JsonOwned'
<1>a. /\ iJson \in JsonBufs \union {NULL} /\ eBuf \in JsonBufs \union {NULL}
      /\ kafka \subseteq JsonBufs /\ NULL \notin JsonBufs
      /\ \A i \in 1..Len(eFifo) : eFifo[i] \in JsonBufs
  BY PipelineAssumption DEF TypeOK
<1>b. NULL \notin kafka' /\ NULL \notin done
  BY <1>a
<1>1. JsonLive'
  <2>1. iJson' # NULL => iJson' \in live'
    BY <1>a DEF JsonOwned, JsonLive, JsonOnce
  <2>2. \A i \in 1..Len(eFifo') : eFifo'[i] \in live'
    BY <1>a DEF JsonOwned, JsonLive, JsonOnce
  <2>3. eBuf' # NULL => eBuf' \in live'
    BY <1>a DEF JsonOwned, JsonLive
  <2>4. kafka' \subseteq live'
    BY <1>a, <1>b DEF JsonOwned, JsonLive
  <2> QED
    BY <2>1, <2>2, <2>3, <2>4 DEF JsonLive
<1>2. JsonOnce'
  <2>1. iJson' # NULL => iJson' # eBuf' /\ iJson' \notin kafka'
    BY <1>a DEF JsonOwned, JsonOnce
  <2>2. eBuf' \notin kafka'
    BY <1>b
  <2>3. \A i \in 1..Len(eFifo') : eFifo'[i] # iJson' /\ eFifo'[i] # eBuf' /\ eFifo'[i] \notin kafka'
    BY <1>a DEF JsonOwned, JsonOnce
  <2> QED
    BY <2>1, <2>2, <2>3 DEF JsonOwned, JsonOnce
<1>3. JsonFound'
  BY <1>a DEF JsonOwned, JsonFound
<1> QED
  BY <1>1, <1>2, <1>3 DEF JsonOwned

\* Every step keeps the ownership of the messages.
LEMMA NextJson == Inv /\ HandsEmpty /\ JsonOwned /\ [Next]_vars => JsonOwned'
<1> SUFFICES ASSUME Inv, HandsEmpty, JsonOwned, [Next]_vars PROVE JsonOwned'
  OBVIOUS
<1> USE DEF Inv, probeVars, queueVars, ingressVars, eQueueVars, egressVars
<1>a. /\ pBuf \in [Probes -> DataBufs \union {NULL}]
      /\ iBuf \in DataBufs \union {NULL} /\ iJson \in JsonBufs \union {NULL}
      /\ eBuf \in JsonBufs \union {NULL} /\ kafka \subseteq JsonBufs /\ eFifo \in Seq(JsonBufs)
      /\ NULL \notin DataBufs \union JsonBufs /\ DataBufs \intersect JsonBufs = {}
  BY PipelineAssumption DEF TypeOK
<1>b. \A i \in 1..Len(eFifo) : eFifo[i] \in JsonBufs
  BY <1>a
<1>1. ASSUME IngressAccept PROVE JsonOwned'
  <2>1. PICK j \in JsonBufs : j \notin live /\ live' = live \union {j} /\ iJson' = j
    BY <1>1 DEF IngressAccept
  <2>2. iJson = NULL /\ UNCHANGED <<eFifo, eBuf, kafka>>
    BY <1>1 DEF IngressAccept, HandsEmpty
  <2>3. j # eBuf /\ j \notin kafka /\ \A i \in 1..Len(eFifo) : eFifo[i] # j
    BY <1>a, <2>1 DEF JsonOwned, JsonLive
  <2>4. JsonLive' /\ JsonOnce'
    BY <2>1, <2>2, <2>3 DEF JsonOwned, JsonLive, JsonOnce
  <2>5. JsonFound'
    BY <1>a, <2>1, <2>2 DEF JsonOwned, JsonFound
  <2> QED
    BY <2>4, <2>5 DEF JsonOwned
<1>2. ASSUME IngressPut PROVE JsonOwned'
  <2>1. iJson \in JsonBufs /\ iJson' = NULL /\ eFifo' = Append(eFifo, iJson)
        /\ UNCHANGED <<live, eBuf, kafka>>
    BY <1>2 DEF IngressPut, Phases
  <2>2. PICK n \in Nat : /\ n = Len(eFifo) /\ Len(eFifo') = n + 1 /\ eFifo'[n + 1] = iJson
                         /\ \A i \in 1..n : eFifo'[i] = eFifo[i]
    BY <1>a, <2>1, AppendProperties
  <2>3. \A i \in 1..(n + 1) : i \in 1..n \/ i = n + 1
    OBVIOUS
  <2>4. JsonLive'
    BY <1>a, <2>1, <2>2, <2>3 DEF JsonOwned, JsonLive
  <2>5. JsonOnce'
    <3>1. iJson # eBuf /\ iJson \notin kafka /\ eBuf \notin kafka /\ iJson # NULL
      BY <1>a, <2>1 DEF JsonOwned, JsonOnce
    <3>2. \A i \in 1..Len(eFifo') : eFifo'[i] # NULL /\ eFifo'[i] # eBuf /\ eFifo'[i] \notin kafka
      BY <1>a, <1>b, <2>2, <2>3, <3>1 DEF JsonOwned, JsonOnce
    <3>3. \A i, j \in 1..Len(eFifo') : eFifo'[i] = eFifo'[j] => i = j
      BY <2>2, <2>3 DEF JsonOwned, JsonOnce
    <3> QED
      BY <2>1, <3>1, <3>2, <3>3 DEF JsonOnce
  <2>6. ASSUME NEW b \in JsonBufs, b \in live'
        PROVE  \/ iJson' = b
               \/ \E i \in 1..Len(eFifo') : eFifo'[i] = b
               \/ eBuf' = b
               \/ b \in kafka'
    <3>1. CASE iJson = b
      <4>1. n + 1 \in 1..Len(eFifo') /\ eFifo'[n + 1] = b
        BY <2>2, <3>1
      <4> QED
        BY <4>1
    <3>2. CASE \E i \in 1..Len(eFifo) : eFifo[i] = b
      BY <2>2, <3>2
    <3> QED
      BY <2>1, <2>6, <3>1, <3>2 DEF JsonOwned, JsonFound
  <2> QED
    BY <2>4, <2>5, <2>6 DEF JsonOwned, JsonFound
<1>3. ASSUME IngressPutFails PROVE JsonOwned'
  <2>1. iJson \in JsonBufs /\ iBuf \in DataBufs /\ iJson' = NULL /\ live' = live \ {iJson, iBuf}
        /\ UNCHANGED <<eFifo, eBuf, kafka>>
    BY <1>3 DEF IngressPutFails, Phases
  <2>2. JsonLive'
    BY <1>a, <1>b, <2>1 DEF JsonOwned, JsonLive, JsonOnce
  <2>3. JsonOnce'
    BY <1>a, <1>b, <2>1 DEF JsonOwned, JsonOnce
  <2>4. JsonFound'
    BY <2>1 DEF JsonOwned, JsonFound
  <2> QED
    BY <2>2, <2>3, <2>4 DEF JsonOwned
<1>4. ASSUME EgressGet PROVE JsonOwned'
  <2>1. eFifo # <<>> /\ eBuf = NULL /\ eBuf' = Head(eFifo) /\ eFifo' = Tail(eFifo)
        /\ UNCHANGED <<live, iJson, kafka>>
    BY <1>4 DEF EgressGet, HandsEmpty
  <2>2. PICK n \in Nat : /\ n = Len(eFifo') /\ Len(eFifo) = n + 1 /\ eBuf' = eFifo[1]
                         /\ \A i \in 1..n : eFifo'[i] = eFifo[i + 1]
    <3>1. /\ Len(Tail(eFifo)) = Len(eFifo) - 1 /\ Tail(eFifo) \in Seq(JsonBufs)
          /\ \A i \in 1..Len(Tail(eFifo)) : Tail(eFifo)[i] = eFifo[i + 1]
      BY <1>a, <2>1, HeadTailProperties
    <3>2. Len(eFifo) \in Nat /\ Len(Tail(eFifo)) \in Nat
      BY <1>a, <3>1
    <3>3. Head(eFifo) = eFifo[1]
      BY <1>a, <2>1
    <3>4. Len(eFifo') \in Nat /\ Len(eFifo) = Len(eFifo') + 1
      BY <2>1, <3>1, <3>2
    <3>5. \A i \in 1..Len(eFifo') : eFifo'[i] = eFifo[i + 1]
      BY <2>1, <3>1
    <3> QED
      BY <2>1, <3>3, <3>4, <3>5
  <2>3. 1 \in 1..(n + 1) /\ \A i \in 1..n : i + 1 \in 1..(n + 1) /\ i + 1 # 1
    BY <2>2
  <2>4. JsonLive'
    BY <2>1, <2>2, <2>3 DEF JsonOwned, JsonLive
  <2>5. JsonOnce'
    <3>1. eBuf' # iJson /\ eBuf' \notin kafka
      BY <2>2, <2>3 DEF JsonOwned, JsonOnce
    <3>2. \A i \in 1..n : eFifo'[i] # iJson /\ eFifo'[i] # eBuf' /\ eFifo'[i] \notin kafka
      BY <2>2, <2>3 DEF JsonOwned, JsonOnce
    <3>3. ASSUME NEW i \in 1..n, NEW j \in 1..n, eFifo'[i] = eFifo'[j] PROVE i = j
      <4>1. eFifo[i + 1] = eFifo[j + 1]
        BY <2>2, <3>3
      <4>2. i + 1 = j + 1
        BY <2>2, <2>3, <4>1 DEF JsonOwned, JsonOnce
      <4> QED
        BY <4>2
    <3> QED
      BY <2>1, <2>2, <3>1, <3>2, <3>3 DEF JsonOwned, JsonOnce
  <2>6. ASSUME NEW b \in JsonBufs, b \in live'
        PROVE  \/ iJson' = b
               \/ \E i \in 1..Len(eFifo') : eFifo'[i] = b
               \/ eBuf' = b
               \/ b \in kafka'
    <3>1. CASE \E i \in 1..Len(eFifo) : eFifo[i] = b
      <4>1. PICK i \in 1..(n + 1) : eFifo[i] = b
        BY <2>2, <3>1
      <4>2. CASE i = 1
        BY <2>2, <4>1, <4>2
      <4>3. CASE i # 1
        <5>1. i - 1 \in 1..n /\ eFifo'[i - 1] = eFifo[(i - 1) + 1] /\ (i - 1) + 1 = i
          BY <2>2, <4>3
        <5> QED
          BY <2>2, <4>1, <5>1
      <4> QED
        BY <4>2, <4>3
    <3> QED
      BY <1>a, <2>1, <2>6, <3>1 DEF JsonOwned, JsonFound
  <2> QED
    BY <2>4, <2>5, <2>6 DEF JsonOwned, JsonFound
<1>5. ASSUME KafkaProduce PROVE JsonOwned'
  <2>1. PICK done \in SUBSET (kafka \union {eBuf}) :
          kafka' = (kafka \union {eBuf}) \ done /\ live' = live \ done
    BY <1>5 DEF KafkaProduce, KafkaPoll
  <2>2. eBuf \in JsonBufs /\ eBuf' = NULL /\ UNCHANGED <<iJson, eFifo>>
    BY <1>5 DEF KafkaProduce, Phases
  <2> QED
    BY <2>1, <2>2, JsonLeaves
<1>6. ASSUME KafkaRetry PROVE JsonOwned'
  <2>1. PICK done \in SUBSET kafka : kafka' = kafka \ done /\ live' = live \ done
    BY <1>6 DEF KafkaRetry, KafkaPoll
  <2>2. eBuf \in JsonBufs /\ eBuf' = eBuf /\ UNCHANGED <<iJson, eFifo>> /\ eBuf \notin kafka
    BY <1>6 DEF KafkaRetry, Phases, JsonOwned, JsonOnce
  <2> QED
    BY <2>1, <2>2, JsonLeaves
<1>7. ASSUME KafkaGiveUp \/ KafkaError PROVE JsonOwned'
  <2>1. eBuf \in JsonBufs /\ eBuf' = NULL /\ live' = live \ {eBuf} /\ UNCHANGED <<iJson, eFifo, kafka>>
    BY <1>7 DEF KafkaGiveUp, KafkaError, Phases
  <2>2. eBuf \notin kafka
    BY DEF JsonOwned, JsonOnce
  <2> QED
    BY ZenonT(40), <2>1, <2>2, JsonLeaves
<1>8. CASE UNCHANGED <<iJson, eFifo, eBuf, kafka>> /\ \A b \in JsonBufs : b \in live' <=> b \in live
  BY <1>8, JsonFrame
<1>9. ASSUME NEW p \in Probes, ProbeFormat(p) \/ Probe(p) PROVE JsonOwned'
  <2>1. UNCHANGED <<iJson, eFifo, eBuf, kafka>>
    BY <1>9 DEF Probe, ProbeFormat, ProbePut, ProbePutFull, ProbeTrigger, ProbeTriggerFails
  <2>2. \A b \in JsonBufs : b \in live' <=> b \in live
    <3>1. CASE ProbeFormat(p)
      BY <1>a, <3>1 DEF ProbeFormat
    <3>2. CASE ProbePutFull(p)
      BY <1>a, <3>2 DEF ProbePutFull, Phases
    <3>3. CASE UNCHANGED live
      BY <3>3
    <3> QED
      BY <1>9, <3>1, <3>2, <3>3 DEF Probe, ProbePut, ProbeTrigger, ProbeTriggerFails
  <2> QED
    BY <1>8, <2>1, <2>2
<1>10. ASSUME IngressDrop \/ IngressTrigger \/ IngressTriggerFails PROVE JsonOwned'
  <2>1. iBuf \in DataBufs /\ live' = live \ {iBuf} /\ UNCHANGED <<iJson, eFifo, eBuf, kafka>>
    BY <1>10 DEF IngressDrop, IngressTrigger, IngressTriggerFails, Phases
  <2> QED
    BY <1>8, <1>a, <2>1
<1>11. ASSUME IngressWait \/ (\E p \in Probes : IngressRead(p)) \/ IngressGet \/ IngressGetEmpty
       PROVE  JsonOwned'
  BY <1>8, <1>11 DEF IngressWait, IngressRead, IngressGet, IngressGetEmpty
<1>12. ASSUME EgressWait \/ EgressGetEmpty PROVE JsonOwned'
  BY <1>8, <1>12 DEF EgressWait, EgressGetEmpty
<1>13. CASE UNCHANGED vars
  BY <1>8, <1>13 DEF vars
<1> QED
  BY <1>1, <1>2, <1>3, <1>4, <1>5, <1>6, <1>7, <1>9, <1>10, <1>11, <1>12, <1>13
     DEF Next, IngressMain, EgressMain

(***************************************************************************)
(* Every allocated buffer has exactly one owner, for any number of native  *)
(* probes and any size of the fifos: no leak, no double free and no use of *)
(* a buffer after another thread has freed it, on any of the paths of      *)
(* __wrap_fprintf, the ingress and the egress thread where a fifo is full, *)
(* a line is dirty, write() fails or Kafka refuses.                        *)
(***************************************************************************)
THEOREM OwnershipIsUnique == Spec => []OneOwner
<1>1. Init => HandsEmpty /\ DataOwned /\ JsonOwned
  BY PipelineAssumption
     DEF Init, HandsEmpty, DataOwned, DataLive, DataOnce, DataFound, JsonOwned, JsonLive, JsonOnce, JsonFound
<1>2. Inv /\ DataOwned /\ JsonOwned => OneOwner
  BY OwnedOnce DEF Inv
<1> QED
  BY <1>1, <1>2, InitInv, NextInv, NextHands, NextData, NextJson, PTL DEF Spec
=============================================================================
