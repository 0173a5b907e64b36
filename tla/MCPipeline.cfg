SPECIFICATION Spec
CONSTANTS
  Probes = {p1, p2}
  FifoSize = 1
  EgressSize = 1
  DataBufs = {d1, d2, d3, d4}
  JsonBufs = {j1, j2, j3}
  KafkaOn = TRUE
  KafkaQueue = 1
  RetryMax = 2
  TriggerMayFail = TRUE
  NULL = NULL
INVARIANTS
  TypeOK
  OneOwner
  NoLostWakeup
SYMMETRY Symmetry
