SPECIFICATION FairSpec
CONSTANTS
  Probes = {p1, p2}
  FifoSize = 2
  EgressSize = 1
  DataBufs = {d1, d2}
  JsonBufs = {j1, j2}
  KafkaOn = TRUE
  KafkaQueue = 1
  RetryMax = 2
  TriggerMayFail = FALSE
  NULL = NULL
PROPERTIES
  FifosAreDrained
  MessagesLeave
