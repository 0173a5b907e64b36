SPECIFICATION Spec
CONSTANTS
  NumTables = 1
  Keys = {k1, k2, k3, k4}
  Metrics <- Various
  Capacity = 3
  PeriodRecords = 2
  RecordTimeout = 1
  BufLen = 6
  KafkaOn = TRUE
  NULL = NULL
SYMMETRY Symmetry
INVARIANTS TypeOK UniqueKeys OldestFirst PageIsWhatWasStored 
PROPERTY InsertKeepsKeys
