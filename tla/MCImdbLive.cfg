SPECIFICATION ScrapedSpec
CONSTANTS
  NumTables = 2
  Keys = {k1, k2}
  Metrics <- Unprintable
  Capacity = 2
  PeriodRecords = 1
  RecordTimeout = 1
  BufLen = 4
  KafkaOn = FALSE
  NULL = NULL
INVARIANT PageIsWhatWasStored
PROPERTY StoredLeaves
