SPECIFICATION Spec
CONSTANTS
  BufMax = 6
  LogLens = {2, 7}
  Values = {"a", "b", "c", "d", "e"}
  Odd = {"c", "d"}
  FieldSeqs <- SomeFieldSeqs
  MetricsNum = 2
  FifoSize = 2
  MaxLines = 4
  TriggerMayFail = TRUE
  EMPTY = EMPTY
  INVALID = INVALID
  GARBLED = GARBLED
  NULL = NULL
INVARIANTS CleanLines CleanBuffer MetricIsField
