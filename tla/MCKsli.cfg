SPECIFICATION FairSpec
CONSTANTS
  Fds = {f1}
  Socks = {s1}
  Skbs = {b1, b2}
  Period = 1
  MaxSamples = 2
  MultiThreaded = FALSE
  Blocking = FALSE
  NULL = NULL
INVARIANTS TypeOK Tracked StartIsArrival  PeriodStats
PROPERTY NeverStuck
