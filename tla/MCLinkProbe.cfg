SPECIFICATION FairSpec
CONSTANTS
  N = 3
  Threads = {t1}
  MaxEntries = 2
  Mode <- AllFullnat
  Bucket <- Buckets
  NULL = NULL
INVARIANTS TypeOK WalkKeepsItsPlace CountedOnce StaysRecorded
PROPERTIES CountedBeforeItLeaves ClosedLinksLeave
