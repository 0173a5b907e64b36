SPECIFICATION FairSpec
CONSTANTS
  BufSize = 2
  Chunk = 2
  MaxPart = 2
  MaxOut = 4
  MaxPipe = 2
  Period = 1
  Unblocks = FALSE
  NULL = NULL
INVARIANTS TypeOK FinishedIsSent SentIsFinished StartIsRead
PROPERTY SamplesChange
