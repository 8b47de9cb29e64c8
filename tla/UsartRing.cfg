SPECIFICATION FairSpec
CONSTANTS
  Size = 4
  BufSize = 7
  MaxLines = 5
  Streams <- MCStreams
INVARIANTS TypeOK RingIsQueue LinesWhole NumCounts
PROPERTIES LinesReturned
CHECK_DEADLOCK FALSE
