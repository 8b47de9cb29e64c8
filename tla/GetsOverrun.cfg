SPECIFICATION FairSpec
CONSTANTS
  Size = 4
  BufSize = 7
  MaxLines = 5
  Streams <- MCStreams
INVARIANTS TerminatorInside
CHECK_DEADLOCK FALSE
