SPECIFICATION FSpec
CONSTANTS
  HostBuf = 6
  Connections = {1}
  Owner <- MCOwner
  Jobs <- MCJobs
  Toggles <- None
  Displayed <- None
  Buttons <- None
  ZSafes <- None
  Coordinates <- None
  Handshakes = TRUE
  Stops = FALSE
  MaxCommands = 3
  MaxResets = 1
  MaxRestarts = 0
  MaxFailures = 0
INVARIANTS PositionKnown
CHECK_DEADLOCK FALSE
