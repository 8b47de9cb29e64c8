SPECIFICATION Spec
CONSTANTS
  HostBuf = 2
  Connections = {1, 2}
  Owner <- MCOwner
  Jobs <- MCJobs
  Toggles = {}
  Displayed <- None
  Buttons <- None
  ZSafes <- None
  Coordinates <- None
  Handshakes = FALSE
  Stops = TRUE
  MaxCommands = 2
INVARIANTS ServerSurvives
CHECK_DEADLOCK FALSE
