SPECIFICATION Spec
CONSTANTS
  HostBuf = 2
  Connections = {1, 2}
  Owner <- MCOwner
  Jobs <- MCAnyJobs
  Toggles = {TRUE}
  Displayed <- MCOrigin
  Buttons <- None
  ZSafes <- MCZSafe
  Coordinates <- None
  Handshakes = TRUE
  Stops = TRUE
  MaxCommands = 3
INVARIANTS TypeOK NothingSwallowed AtMostOneAhead NewestIsCurrent EndsOnlyByStop
PROPERTIES RefinesWindow
CHECK_DEADLOCK FALSE
