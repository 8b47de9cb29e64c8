SPECIFICATION FSpec
CONSTANTS
  HostBuf = 6
  Connections = {1}
  Owner <- MCOwner
  Jobs <- MCAnyJobs
  Toggles <- None
  Displayed <- None
  Buttons <- None
  ZSafes <- None
  Coordinates <- None
  Handshakes = TRUE
  Stops = FALSE
  MaxCommands = 3
  MaxResets = 1
  MaxRestarts = 2
  MaxFailures = 1
INVARIANTS TypeOK SwallowedOnlyAfterReset AheadPerRestart AnswerComes
PROPERTIES RefinesLossyWindow
CHECK_DEADLOCK FALSE
