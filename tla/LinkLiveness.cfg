SPECIFICATION FairSpec
CONSTANTS
  HostBuf = 2
  Connections = {1, 2}
  Owner <- MCOwner
  Jobs <- MCJobs
  Toggles = {TRUE}
  Displayed <- MCOrigin
  Buttons <- MCButtons
  ZSafes <- MCZSafe
  Coordinates <- MCCoords
  Handshakes = TRUE
  Stops = FALSE
  MaxCommands = 3
PROPERTIES EveryCommandRuns SessionReleased HandShakeCompletes
