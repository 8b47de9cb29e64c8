SPECIFICATION WebFairSpec
CONSTANTS
  HostBuf = 2
  Connections = {1, 2, 3}
  Owner <- MCOwner
  Jobs <- MCHomeJobs
  Toggles = {TRUE}
  Displayed <- None
  Buttons <- MCButtons
  ZSafes <- MCZSafe
  Coordinates <- None
  Handshakes = FALSE
  Stops = TRUE
  Quotas <- MCQuotas
  Surplus <- MCSurplus
  MaxCommands = 3
  Pages <- MCPages
  IdOf <- MCIdOf
  MaxInFlight = 1
INVARIANTS WebTypeOK PageKeepsUp SpindleCopiesAgree
PROPERTIES PagesAgreeInTheEnd
CHECK_DEADLOCK FALSE
