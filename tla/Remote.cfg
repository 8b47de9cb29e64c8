SPECIFICATION RFairSpec
CONSTANTS
  HostBuf = 2
  Connections = {1}
  Owner <- MCOwner
  Jobs <- None
  Toggles <- None
  Displayed <- None
  Buttons <- MCButtons
  ZSafes <- None
  Coordinates <- None
  Handshakes = FALSE
  Stops = FALSE
  Quotas <- MCQuotas
  Surplus <- MCSurplus
  MaxCommands = 2
  Kinds <- MCKinds
  Tries = 2
  MaxIncrement = 4000
  MaxPolls = 1
  MaxPosted = 1
  MaxCreations = 1
INVARIANTS RTypeOK NoRunaway OneLeftPerCreation
PROPERTIES QuietWhenPaused ShownInTheEnd
CHECK_DEADLOCK FALSE
