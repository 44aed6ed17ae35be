SPECIFICATION FairSpec
CONSTANTS
  Guis = {a, b}
  QueueLength = 1
  MaxPending = 2
  QuietGuis = FALSE
  DiesInCall = FALSE
  Sigterm = TRUE
  NoGui = NoGui
INVARIANT TypeOK
PROPERTY DisconnectServed
PROPERTY DeadControllerDropped
CHECK_DEADLOCK FALSE
