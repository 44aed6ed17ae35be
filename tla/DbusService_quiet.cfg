SPECIFICATION Spec
CONSTANTS
  Guis = {a, b, c}
  QueueLength = 1
  MaxPending = 2
  QuietGuis = TRUE
  DiesInCall = FALSE
  Sigterm = FALSE
  NoGui = NoGui
SYMMETRY Symmetry
INVARIANT TunnelWatched
CHECK_DEADLOCK FALSE
