CONSTANTS
  Clients = {p1, p2, p3}
  OneByOne = TRUE
  EarlySignals = FALSE
  WriteMayFail = FALSE
  Infos <- MCInfos
  None = None
  MaxTime = 3
SPECIFICATION FairSpec
INVARIANTS PidFileNamesTunnel WarnedInTime
PROPERTIES DisconnectEnds
