CONSTANTS
  Servers = {"p1", "p2"}
  Arguments <- MCArguments
  PortalConfigs <- MCPortalConfigs
  Wanted = "a"
  Regions = {"EU", "Unknown"}
  Challenges = {"c1", "c2"}
  None = None
  MaxPriority = 3
  MaxCommands = 2
SPECIFICATION FairSpec
INVARIANTS StdinOnce TwoSignIns ChallengeAnswered CredentialBelongs FailedCookieForgotten BestGatewayFirst
PROPERTIES Onward LoginEnds
CHECK_DEADLOCK FALSE
