SPECIFICATION UISpec
CONSTANTS
  g1 = g1
  p1 = p1
  p2 = p2
  Entities <- MCEntities
  NoEntity <- MCNoEntity
  Callers <- MCCallers
  Paths <- MCPaths
  Targets <- MCTargets
  RuleIDs = {1}
  ReqIDs = {1}
  RuleWrites <- MCRuleWrites
  RequestTTL = 1
  CredentialTTL = 1
  HistoryTTL = 1
  Goroutines = {g1, p1, p2}
  Serves <- MCServes
  Connections = {p1, p2}
  User <- Alice
  StorageFails = FALSE
  MaxSecrets = 1
  MaxDeliveries = 2
  MaxFailures = 1
  MaxTime = 3
INVARIANTS
  UITypeOK
  DenialShownIsTrue
PROPERTIES
  PollingEnds
  DeliveredIsShown
  ExpiredIsCleared
