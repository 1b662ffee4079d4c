SPECIFICATION Spec
CONSTANTS
  g1 = g1
  g2 = g2
  Entities <- MCEntities
  NoEntity <- MCNoEntity
  Callers <- MCUsers
  Paths <- MCPaths
  Targets <- MCTargets
  RuleIDs = {1}
  ReqIDs = {1}
  RuleWrites <- MCOneApproval
  RequestTTL = 1
  CredentialTTL = 1
  HistoryTTL = 1
  Goroutines = {g1, g2}
  Serves <- MCConcurrentDeny
  StorageFails = FALSE
  MaxSecrets = 2
  MaxDeliveries = 1
  MaxTime = 1
INVARIANT DenyHonoured
