SPECIFICATION Spec
CONSTANTS
  g1 = g1
  g2 = g2
  Entities <- MCEntities
  NoEntity <- MCNoEntity
  Callers <- MCCallers
  Paths <- MCPaths
  Targets <- MCTargets
  RuleIDs = {1}
  ReqIDs = {1}
  RuleWrites <- MCRuleWrites
  RequestTTL = 1
  CredentialTTL = 1
  HistoryTTL = 1
  Goroutines = {g1, g2}
  Serves <- MCSequential
  StorageFails = TRUE
  MaxSecrets = 2
  MaxDeliveries = 2
  MaxTime = 3
INVARIANTS
  TypeOK
  QuorumBehindSecret
  SingleExecution
  DeliveredOnce
  DenyHonoured
  HistoryTruthful
PROPERTY ImplementsLifecycle
