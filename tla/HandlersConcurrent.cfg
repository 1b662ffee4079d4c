SPECIFICATION Spec
CONSTANTS
  g1 = g1
  g2 = g2
  Entities <- MCEntities
  NoEntity <- MCNoEntity
  Callers <- MCApprovers
  Paths <- MCPaths
  Targets <- MCTargets
  RuleIDs = {1}
  ReqIDs = {1}
  RuleWrites <- MCTwoApprovals
  RequestTTL = 1
  CredentialTTL = 1
  HistoryTTL = 1
  Goroutines = {g1, g2}
  Serves <- MCConcurrent
  StorageFails = FALSE
  MaxSecrets = 2
  MaxDeliveries = 1
  MaxTime = 1
INVARIANTS
  QuorumBehindSecret
  DeliveredToRequester
SYMMETRY GoroutineSymmetry
