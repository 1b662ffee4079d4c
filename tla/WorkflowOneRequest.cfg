SPECIFICATION Spec
CONSTANTS
  Entities <- MCEntities
  NoEntity <- MCNoEntity
  Callers <- MCCallers
  Paths <- MCPaths
  Targets <- MCTargets
  RuleIDs = {1}
  ReqIDs = {1}
  RuleWrites <- MCRuleWrites
  RequestTTL = 1
  CredentialTTL = 2
  HistoryTTL = 1
  Ops = {"read"}
  MaxTime = 5
INVARIANTS
  TypeOK
  SingleExecution
  QuorumBehindSecret
  BurnAfterReading
  HistoryTruthful
PROPERTIES
  SecretKept
  ImplementsLifecycle
