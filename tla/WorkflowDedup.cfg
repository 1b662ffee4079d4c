SPECIFICATION Spec
CONSTANTS
  Entities <- MCEntities
  NoEntity <- MCNoEntity
  Callers <- MCUsers
  Paths <- MCPaths
  Targets <- MCTargets
  RuleIDs = {1}
  ReqIDs = {1, 2, 3}
  RuleWrites <- MCOneRuleWrite
  RequestTTL = 1
  CredentialTTL = 1
  HistoryTTL = 1
  Ops = {"read"}
  MaxTime = 4
INVARIANT OneLiveRequest
