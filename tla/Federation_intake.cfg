SPECIFICATION Spec
CONSTANTS
  None = None
  Dict = Dict
  Redacted = Redacted
  a1 = a1
  a2 = a2
  v1 = v1
  v2 = v2
  coarse = coarse
  peer = peer
  stranger = stranger
  FieldPaths <- MCFieldPaths
  Artifacts <- MCArtifacts
  Domains <- MCDomains
  LocalDomain <- MCLocal
  KnownInstances <- MCKnownInstances
  RuleSets <- MCNoTransfers
  CallContexts <- MCCalls
  MaxRevoked = 1
  MaxSends = 3
  MaxHoldings = 3
  MaxTime = 1
INVARIANTS
  AcceptedContentIsUnique
  AcceptSurvivesRetry
PROPERTIES
  AcceptIsCurrent
CHECK_DEADLOCK FALSE
