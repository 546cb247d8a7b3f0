SPECIFICATION Spec
CONSTANTS
  None = None
  Dict = Dict
  Redacted = Redacted
  a1 = a1
  a2 = a2
  v1 = v1
  v2 = v2
  coarse = coarse
  peer = peer
  stranger = stranger
  FieldPaths <- MCFieldPaths
  Artifacts <- MCReleasable
  Domains <- MCDomains
  LocalDomain <- MCLocal
  KnownInstances <- MCKnownInstances
  RuleSets <- MCRuleSets
  CallContexts <- MCAccepting
  MaxRevoked = 0
  MaxSends = 1
  MaxHoldings = 3
  MaxTime = 0
INVARIANTS
  TypeOK
  DowngradeOnlyApproved
  UntrustedLeavesOnlyApproved
  RemovedNeverReleased
CHECK_DEADLOCK FALSE
