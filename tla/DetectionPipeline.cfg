SPECIFICATION Spec
CONSTANTS
  None = None
  x = x
  y = y
  attack = attack
  ssh = ssh
  ip1 = ip1
  ip2 = ip2
  RawEvents <- MCRawEvents
  Rules <- MCRules
  Window = 1
  HourLength = 2
  MaxEvents = 3
  MaxRestarts = 1
  MaxTime = 3
INVARIANTS
  TypeOK
  EveryEventAccountedOnce
  OneIncidentPerActivity
  WindowSeparates
  SeverityNotUnderstated
  BacktestFollowsCorrelator
  AuthorisedRuleIsQuiet
PROPERTIES
  OneEventPerAlert
CHECK_DEADLOCK FALSE
