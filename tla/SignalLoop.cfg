SPECIFICATION FairSpec
CONSTANTS
  None = None
  Idle = Idle
  inv = inv
  obs = obs
  wazuh = wazuh
  host = host
  ssh = ssh
  scan = scan
  Subjects = {"signals"}
  Handlers = {inv, obs}
  Investigators = {inv}
  Signals <- MCSignals
  Tombstones <- MCTombstones
  MaxSignals = 2
  MaxPublished = 8
  MaxSubscriptions = 3
  MaxTime = 1
INVARIANTS
  AudienceServed
  OvertakenOnlyByNested
  ForeignSignalIsAssessed
  CandidatesNeverCascade
PROPERTY
  EveryPublishReturns
CHECK_DEADLOCK FALSE
