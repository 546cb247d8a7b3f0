SPECIFICATION TrailSpec
CONSTANTS
  Missing = Missing
  executed = executed
  created = created
  action = action
  root1 = root1
  c1 = c1
  c2 = c2
  EventTypes = {executed, created}
  ValidEventTypes = {executed, created}
  RootCreated = created
  ObjectIds = {action, root1}
  RootId = root1
  Contents <- MCContents
  MaxArtifacts = 2
  MaxEvents = 3
  MaxEdits = 1
SYMMETRY MCSymmetry
INVARIANTS
  TypeOK
  ChainIntact
  ReceiptsSurviveRestart
  ReceiptPinsHistory
  
  OneEditIsTold
PROPERTIES
  DurableLogSpec
  HistoricEditBreaksChain
CHECK_DEADLOCK FALSE
