SPECIFICATION TrailSpec
CONSTANTS
  Missing = Missing
  executed = executed
  created = created
  action = action
  root1 = root1
  c1 = c1
  c2 = c2
  EventTypes = {executed, created}
  ValidEventTypes = {executed, created}
  RootCreated = created
  ObjectIds = {action, root1}
  RootId = root1
  Contents = {c1}
  MaxArtifacts = 1
  MaxEvents = 4
  MaxEdits = 1
INVARIANTS
  ReceiptCoversIntactChain
CHECK_DEADLOCK FALSE
