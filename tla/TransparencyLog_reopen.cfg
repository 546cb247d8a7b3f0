SPECIFICATION Spec
CONSTANTS
  created = created
  unknown = unknown
  root1 = root1
  root2 = root2
  EventTypes <- MCEventTypes
  ValidEventTypes <- MCValidEventTypes
  ObjectIds <- MCObjectIds
  MaxEvents = 2
  MaxEdits = 0
INVARIANTS
  UneditedFileVerifies
CHECK_DEADLOCK FALSE
