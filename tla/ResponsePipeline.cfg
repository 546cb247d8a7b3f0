SPECIFICATION Spec
CONSTANTS
  None = None
  inc1 = inc1
  inc2 = inc2
  t1 = t1
  t2 = t2
  Incidents <- MCIncidents
  Tools <- MCTools
  Targets <- MCTargets
  Requests <- MCRequests
  Counts <- MCCounts
  MaxChanges = 2
  MaxEnvelopes = 1
  MaxMissing = 1
INVARIANTS
  EnvelopeBindsRequest
  OnlyTheHashMayBeMissing
  AdmittedIsReversible
PROPERTIES
  VerifiedOnlyWhenActionable
  VerifiedContextIsSealed
CHECK_DEADLOCK FALSE
