SPECIFICATION Spec
CONSTANTS
  None = None
  x = x
  y = y
  cmam = cmam
  netbox = netbox
  kaudit = kaudit
  v1 = v1
  v2 = v2
  Fragments <- MCFragments
  Rankings <- MCRankings
  MaxReports = 3
INVARIANTS
  SnapshotIsGoverned
  ConflictNeverSilent
  DriftSeesTheAuthority
CHECK_DEADLOCK FALSE
