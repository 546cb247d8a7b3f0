SPECIFICATION Spec
CONSTANTS
  None = None
  g1 = g1
  g2 = g2
  x = x
  inc = inc
  cve = cve
  bad = bad
  openssl = openssl
  purl = purl
  CveIds = {cve}
  Graphs = {g1, g2}
  Snapshots <- MCSnapshots
  Incidents <- MCIncidents
  RawFindings <- MCRawFindings
  RELATION_TYPES = {"AFFECTS"}
  MaxEntities = 2
  MaxRelations = 2
  MaxListed = 2
  MaxReplaced = 1
  MaxRecords = 1
  MaxRestarts = 1
SYMMETRY GraphSymmetry
INVARIANTS
  RecordTellsWhatWasKnown
PROPERTIES
  OneFindingPerPackage
CHECK_DEADLOCK FALSE
