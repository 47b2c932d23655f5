SPECIFICATION Spec
CONSTANTS
  c1 = c1
  c2 = c2
  measured = measured
  recounted = recounted
  other = other
  listless = listless
  None = None
  NoEvents = "-"
  Clients <- MCClients
  Critical <- MCCritical
  Plain <- MCPlain
  Stray <- MCStray
  Values <- MCValues
  EventList <- MCEventList
  Fingerprint <- MCFingerprint
  Kinds = {"observations", "metrics"}
  MaxRecords = 2
  MaxLength = 2
  MaxWaivers = 1
INVARIANTS
  NoRecordLost
PROPERTIES
  RecordsOnlyAppended
  RefinesWriteOnce
SYMMETRY Symmetry
CHECK_DEADLOCK FALSE
