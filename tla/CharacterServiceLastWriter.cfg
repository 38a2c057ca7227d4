CONSTANTS
  p1 = p1
  p2 = p2
  p3 = p3
  c1 = c1
  c2 = c2
  respelled = respelled
  malformed = malformed
  bad = bad
  vitals = vitals
  notes = notes
  docType = docType
  v1 = v1
  v2 = v2
  broken = broken
  BadId = bad
  Section = {vitals, notes, docType}
  Required = {vitals}
  ServerOwned = {docType}
  Value = {v1, v2, broken}
  Malformed = {broken}
  Absent = Absent
  Untouched = Untouched
  Omitted = Omitted
  NotObject = NotObject
  NoVersion = NoVersion
  NoEntity = NoEntity
  Id <- MCId
  RawId <- MCRawId
  Canonical <- MCCanonical
  Proc = {p1, p2}
  Requests <- AllRequests
  MaxRequests = 3
SPECIFICATION Spec
INVARIANT LastWriterWins
