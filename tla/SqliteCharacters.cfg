CONSTANTS
  p1 = p1
  p2 = p2
  Proc = {p1, p2}
  Id = {c1}
  Sheet = {s1}
  NoCharacter = NoCharacter
  MaxRetries = 2
  Slots = 1
  MaxCalls = 4
SPECIFICATION FairSpec
INVARIANTS
  RowIsLastWrite
  NoLostUpdate
  SavedAsReported
  HeldIsRevision
PROPERTIES
  ImplementsContract
  CallsReturn
