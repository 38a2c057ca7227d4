CONSTANTS
  p1 = p1
  p2 = p2
  u1 = u1
  u2 = u2
  respelled = respelled
  malformed = malformed
  ada = ada
  blank = blank
  a = a
  A = A
  b = b
  noAt = noAt
  h = h
  H = H
  spaces = spaces
  NoHandle = NoHandle
  Invalid = Invalid
  Omitted = Omitted
  NoVersion = NoVersion
  NoUser = NoUser
  Id <- MCId
  RawId <- MCRawId
  CanonicalId <- MCCanonicalId
  Name = {ada, blank}
  Nameless = {blank}
  RawEmail = {a, A, b, noAt}
  CanonicalEmail <- MCCanonicalEmail
  RawHandle = {h, H, spaces, NoHandle}
  CanonicalHandle <- MCCanonicalHandle
  Proc = {p1, p2}
  Requests <- AllRequests
  MaxRequests = 4
SPECIFICATION Spec
SYMMETRY Symmetry
INVARIANTS
  IdentityInv
  IdentitiesUnique
  ListsAreConsistent
  NoLostUpdate
  ExistsMeansClaimed
