SPECIFICATION Spec
CONSTANTS
  i1 = i1
  i2 = i2
  h1 = h1
  d1 = d1
  d2 = d2
  p1 = p1
  p2 = p2
  Identity = {i1, i2}
  NoIdentity = NoIdentity
  Handle = {h1, d1, d2}
  NoHandle = NoHandle
  Candidates <- Names
  AnonHandle <- Anon
  Process = {p1, p2}
  MaxAccounts = 2
  MaxPairs = 2
SYMMETRY Twins
INVARIANTS
  OneAccountPerIdentity
  RotatedOut
PROPERTIES
  RevokedDries
  ErasedIsFinal
