SPECIFICATION Spec
CONSTANTS
  NoPayer = NoPayer
  NoCall = NoCall
  MAX_EXPENSE_AMOUNT_MINOR = 3
  TOTAL_BASIS_POINTS = 10000
  MAX_SHARE_UNITS = 1000000
  FEATURE_SPLIT_TYPES_ENABLED = TRUE
  User = {1, 2}
  Owner = 1
  Premium = {1}
  Process = {p1, p2}
  Call <- Calls
  Int4Max = 2
  MaxRows = 3
  p1 = p1
  p2 = p2
SYMMETRY Twins
INVARIANTS
  NetsCancel
PROPERTIES
  RefinesBook
  RemovalSquare
  ErasureSquare
  DeletedTripDries
