SPECIFICATION LifeSpec
CONSTANTS
  NoPayer = NoPayer
  NoCall = NoCall
  MAX_EXPENSE_AMOUNT_MINOR = 60
  TOTAL_BASIS_POINTS = 10000
  MAX_SHARE_UNITS = 1000000
  FEATURE_SPLIT_TYPES_ENABLED = TRUE
  User = {1, 2, 3, 4}
  Owner = 1
  Premium = {1}
  Process = {p1}
  Call <- Calls
  Int4Max = 40
  MaxRows = 3
  p1 = p1
  Viewer = 4
  Draw <- FeedRows
  NoCursor = NoCursor
  NoLimit = NoLimit
  ACTIVITY_DEFAULT_LIMIT = 2
  ACTIVITY_MAX_LIMIT = 3
  MAX_PAGE_SIZE = 2
INVARIANTS
  FairShares
  SchemaCalculatorsAgree
  PairwiseReconciles
  PlanSettles
  PlanShrinks
  LeaversAreSquare
PROPERTIES
  FeedWalks
  ExpensePages
