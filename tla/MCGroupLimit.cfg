SPECIFICATION ServerSpec
CONSTANTS
  u1 = u1
  r1 = r1
  r2 = r2
  r3 = r3
  User = {u1}
  NoUser = NoUser
  Request = {r1, r2, r3}
  NoRequest = NoRequest
  FREE_ACTIVE_GROUP_LIMIT = 1
  MAX_FREE_REWARD_GROUP_SLOTS = 1
  PREMIUM_ACTIVE_GROUP_LIMIT = 3
  MaxSignals = 2
INVARIANTS
  AdmissionStands
  WithinCeiling
  DrainsFirst
  ChainsFit
PROPERTIES
  FreePlanHolds
  EveryRequestAnswered
  StopsInTime
