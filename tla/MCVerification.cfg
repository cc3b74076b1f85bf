SPECIFICATION Spec
CONSTANTS
  old = old
  new = new
  u1 = u1
  u2 = u2
  w1 = w1
  w2 = w2
  NoToken = NoToken
  NoUser = NoUser
  NoWorker = NoWorker
  Token = {old, new}
  User = {u1, u2}
  Worker = {w1, w2}
  Linked <- NewReplacesOld
  Rank <- OldThenNew
  PlayMoves <- ShortLife
  Horizon = 1
SYMMETRY Symmetry
INVARIANTS
  DecisionStands
  GrantsAreBacked
  AckIsTruthful
  PremiumWithinPaidPeriod
  WaitsUpwards
PROPERTIES
  TokenNeverChangesOwner
  SuccessorInheritsOwner
  AckAfterGrant
