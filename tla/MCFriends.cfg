SPECIFICATION FairSpec
CONSTANTS
  User = {u1, u2}
  Process = {p1, p2}
  NoProcess = NoProcess
  Device = {t1}
  NoUser = NoUser
PROPERTIES
  AcceptedTogether
  PendingIsFresh
  CallsEnd
  LabelsFit
