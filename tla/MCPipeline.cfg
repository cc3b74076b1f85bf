\* Google, the clients and the failures are bounded: the system may come to rest.
CHECK_DEADLOCK FALSE
SPECIFICATION FairPipeline
CONSTANTS
  old = old
  u1 = u1
  client = client
  hook = hook
  cron = cron
  NoToken = NoToken
  NoUser = NoUser
  NoWorker = NoWorker
  Token = {old}
  User = {u1}
  Worker = {client, hook, cron}
  Client = {client}
  Handler = {hook}
  Sweeper = {cron}
  Linked <- Alone
  Rank <- First
  PlayMoves <- ShortLife
  Horizon = 0
  MaxVerifies = 1
  MaxFaults = 1
PROPERTIES
  ImplementsCore
  GrantsConverge
  EveryGrantAcknowledged
  EveryMessageMarked
